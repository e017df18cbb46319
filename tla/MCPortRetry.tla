---------------------------- MODULE MCPortRetry ----------------------------
(* Ports close to the limit, and every kind of argument of start().        *)
EXTENDS PortRetry

MCRetryArgs == -1..3

=============================================================================

----------------------------- MODULE MCDurable ------------------------------
(* Instance of Durable for TLC: one appender, one syncer.                  *)
EXTENDS Durable, TLC

CONSTANTS a1, s1

MCAppenders == {a1}
MCSyncers == {s1}
=============================================================================

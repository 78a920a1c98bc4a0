----------------------------- MODULE MCGateway ------------------------------
(* Two sessions and one io thread, or one session and two io threads.      *)
EXTENDS Gateway

CONSTANTS s1, s2, t1, t2

OneIoThread  == [threads |-> {t1}, sessions |-> {s1, s2}, messages |-> 3]
TwoIoThreads == [threads |-> {t1, t2}, sessions |-> {s1}, messages |-> 2]

OneOrTwo  == {OneIoThread, TwoIoThreads}
TwoOnly   == {TwoIoThreads}
=============================================================================

------------------------------ MODULE MCNetwork ------------------------------
(***************************************************************************)
(* The network stack for TLC: one host whose address is a palindrome and   *)
(* one whose address is not.  The address q reads as in the other byte     *)
(* order, and the one my_ip reads as, belong to nobody.                    *)
(***************************************************************************)
EXTENDS Network

CONSTANTS me, em, p, q, qr, ones, zero, m1, m2, m3

MCAddresses == {me, em, p, q, qr, ones, zero}

MCSwap == [a \in MCAddresses |-> CASE a = me -> em [] a = em -> me
                                   [] a = q -> qr  [] a = qr -> q
                                   [] OTHER -> a]

MCFirstMac == [h \in Hosts |-> IF h = p THEN m1 ELSE m2]

\* "ARP: Got reply, sending ping..." (network.c:238): once the host has answered
\* the ARP request, the ping is sent, whatever its address.
EveryPingAnswered == \A a \in Targets \cap Hosts : Answered(a)
==============================================================================

------------------------------- MODULE Network -------------------------------
(***************************************************************************)
(* The network stack, kernel/net/network.c: the ARP table, the one pending *)
(* ping, and the handlers network_handler calls on the frame it takes from *)
(* the card.  The card, the wire and the other hosts are external, modelled *)
(* from how network.c uses them: frames may be lost, delayed and overtaken, *)
(* hosts send on their own, and a host may come back with another card.    *)
(*                                                                         *)
(* An address field of a frame holds the bytes as the little-endian CPU    *)
(* reads them; Swap turns them into the address and back (ntohl, htonl).   *)
(***************************************************************************)
EXTENDS Naturals, Sequences

CONSTANTS
  Addresses,    \* the IP addresses, as host-order integers
  my_ip,        \* our address
  AllOnes,      \* 255.255.255.255
  Zero,         \* 0.0.0.0
  Swap,         \* ntohl and htonl
  Hosts,        \* the addresses of the other hosts on the wire
  Macs,         \* the hardware addresses the hosts' cards may have
  my_mac, Broadcast, NoMac,
  FirstMac,     \* the card each host starts with
  Targets,      \* the addresses the user pings
  TABLE_SIZE,   \* entries of arp_table (16)
  RingSize,     \* bound: frames the card buffers for network_handler
  MaxPings,     \* bound: ping commands
  MaxChatter    \* bound: frames hosts send unasked, and cards they change

ASSUME NetworkAssumption ==
  /\ Swap \in [Addresses -> Addresses]
  /\ \A a \in Addresses : Swap[Swap[a]] = a
  /\ {my_ip, AllOnes, Zero} \subseteq Addresses
  /\ Hosts \subseteq Addresses \ {my_ip, AllOnes}
  /\ Targets \subseteq Addresses
  /\ FirstMac \in [Hosts -> Macs]
  /\ \A h, k \in Hosts : FirstMac[h] = FirstMac[k] => h = k
  /\ {my_mac, Broadcast, NoMac} \cap Macs = {}
  /\ my_mac # NoMac /\ Broadcast # NoMac /\ my_mac # Broadcast
  /\ TABLE_SIZE \in Nat \ {0} /\ RingSize \in Nat \ {0}
  /\ MaxPings \in Nat /\ MaxChatter \in Nat

VARIABLES
  arp_table,     \* the entries in use, arp_table[0 .. arp_table_count - 1]
  ping_request,  \* the pending ping: its address, its id, and waiting
  tx,            \* the frames on their way to the hosts
  rx,            \* the frames the card holds for network_handler
  card,          \* the hardware address of each host
  chatter,       \* frames sent unasked and cards changed so far
  bindings,      \* history: every <<address, hardware address>> of a host
  echoed,        \* history: every <<address, id>> an echo request was sent for
  lost           \* history: some frame was lost

stack == <<arp_table, ping_request>>
vars == <<stack, tx, rx, card, chatter, bindings, echoed, lost>>

-----------------------------------------------------------------------------
(* Frames.  The fields nobody reads are left out.                          *)

ArpFrame(dst, src, op, ip, target) ==
  [type |-> "arp", dst |-> dst, src |-> src, op |-> op,
   sender_mac |-> src, sender_ip |-> Swap[ip], target_ip |-> Swap[target]]

IcmpFrame(dst, src, ip, target, kind, id) ==
  [type |-> "ip", dst |-> dst, src |-> src,
   src_ip |-> Swap[ip], dest_ip |-> Swap[target], icmp |-> kind, id |-> id]

\* arp_request.
arp_request(ip) == ArpFrame(Broadcast, my_mac, "request", my_ip, ip)

Known(table, ip) == { i \in DOMAIN table : table[i].ip = ip }

\* Mutant of arp_lookup: the newest entry wins.
arp_lookup_last(table, ip) ==
  IF Known(table, ip) = {} THEN NoMac
  ELSE table[CHOOSE i \in Known(table, ip) : \A j \in Known(table, ip) : j <= i].mac

\* arp_lookup: the first match.
arp_lookup(table, ip) ==
  IF Known(table, ip) = {} THEN NoMac
  ELSE table[CHOOSE i \in Known(table, ip) : \A j \in Known(table, ip) : i <= j].mac

\* Mutant of ipv4_send: a packet for an unknown address is broadcast.
ipv4_send_anyway(table, dest, kind, id) ==
  LET mac == IF arp_lookup(table, dest) = NoMac THEN Broadcast
             ELSE arp_lookup(table, dest)
  IN  IcmpFrame(mac, my_mac, my_ip, dest, kind, id)

\* ipv4_send: the frame it hands to the card.  Without a hardware address the
\* packet is dropped and the frame is an ARP request.
ipv4_send(table, dest, kind, id) ==
  IF arp_lookup(table, dest) = NoMac
    THEN arp_request(dest)
    ELSE IcmpFrame(arp_lookup(table, dest), my_mac, my_ip, dest, kind, id)

\* The echo requests among the frames sent, for the history.
EchoesIn(F) == { <<Swap[f.dest_ip], f.id>> : f \in { g \in F : g.type = "ip" /\ g.icmp = "echo" } }

Send(F) == /\ tx' = tx \cup F
           /\ echoed' = echoed \cup EchoesIn(F)

-----------------------------------------------------------------------------
(* network.c.                                                              *)

Init == /\ arp_table = <<>>
        /\ ping_request = [ip |-> Zero, id |-> 0, waiting |-> FALSE]
        /\ tx = {} /\ rx = <<>>
        /\ card = FirstMac
        /\ chatter = 0
        /\ bindings = { <<h, FirstMac[h]>> : h \in Hosts }
        /\ echoed = {}
        /\ lost = FALSE

\* ping, for an address the user typed.
Ping == \E ip \in Targets :
          /\ ping_request.id < MaxPings
          /\ ping_request' = [ip |-> ip, id |-> ping_request.id + 1, waiting |-> TRUE]
          /\ Send({arp_request(ip)})
          /\ UNCHANGED <<arp_table, rx, card, chatter, bindings, lost>>

\* Mutant of Learn: the address is stored as it stands in the frame.
LearnRaw(arp) ==
  IF Len(arp_table) < TABLE_SIZE
    THEN Append(arp_table, [ip |-> arp.sender_ip, mac |-> arp.sender_mac])
    ELSE arp_table

\* Mutant of Learn: the last entry is not kept back.
LearnUnbounded(arp) ==
  IF Len(arp_table) <= TABLE_SIZE
    THEN Append(arp_table, [ip |-> Swap[arp.sender_ip], mac |-> arp.sender_mac])
    ELSE arp_table

\* The table after an ARP packet: an entry more, known or not, while there is room.
Learn(arp) ==
  IF Len(arp_table) < TABLE_SIZE
    THEN Append(arp_table, [ip |-> Swap[arp.sender_ip], mac |-> arp.sender_mac])
    ELSE arp_table

\* Mutant of arp_handler: a sender that is in the table already is ignored.
arp_handler_once(arp) ==
  LET sender_ip == Swap[arp.sender_ip]
      asked  == arp.op = "request" /\ Swap[arp.target_ip] = my_ip
      answer == arp.op = "reply" /\ ping_request.waiting /\ sender_ip = ping_request.ip
      new    == arp_lookup(arp_table, sender_ip) = NoMac
  IN  /\ arp_table' = IF new THEN Learn(arp) ELSE arp_table
      /\ Send((IF new /\ asked THEN {ArpFrame(arp.sender_mac, my_mac, "reply",
                                              my_ip, sender_ip)} ELSE {})
              \cup
              (IF new /\ answer THEN {ipv4_send(Learn(arp), Swap[sender_ip],
                                                "echo", ping_request.id)} ELSE {}))
      /\ UNCHANGED ping_request

\* arp_handler.  The address handed to icmp_send_request is converted once more.
arp_handler(arp) ==
  LET sender_ip == Swap[arp.sender_ip]
      asked  == arp.op = "request" /\ Swap[arp.target_ip] = my_ip
      answer == arp.op = "reply" /\ ping_request.waiting /\ sender_ip = ping_request.ip
  IN  /\ arp_table' = Learn(arp)
      /\ Send((IF asked THEN {ArpFrame(arp.sender_mac, my_mac, "reply",
                                       my_ip, sender_ip)} ELSE {})
              \cup
              (IF answer THEN {ipv4_send(Learn(arp), Swap[sender_ip],
                                         "echo", ping_request.id)} ELSE {}))
      /\ UNCHANGED ping_request

\* Mutant of icmp_handler: the sender of a reply is not compared.
icmp_handler_any(ip) ==
  /\ ping_request' = [ping_request EXCEPT !.waiting = @ /\ ip.icmp # "reply"]
  /\ Send(IF ip.icmp = "echo"
            THEN {ipv4_send(arp_table, Swap[ip.src_ip], "reply", ip.id)} ELSE {})
  /\ UNCHANGED arp_table

\* icmp_handler, icmp_send_reply.  The id of a reply is not compared.
icmp_handler(ip) ==
  /\ ping_request' =
       [ping_request EXCEPT !.waiting =
          @ /\ ~(ip.icmp = "reply" /\ Swap[ip.src_ip] = ping_request.ip)]
  /\ Send(IF ip.icmp = "echo"
            THEN {ipv4_send(arp_table, Swap[ip.src_ip], "reply", ip.id)} ELSE {})
  /\ UNCHANGED arp_table

\* ipv4_handler.
ipv4_handler(ip) ==
  \/ Swap[ip.dest_ip] \in {my_ip, AllOnes} /\ icmp_handler(ip)
  \/ Swap[ip.dest_ip] \notin {my_ip, AllOnes} /\ UNCHANGED <<stack, tx, echoed>>

\* network_handler, ethernet_handler: one frame for each key the user presses.
network_handler ==
  /\ rx # <<>>
  /\ rx' = Tail(rx)
  /\ \/ Head(rx).type = "arp" /\ arp_handler(Head(rx))
     \/ Head(rx).type = "ip" /\ ipv4_handler(Head(rx))
  /\ UNCHANGED <<card, chatter, bindings, lost>>

-----------------------------------------------------------------------------
(* The hosts, the wire and the card (external).                            *)

Receive(F) == IF F = {} THEN UNCHANGED <<rx, lost>>
              ELSE \E f \in F :
                     IF Len(rx) < RingSize
                       THEN rx' = Append(rx, f) /\ UNCHANGED lost
                       ELSE lost' = TRUE /\ UNCHANGED rx

\* What the hosts answer to a frame of ours.
Answers(f) ==
  IF f.type = "arp"
    THEN { ArpFrame(my_mac, card[h], "reply", h, my_ip) :
             h \in { k \in Hosts : f.op = "request" /\ Swap[f.target_ip] = k } }
    ELSE { IcmpFrame(my_mac, card[h], h, Swap[f.src_ip], "reply", f.id) :
             h \in { k \in Hosts : /\ f.icmp = "echo" /\ f.dst = card[k]
                                   /\ Swap[f.dest_ip] = k } }

Deliver == \E f \in tx :
             /\ tx' = tx \ {f}
             /\ Receive(Answers(f))
             /\ UNCHANGED <<stack, card, chatter, bindings, echoed>>

Lose == \E f \in tx :
          /\ tx' = tx \ {f}
          /\ lost' = TRUE
          /\ UNCHANGED <<stack, rx, card, chatter, bindings, echoed>>

\* A host resolves somebody's address, announces its own, or pings us.
Chat == \E h \in Hosts :
          /\ chatter < MaxChatter
          /\ chatter' = chatter + 1
          /\ \/ \E target \in Hosts \cup {my_ip} :
                  Receive({ArpFrame(Broadcast, card[h], "request", h, target)})
             \/ Receive({ArpFrame(my_mac, card[h], "reply", h, my_ip)})
             \/ Receive({IcmpFrame(my_mac, card[h], h, my_ip, "echo", 0)})
             \/ Receive({IcmpFrame(Broadcast, card[h], h, AllOnes, "echo", 0)})
          /\ UNCHANGED <<stack, tx, card, bindings, echoed>>

\* A host comes back with a card nobody had.
NewCard == \E h \in Hosts, m \in Macs :
             /\ chatter < MaxChatter
             /\ chatter' = chatter + 1
             /\ \A b \in bindings : b[2] # m
             /\ card' = [card EXCEPT ![h] = m]
             /\ bindings' = bindings \cup {<<h, m>>}
             /\ UNCHANGED <<stack, tx, rx, echoed, lost>>

Next == Ping \/ network_handler \/ Deliver \/ Lose \/ Chat \/ NewCard

Spec == Init /\ [][Next]_vars

\* The user keeps pressing keys, so network_handler keeps being called, and a
\* frame on the wire arrives unless it is lost.
FairSpec == Spec /\ WF_vars(network_handler) /\ WF_vars(Deliver)

-----------------------------------------------------------------------------
ArpType == [type : {"arp"}, dst : Macs \cup {my_mac, Broadcast},
            src : Macs \cup {my_mac}, op : {"request", "reply"},
            sender_mac : Macs \cup {my_mac},
            sender_ip : Addresses, target_ip : Addresses]
IcmpType == [type : {"ip"}, dst : Macs \cup {my_mac, Broadcast},
             src : Macs \cup {my_mac}, src_ip : Addresses, dest_ip : Addresses,
             icmp : {"echo", "reply"}, id : 0 .. MaxPings]
FrameType == ArpType \cup IcmpType

\* The shape of the state; the table never outgrows its array (network.c:203).
NetTypeOK ==
  /\ arp_table \in Seq([ip : Addresses, mac : Macs]) /\ Len(arp_table) <= TABLE_SIZE
  /\ ping_request \in [ip : Addresses, id : 0 .. MaxPings, waiting : BOOLEAN]
  /\ tx \subseteq FrameType
  /\ rx \in Seq(FrameType)
  /\ card \in [Hosts -> Macs]
  /\ chatter \in Nat
  /\ bindings \subseteq Hosts \X Macs
  /\ echoed \subseteq Addresses \X (0 .. MaxPings)
  /\ lost \in BOOLEAN

\* Every entry of the ARP table is a pair some host really had: no byte order,
\* no order of requests, replies and announcements puts another one there.
TableSound ==
  \A i \in DOMAIN arp_table : <<arp_table[i].ip, arp_table[i].mac>> \in bindings

\* No IP packet leaves for a card that never belonged to its destination: one
\* whose hardware address is not known yet is dropped, never misdelivered.
NoMisdelivery ==
  \A f \in tx : f.type = "ip" => <<Swap[f.dest_ip], f.dst>> \in bindings

\* What arp_lookup once answered for an address it answers for ever, because the
\* first entry wins and no entry is changed or aged: a host that comes back with
\* another card is not reached again (network.c:101-108, 203-210).
BindingStable ==
  [][\A a \in Addresses :
       arp_lookup(arp_table, a) # NoMac =>
         arp_lookup(arp_table', a) = arp_lookup(arp_table, a)]_vars

\* A ping completes only because its host answered an echo request that was sent
\* to it, by this ping or by an earlier one (network.c:250-257).
CompletionJustified ==
  [][ping_request.waiting /\ ~ping_request'.waiting =>
       \E id \in 1 .. ping_request.id : <<ping_request.ip, id>> \in echoed]_vars

Pending(a) == ping_request.waiting /\ ping_request.ip = a

\* The reasons for which a ping to host a may stay pending.
Excused(a) == \/ lost
              \/ Len(arp_table) = TABLE_SIZE /\ arp_lookup(arp_table, a) = NoMac
              \/ arp_lookup(arp_table, a) \notin {NoMac, card[a]}

Answered(a) == Pending(a) ~> ~Pending(a) \/ Excused(a)

\* A ping to a host whose address reads the same in both byte orders completes,
\* unless a frame is lost (nothing is ever sent again, network.c:342), the table
\* is full without the host, or it keeps a card the host no longer has.
PingAnswered == \A a \in Targets \cap Hosts : Swap[a] = a => Answered(a)
==============================================================================

---------------------------- MODULE NetworkProofs ----------------------------
(***************************************************************************)
(* Proofs about the network stack for every set of hosts and addresses,    *)
(* every size of the ARP table and every number of pings: the table holds  *)
(* only true bindings, no packet leaves for a card its destination never   *)
(* had, a binding once answered is answered for ever, and a ping completes *)
(* only on the answer to an echo request that was sent.                    *)
(***************************************************************************)
EXTENDS Network, TLAPS, WellFoundedInduction, SequenceTheorems

-----------------------------------------------------------------------------
(* The inductive invariant: what the frames under way carry is true too.   *)

Cards == \A h \in Hosts : <<h, card[h]>> \in bindings

\* A frame on its way to us tells the truth about its sender: an address and a
\* card among the bindings B, and an answer to an echo request among E.
Truthful(f, B, E) ==
  /\ f.type = "arp" => <<Swap[f.sender_ip], f.sender_mac>> \in B
  /\ f.type = "ip" /\ f.icmp = "reply" => <<Swap[f.src_ip], f.id>> \in E

RxTruthful == \A i \in DOMAIN rx : Truthful(rx[i], bindings, echoed)

\* Every echo request under way is one of the history.
TxRecorded ==
  \A f \in tx : f.type = "ip" /\ f.icmp = "echo" => <<Swap[f.dest_ip], f.id>> \in echoed

\* The ids in use are those of pings made so far.
IdsInUse == /\ echoed \subseteq Addresses \X (1 .. ping_request.id)
            /\ ping_request.waiting => ping_request.id \in 1 .. MaxPings

IInv == /\ NetTypeOK /\ TableSound /\ NoMisdelivery
        /\ Cards /\ RxTruthful /\ TxRecorded /\ IdsInUse

-----------------------------------------------------------------------------
(* The ARP table.                                                          *)

TableType == Seq([ip : Addresses, mac : Macs])

\* Every nonempty set of naturals has a least element.
LEMMA LeastExists ==
  ASSUME NEW K, K \subseteq Nat, K # {}
  PROVE  \E i \in K : \A j \in K : i <= j
<1> DEFINE R == { ss \in Nat \X Nat : ss[1] < ss[2] }
<1>1. IsWellFoundedOn(R, Nat)
  BY NatLessThanWellFounded, Zenon DEF OpToRel
<1> HIDE DEF R
<1>2. PICK x \in K : \A y \in K : <<y, x>> \notin R
  BY <1>1, WFMin
<1>3. \A y \in K : ~(y < x)
  BY <1>2 DEF R
<1> QED BY <1>3

\* arp_lookup answers with the first entry for the address.
LEMMA LookupFirst ==
  ASSUME NEW table \in TableType, NEW a, Known(table, a) # {}
  PROVE  \E i \in DOMAIN table :
           /\ table[i].ip = a
           /\ \A j \in DOMAIN table : table[j].ip = a => i <= j
           /\ arp_lookup(table, a) = table[i].mac
           /\ arp_lookup(table, a) \in Macs
<1> DEFINE K == Known(table, a)
<1>1. K \subseteq Nat /\ K # {} /\ K \subseteq DOMAIN table
  BY DEF Known, TableType
<1> DEFINE first == CHOOSE i \in K : \A j \in K : i <= j
<1>2. first \in K /\ \A j \in K : first <= j
  BY <1>1, LeastExists
<1>3. arp_lookup(table, a) = table[first].mac
  BY DEF arp_lookup
<1>4. /\ first \in DOMAIN table /\ table[first].ip = a
      /\ \A j \in DOMAIN table : table[j].ip = a => first <= j
  BY <1>2 DEF Known
<1> HIDE DEF first
<1>5. table[first] \in [ip : Addresses, mac : Macs]
  BY <1>4, LenProperties, ElementOfSeq DEF TableType
<1>6. table[first].mac \in Macs
  BY <1>5
<1> QED BY <1>3, <1>4, <1>6

\* A lookup that answers names a true binding when every entry is true.
LEMMA LookupSound ==
  ASSUME NEW table \in TableType, NEW a, arp_lookup(table, a) # NoMac, NEW B,
         \A i \in DOMAIN table : <<table[i].ip, table[i].mac>> \in B
  PROVE  <<a, arp_lookup(table, a)>> \in B /\ arp_lookup(table, a) \in Macs
<1>1. Known(table, a) # {}
  BY DEF arp_lookup
<1> QED BY <1>1, LookupFirst

\* An entry more at the end changes no answer.
LEMMA LookupStable ==
  ASSUME NEW table \in TableType, NEW e \in [ip : Addresses, mac : Macs],
         NEW a, arp_lookup(table, a) # NoMac
  PROVE  arp_lookup(Append(table, e), a) = arp_lookup(table, a)
<1> DEFINE longer == Append(table, e)
<1>1. Known(table, a) # {}
  BY DEF arp_lookup
<1>2. PICK i \in DOMAIN table :
        /\ table[i].ip = a
        /\ \A j \in DOMAIN table : table[j].ip = a => i <= j
        /\ arp_lookup(table, a) = table[i].mac
  BY <1>1, LookupFirst
<1>3. /\ longer \in TableType
      /\ DOMAIN longer = 1 .. Len(table) + 1
      /\ DOMAIN table = 1 .. Len(table) /\ Len(table) \in Nat
      /\ \A j \in DOMAIN table : longer[j] = table[j]
  BY DEF TableType
<1>4. i \in DOMAIN longer /\ longer[i].ip = a
  BY <1>2, <1>3
<1> HIDE DEF longer
<1>5. Known(longer, a) # {}
  BY <1>4 DEF Known
<1>6. PICK k \in DOMAIN longer :
        /\ longer[k].ip = a
        /\ \A j \in DOMAIN longer : longer[j].ip = a => k <= j
        /\ arp_lookup(longer, a) = longer[k].mac
  BY <1>3, <1>5, LookupFirst
<1>7. k <= i /\ k \in DOMAIN table
  BY <1>3, <1>4, <1>6
<1>8. k = i
  BY <1>2, <1>3, <1>6, <1>7
<1>9. arp_lookup(longer, a) = arp_lookup(table, a)
  BY <1>2, <1>3, <1>6, <1>8
<1> QED BY <1>9 DEF longer

-----------------------------------------------------------------------------
(* Frames.                                                                 *)

LEMMA SwapTwice == \A a \in Addresses : Swap[a] \in Addresses /\ Swap[Swap[a]] = a
BY NetworkAssumption

LEMMA ArpFrameType ==
  ASSUME NEW dst \in Macs \cup {my_mac, Broadcast}, NEW src \in Macs \cup {my_mac},
         NEW op \in {"request", "reply"}, NEW ip \in Addresses, NEW target \in Addresses
  PROVE  /\ ArpFrame(dst, src, op, ip, target) \in FrameType
         /\ ArpFrame(dst, src, op, ip, target).type = "arp"
BY SwapTwice DEF ArpFrame, FrameType, ArpType

LEMMA IcmpFrameType ==
  ASSUME NEW dst \in Macs \cup {my_mac, Broadcast}, NEW src \in Macs \cup {my_mac},
         NEW ip \in Addresses, NEW target \in Addresses,
         NEW kind \in {"echo", "reply"}, NEW id \in 0 .. MaxPings
  PROVE  /\ IcmpFrame(dst, src, ip, target, kind, id) \in FrameType
         /\ IcmpFrame(dst, src, ip, target, kind, id).type = "ip"
BY SwapTwice DEF IcmpFrame, FrameType, IcmpType

\* What ipv4_send puts on the wire is an ARP request, or the packet, for a card
\* its destination had.
LEMMA SendSound ==
  ASSUME NEW table \in TableType, NEW dest \in Addresses, NEW kind \in {"echo", "reply"},
         NEW id \in 0 .. MaxPings, NEW B,
         \A i \in DOMAIN table : <<table[i].ip, table[i].mac>> \in B
  PROVE  LET f == ipv4_send(table, dest, kind, id)
         IN  /\ f \in FrameType
             /\ f.type = "ip" => /\ <<Swap[f.dest_ip], f.dst>> \in B
                                 /\ Swap[f.dest_ip] = dest
                                 /\ f.icmp = kind /\ f.id = id
<1> DEFINE f == ipv4_send(table, dest, kind, id)
<1>1. CASE arp_lookup(table, dest) = NoMac
  <2>1. f = arp_request(dest)
    BY <1>1 DEF ipv4_send
  <2> HIDE DEF f
  <2>2. f = ArpFrame(Broadcast, my_mac, "request", my_ip, dest) /\ my_ip \in Addresses
    BY <2>1, NetworkAssumption DEF arp_request
  <2>3. f \in FrameType /\ f.type = "arp"
    BY <2>2, ArpFrameType
  <2> QED BY <2>3 DEF f
<1>2. CASE arp_lookup(table, dest) # NoMac
  <2>1. f = IcmpFrame(arp_lookup(table, dest), my_mac, my_ip, dest, kind, id)
    BY <1>2 DEF ipv4_send
  <2>2. <<dest, arp_lookup(table, dest)>> \in B /\ arp_lookup(table, dest) \in Macs
    BY <1>2, LookupSound
  <2> HIDE DEF f
  <2>3. f \in FrameType
    <3>1. my_ip \in Addresses
      BY NetworkAssumption
    <3> QED BY <2>1, <2>2, <3>1, IcmpFrameType
  <2>4. f.dst = arp_lookup(table, dest) /\ f.icmp = kind /\ f.id = id
        /\ f.dest_ip = Swap[dest]
    BY <2>1 DEF IcmpFrame
  <2> QED BY <2>2, <2>3, <2>4, SwapTwice DEF f
<1> QED BY <1>1, <1>2

\* What Send keeps, whatever correct frames are sent.
LEMMA SendKeeps ==
  ASSUME IInv, NEW F \in SUBSET FrameType, Send(F), bindings \subseteq bindings',
         ping_request' \in [ip : Addresses, id : 0 .. MaxPings, waiting : BOOLEAN],
         ping_request.id <= ping_request'.id,
         ping_request'.waiting => ping_request'.id \in 1 .. MaxPings,
         \A f \in F : f.type = "ip" =>
            /\ <<Swap[f.dest_ip], f.dst>> \in bindings'
            /\ f.icmp = "echo" => f.id \in 1 .. ping_request'.id
  PROVE  /\ tx' \subseteq FrameType
         /\ echoed \subseteq echoed'
         /\ echoed' \subseteq Addresses \X (0 .. MaxPings)
         /\ NoMisdelivery' /\ TxRecorded' /\ IdsInUse'
<1>1. tx' = tx \cup F /\ echoed' = echoed \cup EchoesIn(F)
  BY DEF Send
<1>2. \A f \in F : f.type = "ip" => f.dest_ip \in Addresses
  BY DEF FrameType, ArpType, IcmpType
<1>3. EchoesIn(F) \subseteq Addresses \X (1 .. ping_request'.id)
  <2> SUFFICES ASSUME NEW f \in F, f.type = "ip", f.icmp = "echo"
               PROVE  <<Swap[f.dest_ip], f.id>> \in Addresses \X (1 .. ping_request'.id)
    BY DEF EchoesIn
  <2>1. f.id \in 1 .. ping_request'.id
    OBVIOUS
  <2> QED BY <1>2, <2>1, SwapTwice
<1>4. ping_request.id \in Nat /\ ping_request'.id \in Nat /\ ping_request'.id <= MaxPings
  BY NetworkAssumption DEF IInv, NetTypeOK
<1>5. IdsInUse'
  BY <1>1, <1>3, <1>4 DEF IInv, IdsInUse
<1>6. echoed' \subseteq Addresses \X (0 .. MaxPings)
  BY <1>4, <1>5, NetworkAssumption DEF IdsInUse
<1>7. tx' \subseteq FrameType
  BY <1>1 DEF IInv, NetTypeOK
<1>8. NoMisdelivery'
  BY <1>1 DEF IInv, NoMisdelivery
<1>9. TxRecorded'
  BY <1>1 DEF IInv, TxRecorded, EchoesIn
<1> QED BY <1>1, <1>5, <1>6, <1>7, <1>8, <1>9

\* What Receive keeps, whatever true frames arrive.
LEMMA ReceiveKeeps ==
  ASSUME IInv, NEW F \in SUBSET FrameType, Receive(F),
         bindings \subseteq bindings', echoed \subseteq echoed',
         \A f \in F : Truthful(f, bindings', echoed')
  PROVE  rx' \in Seq(FrameType) /\ RxTruthful' /\ lost' \in BOOLEAN
<1>1. rx \in Seq(FrameType) /\ lost \in BOOLEAN
  BY DEF IInv, NetTypeOK
<1>2. \A i \in DOMAIN rx : Truthful(rx[i], bindings', echoed')
  BY DEF IInv, RxTruthful, Truthful
<1>3. CASE UNCHANGED <<rx, lost>>
  BY <1>1, <1>2, <1>3 DEF RxTruthful
<1>4. CASE \E f \in F : rx' = Append(rx, f) /\ UNCHANGED lost
  <2>1. PICK f \in F : rx' = Append(rx, f) /\ UNCHANGED lost
    BY <1>4
  <2>2. /\ rx' \in Seq(FrameType)
        /\ DOMAIN rx' = 1 .. Len(rx) + 1 /\ DOMAIN rx = 1 .. Len(rx) /\ Len(rx) \in Nat
        /\ rx'[Len(rx) + 1] = f
        /\ \A i \in 1 .. Len(rx) : rx'[i] = rx[i]
    BY <1>1, <2>1
  <2>3. \A i \in DOMAIN rx' : Truthful(rx'[i], bindings', echoed')
    <3> SUFFICES ASSUME NEW i \in DOMAIN rx' PROVE Truthful(rx'[i], bindings', echoed')
      OBVIOUS
    <3>1. CASE i = Len(rx) + 1
      BY <2>2, <3>1
    <3>2. CASE i # Len(rx) + 1
      <4>1. i \in DOMAIN rx /\ rx'[i] = rx[i]
        BY <2>2, <3>2
      <4> QED BY <1>2, <4>1
    <3> QED BY <3>1, <3>2
  <2> QED BY <1>1, <2>1, <2>2, <2>3 DEF RxTruthful
<1>5. CASE lost' = TRUE /\ UNCHANGED rx
  BY <1>1, <1>2, <1>5 DEF RxTruthful
<1> QED BY <1>3, <1>4, <1>5 DEF Receive

-----------------------------------------------------------------------------
(* One lemma per action.                                                   *)

LEMMA InitEstablishesIInv == Init => IInv
<1> SUFFICES ASSUME Init PROVE IInv
  OBVIOUS
<1>1. NetTypeOK
  <2>1. arp_table \in Seq([ip : Addresses, mac : Macs]) /\ Len(arp_table) <= TABLE_SIZE
    BY NetworkAssumption DEF Init
  <2>2. ping_request \in [ip : Addresses, id : 0 .. MaxPings, waiting : BOOLEAN]
    BY NetworkAssumption DEF Init
  <2>3. rx \in Seq(FrameType) /\ tx \subseteq FrameType
    BY DEF Init
  <2>4. bindings \subseteq Hosts \X Macs /\ card \in [Hosts -> Macs]
    BY NetworkAssumption DEF Init
  <2>5. chatter \in Nat /\ echoed \subseteq Addresses \X (0 .. MaxPings) /\ lost \in BOOLEAN
    BY DEF Init
  <2> QED BY <2>1, <2>2, <2>3, <2>4, <2>5 DEF NetTypeOK
<1>2. TableSound /\ NoMisdelivery /\ Cards /\ RxTruthful /\ TxRecorded /\ IdsInUse
  BY DEF Init, TableSound, NoMisdelivery, Cards, RxTruthful, TxRecorded, IdsInUse
<1> QED BY <1>1, <1>2 DEF IInv

LEMMA PingKeepsIInv == ASSUME IInv, Ping PROVE IInv'
<1>1. PICK ip \in Targets :
        /\ ping_request.id < MaxPings
        /\ ping_request' = [ip |-> ip, id |-> ping_request.id + 1, waiting |-> TRUE]
        /\ Send({arp_request(ip)})
        /\ UNCHANGED <<arp_table, rx, card, chatter, bindings, lost>>
  BY DEF Ping
<1>2. NetTypeOK
  BY DEF IInv
<1>3. ip \in Addresses /\ my_ip \in Addresses /\ MaxPings \in Nat
  BY NetworkAssumption
<1>4. /\ ping_request' \in [ip : Addresses, id : 0 .. MaxPings, waiting : BOOLEAN]
      /\ ping_request.id <= ping_request'.id /\ ping_request'.id \in 1 .. MaxPings
  BY <1>1, <1>2, <1>3 DEF NetTypeOK
<1>5. arp_request(ip) \in FrameType /\ arp_request(ip).type = "arp"
  BY <1>3, ArpFrameType DEF arp_request
<1>6. /\ tx' \subseteq FrameType /\ echoed \subseteq echoed'
      /\ echoed' \subseteq Addresses \X (0 .. MaxPings)
      /\ NoMisdelivery' /\ TxRecorded' /\ IdsInUse'
  BY <1>1, <1>4, <1>5, SendKeeps
<1>7. NetTypeOK'
  BY <1>1, <1>2, <1>4, <1>6 DEF NetTypeOK
<1>8. TableSound' /\ Cards' /\ RxTruthful'
  BY <1>1, <1>6 DEF IInv, TableSound, Cards, RxTruthful, Truthful
<1> QED BY <1>6, <1>7, <1>8 DEF IInv

\* What network_handler leaves of the frames it has not taken yet.
LEMMA TailKeeps ==
  ASSUME IInv, rx # <<>>, rx' = Tail(rx), bindings' = bindings, echoed \subseteq echoed'
  PROVE  rx' \in Seq(FrameType) /\ RxTruthful' /\ Head(rx) \in FrameType /\ Truthful(Head(rx), bindings, echoed)
<1>1. rx \in Seq(FrameType)
  BY DEF IInv, NetTypeOK
<1>2. /\ rx' \in Seq(FrameType) /\ Head(rx) = rx[1] /\ 1 \in DOMAIN rx
      /\ \A i \in DOMAIN rx' : i + 1 \in DOMAIN rx /\ rx'[i] = rx[i + 1]
  BY <1>1
<1>3. RxTruthful'
  BY <1>2 DEF IInv, RxTruthful, Truthful
<1>4. Head(rx) \in FrameType
  BY <1>1, <1>2, LenProperties, ElementOfSeq
<1> QED BY <1>2, <1>3, <1>4 DEF IInv, RxTruthful

\* A true ARP packet leaves the table typed, bounded and true.
LEMMA LearnKeeps ==
  ASSUME IInv, NEW arp \in FrameType, arp.type = "arp", Truthful(arp, bindings, echoed)
  PROVE  /\ Learn(arp) \in TableType /\ Len(Learn(arp)) <= TABLE_SIZE
         /\ \A i \in DOMAIN Learn(arp) :
              <<Learn(arp)[i].ip, Learn(arp)[i].mac>> \in bindings
<1> DEFINE e == [ip |-> Swap[arp.sender_ip], mac |-> arp.sender_mac]
<1>1. <<e.ip, e.mac>> \in bindings /\ bindings \subseteq Hosts \X Macs
  BY DEF IInv, NetTypeOK, Truthful
<1>2. e \in [ip : Addresses, mac : Macs]
  BY <1>1, NetworkAssumption
<1>3. /\ arp_table \in TableType /\ Len(arp_table) <= TABLE_SIZE
      /\ \A i \in DOMAIN arp_table : <<arp_table[i].ip, arp_table[i].mac>> \in bindings
      /\ TABLE_SIZE \in Nat
  BY NetworkAssumption DEF IInv, NetTypeOK, TableSound, TableType
<1> HIDE DEF e
<1>4. CASE Len(arp_table) < TABLE_SIZE
  <2>1. Learn(arp) = Append(arp_table, e)
    BY <1>4 DEF Learn, e
  <2>2. /\ Append(arp_table, e) \in TableType
        /\ Len(Append(arp_table, e)) = Len(arp_table) + 1
        /\ DOMAIN Append(arp_table, e) = 1 .. Len(arp_table) + 1
        /\ DOMAIN arp_table = 1 .. Len(arp_table) /\ Len(arp_table) \in Nat
        /\ Append(arp_table, e)[Len(arp_table) + 1] = e
        /\ \A i \in DOMAIN arp_table : Append(arp_table, e)[i] = arp_table[i]
    BY <1>2, <1>3 DEF TableType
  <2>3. \A i \in DOMAIN Append(arp_table, e) :
          i \in DOMAIN arp_table \/ Append(arp_table, e)[i] = e
    BY <2>2
  <2> QED BY <1>1, <1>3, <1>4, <2>1, <2>2, <2>3
<1>5. CASE ~(Len(arp_table) < TABLE_SIZE)
  BY <1>3, <1>5 DEF Learn
<1> QED BY <1>4, <1>5

LEMMA ArpKeepsIInv ==
  ASSUME IInv, rx # <<>>, rx' = Tail(rx), Head(rx).type = "arp", arp_handler(Head(rx)),
         UNCHANGED <<card, chatter, bindings, lost>>
  PROVE  IInv'
<1> DEFINE arp == Head(rx)
           sender_ip == Swap[arp.sender_ip]
           asked  == arp.op = "request" /\ Swap[arp.target_ip] = my_ip
           answer == arp.op = "reply" /\ ping_request.waiting /\ sender_ip = ping_request.ip
           back == ArpFrame(arp.sender_mac, my_mac, "reply", my_ip, sender_ip)
           ask  == ipv4_send(Learn(arp), Swap[sender_ip], "echo", ping_request.id)
           F == (IF asked THEN {back} ELSE {}) \cup (IF answer THEN {ask} ELSE {})
<1>1. /\ arp_table' = Learn(arp) /\ Send(F) /\ ping_request' = ping_request
      /\ card' = card /\ chatter' = chatter /\ bindings' = bindings /\ lost' = lost
  BY DEF arp_handler
<1>2. echoed \subseteq echoed'
  BY <1>1 DEF Send
<1>3. /\ rx' \in Seq(FrameType) /\ RxTruthful'
      /\ arp \in FrameType /\ Truthful(arp, bindings, echoed)
  BY <1>1, <1>2, TailKeeps
<1>4. /\ Learn(arp) \in TableType /\ Len(Learn(arp)) <= TABLE_SIZE
      /\ \A i \in DOMAIN Learn(arp) :
           <<Learn(arp)[i].ip, Learn(arp)[i].mac>> \in bindings
  BY <1>3, LearnKeeps
<1>5. sender_ip \in Addresses /\ Swap[sender_ip] \in Addresses
      /\ arp.sender_mac \in Macs /\ my_ip \in Addresses
  <2>1. arp.sender_ip \in Addresses
    BY <1>3 DEF FrameType, ArpType, IcmpType
  <2>2. arp.sender_mac \in Macs
    BY <1>3 DEF Truthful, IInv, NetTypeOK
  <2> QED BY <2>1, <2>2, NetworkAssumption
<1>6. /\ ping_request \in [ip : Addresses, id : 0 .. MaxPings, waiting : BOOLEAN]
      /\ ping_request.waiting => ping_request.id \in 1 .. MaxPings
      /\ MaxPings \in Nat
  BY NetworkAssumption DEF IInv, NetTypeOK, IdsInUse
<1>7. back \in FrameType /\ back.type = "arp"
  BY <1>5, ArpFrameType
<1>8. /\ ask \in FrameType
      /\ ask.type = "ip" => /\ <<Swap[ask.dest_ip], ask.dst>> \in bindings
                            /\ ask.id = ping_request.id
  <2>1. ping_request.id \in 0 .. MaxPings
    BY <1>6
  <2> HIDE DEF sender_ip
  <2> QED BY <1>4, <1>5, <2>1, SendSound
<1> HIDE DEF ask, back
<1>9. /\ F \subseteq FrameType
      /\ \A f \in F : f.type = "ip" => /\ <<Swap[f.dest_ip], f.dst>> \in bindings
                                       /\ f.id \in 1 .. ping_request.id
  BY <1>6, <1>7, <1>8
<1> HIDE DEF F
<1>10. /\ tx' \subseteq FrameType
       /\ echoed' \subseteq Addresses \X (0 .. MaxPings)
       /\ NoMisdelivery' /\ TxRecorded' /\ IdsInUse'
  BY <1>1, <1>6, <1>9, SendKeeps
<1>11. NetTypeOK'
  BY <1>1, <1>3, <1>4, <1>10 DEF IInv, NetTypeOK, TableType
<1>12. TableSound' /\ Cards'
  BY <1>1, <1>4 DEF IInv, TableSound, Cards
<1> QED BY <1>3, <1>10, <1>11, <1>12 DEF IInv

LEMMA IcmpKeepsIInv ==
  ASSUME IInv, rx # <<>>, rx' = Tail(rx), Head(rx).type = "ip", icmp_handler(Head(rx)),
         UNCHANGED <<card, chatter, bindings, lost>>
  PROVE  IInv'
<1> DEFINE ip == Head(rx)
           dest == Swap[ip.src_ip]
           id == ip.id
           back == ipv4_send(arp_table, dest, "reply", id)
           F == IF ip.icmp = "echo" THEN {back} ELSE {}
<1>1. /\ arp_table' = arp_table /\ Send(F)
      /\ card' = card /\ chatter' = chatter /\ bindings' = bindings /\ lost' = lost
      /\ ping_request' = [ping_request EXCEPT !.waiting =
            @ /\ ~(ip.icmp = "reply" /\ Swap[ip.src_ip] = ping_request.ip)]
  BY DEF icmp_handler
<1>2. echoed \subseteq echoed'
  BY <1>1 DEF Send
<1>3. rx' \in Seq(FrameType) /\ RxTruthful' /\ ip \in FrameType
  BY <1>1, <1>2, TailKeeps
<1>4. ip.src_ip \in Addresses /\ ip.id \in 0 .. MaxPings
  BY <1>3 DEF FrameType, ArpType, IcmpType
<1>5. /\ arp_table \in TableType
      /\ \A i \in DOMAIN arp_table : <<arp_table[i].ip, arp_table[i].mac>> \in bindings
  BY DEF IInv, NetTypeOK, TableSound, TableType
<1>6. /\ ping_request \in [ip : Addresses, id : 0 .. MaxPings, waiting : BOOLEAN]
      /\ ping_request.waiting => ping_request.id \in 1 .. MaxPings
      /\ MaxPings \in Nat
  BY NetworkAssumption DEF IInv, NetTypeOK, IdsInUse
<1>7. /\ ping_request' \in [ip : Addresses, id : 0 .. MaxPings, waiting : BOOLEAN]
      /\ ping_request'.id = ping_request.id
      /\ ping_request'.waiting => ping_request'.id \in 1 .. MaxPings
  BY <1>1, <1>6
<1>8. /\ back \in FrameType
      /\ back.type = "ip" => /\ <<Swap[back.dest_ip], back.dst>> \in bindings
                             /\ back.icmp = "reply"
  <2>1. dest \in Addresses /\ id \in 0 .. MaxPings
    BY <1>4, SwapTwice
  <2> HIDE DEF dest, id
  <2> QED BY <1>5, <2>1, SendSound
<1> HIDE DEF back
<1>9. /\ F \subseteq FrameType
      /\ \A f \in F : f.type = "ip" => /\ <<Swap[f.dest_ip], f.dst>> \in bindings
                                       /\ f.icmp # "echo"
  BY <1>8
<1> HIDE DEF F
<1>10. /\ tx' \subseteq FrameType
       /\ echoed' \subseteq Addresses \X (0 .. MaxPings)
       /\ NoMisdelivery' /\ TxRecorded' /\ IdsInUse'
  <2>1. ping_request.id <= ping_request'.id
    BY <1>6, <1>7
  <2> QED BY <1>1, <1>7, <1>9, <2>1, SendKeeps
<1>11. NetTypeOK'
  BY <1>1, <1>3, <1>7, <1>10 DEF IInv, NetTypeOK
<1>12. TableSound' /\ Cards'
  BY <1>1 DEF IInv, TableSound, Cards
<1> QED BY <1>3, <1>10, <1>11, <1>12 DEF IInv

LEMMA HandlerKeepsIInv == ASSUME IInv, network_handler PROVE IInv'
<1>1. rx # <<>> /\ rx' = Tail(rx) /\ UNCHANGED <<card, chatter, bindings, lost>>
  BY DEF network_handler
<1>2. CASE Head(rx).type = "arp" /\ arp_handler(Head(rx))
  BY <1>1, <1>2, ArpKeepsIInv
<1>3. CASE Head(rx).type = "ip" /\ icmp_handler(Head(rx))
  BY <1>1, <1>3, IcmpKeepsIInv
<1>4. CASE UNCHANGED <<stack, tx, echoed>>
  <2>1. rx' \in Seq(FrameType) /\ RxTruthful'
    BY <1>1, <1>4, TailKeeps
  <2>2. NetTypeOK'
    BY <1>1, <1>4, <2>1 DEF IInv, NetTypeOK, stack
  <2>3. TableSound' /\ NoMisdelivery' /\ Cards' /\ TxRecorded' /\ IdsInUse'
    BY <1>1, <1>4
       DEF IInv, TableSound, NoMisdelivery, Cards, TxRecorded, IdsInUse, stack
  <2> QED BY <2>1, <2>2, <2>3 DEF IInv
<1> QED BY <1>2, <1>3, <1>4 DEF network_handler, ipv4_handler

\* The hosts answer with the truth.
LEMMA AnswersTruthful ==
  ASSUME IInv, NEW f \in tx
  PROVE  /\ Answers(f) \subseteq FrameType
         /\ \A g \in Answers(f) : Truthful(g, bindings, echoed)
<1>1. f \in FrameType /\ card \in [Hosts -> Macs] /\ my_ip \in Addresses
      /\ Hosts \subseteq Addresses
  BY NetworkAssumption DEF IInv, NetTypeOK
<1>2. CASE f.type = "arp"
  <2> SUFFICES ASSUME NEW h \in Hosts
               PROVE  LET g == ArpFrame(my_mac, card[h], "reply", h, my_ip)
                      IN  g \in FrameType /\ Truthful(g, bindings, echoed)
    BY <1>2 DEF Answers
  <2> DEFINE g == ArpFrame(my_mac, card[h], "reply", h, my_ip)
  <2>1. g \in FrameType /\ g.type = "arp"
    BY <1>1, ArpFrameType
  <2>2. g.sender_ip = Swap[h] /\ g.sender_mac = card[h]
    BY DEF ArpFrame
  <2>3. <<Swap[g.sender_ip], g.sender_mac>> \in bindings
    BY <1>1, <2>2, SwapTwice DEF IInv, Cards
  <2> QED BY <2>1, <2>3 DEF Truthful
<1>3. CASE f.type = "ip"
  <2>1. f.src_ip \in Addresses /\ f.id \in 0 .. MaxPings
    BY <1>1, <1>3 DEF FrameType, ArpType, IcmpType
  <2> DEFINE dest == Swap[f.src_ip]
             id == f.id
  <2> SUFFICES ASSUME NEW h \in Hosts, f.icmp = "echo", Swap[f.dest_ip] = h
               PROVE  LET g == IcmpFrame(my_mac, card[h], h, dest, "reply", id)
                      IN  g \in FrameType /\ Truthful(g, bindings, echoed)
    BY <1>3 DEF Answers
  <2> DEFINE g == IcmpFrame(my_mac, card[h], h, dest, "reply", id)
  <2>2. dest \in Addresses /\ id \in 0 .. MaxPings
    BY <2>1, SwapTwice
  <2>3. <<h, id>> \in echoed
    BY <1>3 DEF IInv, TxRecorded
  <2> HIDE DEF dest, id
  <2>4. g \in FrameType /\ g.type = "ip"
    BY <1>1, <2>2, IcmpFrameType
  <2>5. g.src_ip = Swap[h] /\ g.id = id
    BY DEF IcmpFrame
  <2>6. <<Swap[g.src_ip], g.id>> \in echoed
    BY <1>1, <2>3, <2>5, SwapTwice
  <2> QED BY <2>4, <2>6 DEF Truthful
<1> QED BY <1>1, <1>2, <1>3 DEF FrameType, ArpType, IcmpType

LEMMA DeliverKeepsIInv == ASSUME IInv, Deliver PROVE IInv'
<1>1. PICK f \in tx : /\ tx' = tx \ {f}
                      /\ Receive(Answers(f))
                      /\ UNCHANGED <<stack, card, chatter, bindings, echoed>>
  BY DEF Deliver
<1>2. rx' \in Seq(FrameType) /\ RxTruthful' /\ lost' \in BOOLEAN
  BY <1>1, AnswersTruthful, ReceiveKeeps
<1>3. NetTypeOK'
  BY <1>1, <1>2 DEF IInv, NetTypeOK, stack
<1>4. TableSound' /\ NoMisdelivery' /\ Cards' /\ TxRecorded' /\ IdsInUse'
  BY <1>1 DEF IInv, TableSound, NoMisdelivery, Cards, TxRecorded, IdsInUse, stack
<1> QED BY <1>2, <1>3, <1>4 DEF IInv

LEMMA LoseKeepsIInv == ASSUME IInv, Lose PROVE IInv'
<1>1. NetTypeOK'
  BY DEF Lose, IInv, NetTypeOK, stack
<1>2. TableSound' /\ NoMisdelivery' /\ Cards' /\ RxTruthful' /\ TxRecorded' /\ IdsInUse'
  BY DEF Lose, IInv, TableSound, NoMisdelivery, Cards, RxTruthful, TxRecorded,
         IdsInUse, stack
<1> QED BY <1>1, <1>2 DEF IInv

LEMMA ChatKeepsIInv == ASSUME IInv, Chat PROVE IInv'
<1>1. PICK h \in Hosts :
        /\ chatter' = chatter + 1
        /\ \/ \E target \in Hosts \cup {my_ip} :
                Receive({ArpFrame(Broadcast, card[h], "request", h, target)})
           \/ Receive({ArpFrame(my_mac, card[h], "reply", h, my_ip)})
           \/ Receive({IcmpFrame(my_mac, card[h], h, my_ip, "echo", 0)})
           \/ Receive({IcmpFrame(Broadcast, card[h], h, AllOnes, "echo", 0)})
        /\ UNCHANGED <<stack, tx, card, bindings, echoed>>
  BY DEF Chat
<1>2. /\ card[h] \in Macs /\ h \in Addresses /\ my_ip \in Addresses /\ AllOnes \in Addresses
      /\ Hosts \cup {my_ip} \subseteq Addresses /\ 0 \in 0 .. MaxPings
  BY NetworkAssumption DEF IInv, NetTypeOK
<1>3. ASSUME NEW g \in FrameType, Truthful(g, bindings, echoed), Receive({g})
      PROVE  rx' \in Seq(FrameType) /\ RxTruthful' /\ lost' \in BOOLEAN
  BY <1>1, <1>3, ReceiveKeeps
<1>4. ASSUME NEW dst \in {my_mac, Broadcast}, NEW op \in {"request", "reply"},
             NEW target \in Addresses
      PROVE  LET g == ArpFrame(dst, card[h], op, h, target)
             IN  g \in FrameType /\ Truthful(g, bindings, echoed)
  <2> DEFINE g == ArpFrame(dst, card[h], op, h, target)
  <2>1. g \in FrameType /\ g.type = "arp"
    BY <1>2, ArpFrameType
  <2>2. g.sender_ip = Swap[h] /\ g.sender_mac = card[h]
    BY DEF ArpFrame
  <2>3. <<Swap[g.sender_ip], g.sender_mac>> \in bindings
    BY <1>2, <2>2, SwapTwice DEF IInv, Cards
  <2> QED BY <2>1, <2>3 DEF Truthful
<1>5. ASSUME NEW dst \in {my_mac, Broadcast}, NEW target \in Addresses
      PROVE  LET g == IcmpFrame(dst, card[h], h, target, "echo", 0)
             IN  g \in FrameType /\ Truthful(g, bindings, echoed)
  <2> DEFINE g == IcmpFrame(dst, card[h], h, target, "echo", 0)
  <2>1. g \in FrameType /\ g.type = "ip"
    BY <1>2, IcmpFrameType
  <2>2. g.icmp = "echo"
    BY DEF IcmpFrame
  <2> QED BY <2>1, <2>2 DEF Truthful
<1>6. rx' \in Seq(FrameType) /\ RxTruthful' /\ lost' \in BOOLEAN
  BY <1>1, <1>2, <1>3, <1>4, <1>5
<1>7. NetTypeOK'
  BY <1>1, <1>6 DEF IInv, NetTypeOK, stack
<1>8. TableSound' /\ NoMisdelivery' /\ Cards' /\ TxRecorded' /\ IdsInUse'
  BY <1>1 DEF IInv, TableSound, NoMisdelivery, Cards, TxRecorded, IdsInUse, stack
<1> QED BY <1>6, <1>7, <1>8 DEF IInv

LEMMA NewCardKeepsIInv == ASSUME IInv, NewCard PROVE IInv'
<1>1. PICK h \in Hosts, m \in Macs :
        /\ chatter' = chatter + 1
        /\ card' = [card EXCEPT ![h] = m]
        /\ bindings' = bindings \cup {<<h, m>>}
        /\ UNCHANGED <<stack, tx, rx, echoed, lost>>
  BY DEF NewCard
<1>2. NetTypeOK'
  BY <1>1 DEF IInv, NetTypeOK, stack
<1>3. TableSound' /\ NoMisdelivery' /\ TxRecorded' /\ IdsInUse'
  BY <1>1 DEF IInv, TableSound, NoMisdelivery, TxRecorded, IdsInUse, stack
<1>4. Cards'
  BY <1>1 DEF IInv, NetTypeOK, Cards
<1>5. RxTruthful'
  BY <1>1 DEF IInv, RxTruthful, Truthful
<1> QED BY <1>2, <1>3, <1>4, <1>5 DEF IInv

LEMMA NextKeepsIInv == IInv /\ [Next]_vars => IInv'
<1> SUFFICES ASSUME IInv, [Next]_vars PROVE IInv'
  OBVIOUS
<1>1. CASE UNCHANGED vars
  <2>1. NetTypeOK'
    BY <1>1 DEF IInv, NetTypeOK, vars, stack
  <2>2. TableSound' /\ NoMisdelivery' /\ Cards' /\ RxTruthful' /\ TxRecorded' /\ IdsInUse'
    BY <1>1 DEF IInv, TableSound, NoMisdelivery, Cards, RxTruthful, TxRecorded,
                IdsInUse, vars, stack
  <2> QED BY <2>1, <2>2 DEF IInv
<1> QED BY <1>1, PingKeepsIInv, HandlerKeepsIInv, DeliverKeepsIInv, LoseKeepsIInv,
           ChatKeepsIInv, NewCardKeepsIInv DEF Next

-----------------------------------------------------------------------------
(* The theorems.                                                           *)

\* Every reachable state satisfies the inductive invariant.
THEOREM NetworkInvariance == Spec => []IInv
BY InitEstablishesIInv, NextKeepsIInv, PTL DEF Spec

\* The state of network.c keeps its shape, and the ARP table stays in its array.
THEOREM NetTypeCorrect == Spec => []NetTypeOK
<1>1. IInv => NetTypeOK
  BY DEF IInv
<1> QED BY <1>1, NetworkInvariance, PTL

\* Every entry of the ARP table is a pair some host really had, although entries
\* come from requests, replies and announcements in any order.
THEOREM TableSoundHolds == Spec => []TableSound
<1>1. IInv => TableSound
  BY DEF IInv
<1> QED BY <1>1, NetworkInvariance, PTL

\* No IP packet is on its way to a card its destination never had.
THEOREM NoMisdeliveryHolds == Spec => []NoMisdelivery
<1>1. IInv => NoMisdelivery
  BY DEF IInv
<1> QED BY <1>1, NetworkInvariance, PTL

\* What one step does to the answers of arp_lookup: nothing to those it gives.
LEMMA StepKeepsBindings ==
  ASSUME IInv, [Next]_vars, NEW a \in Addresses, arp_lookup(arp_table, a) # NoMac
  PROVE  arp_lookup(arp_table', a) = arp_lookup(arp_table, a)
<1>1. CASE arp_table' = arp_table
  BY <1>1
<1>2. CASE network_handler /\ Head(rx).type = "arp" /\ arp_handler(Head(rx))
  <2> DEFINE arp == Head(rx)
             e == [ip |-> Swap[arp.sender_ip], mac |-> arp.sender_mac]
  <2>1. Truthful(arp, bindings, echoed)
    BY <1>2 DEF network_handler, IInv, NetTypeOK, RxTruthful
  <2>2. <<e.ip, e.mac>> \in bindings /\ bindings \subseteq Hosts \X Macs
    BY <1>2, <2>1 DEF Truthful, IInv, NetTypeOK
  <2>3. e \in [ip : Addresses, mac : Macs] /\ arp_table \in TableType
    BY <2>2, NetworkAssumption DEF IInv, NetTypeOK, TableType
  <2>4. arp_table' = Append(arp_table, e) \/ arp_table' = arp_table
    BY <1>2 DEF arp_handler, Learn
  <2> HIDE DEF e
  <2> QED BY <2>3, <2>4, LookupStable
<1> QED BY <1>1, <1>2
        DEF Next, Ping, network_handler, ipv4_handler, icmp_handler, Deliver, Lose,
            Chat, NewCard, stack, vars

\* What arp_lookup once answered for an address it answers for ever.
THEOREM BindingStableHolds == Spec => BindingStable
<1>1. IInv /\ [Next]_vars =>
        [\A a \in Addresses :
           arp_lookup(arp_table, a) # NoMac =>
             arp_lookup(arp_table', a) = arp_lookup(arp_table, a)]_vars
  BY StepKeepsBindings
<1> QED BY <1>1, NetworkInvariance, PTL DEF Spec, BindingStable

\* A ping completes only on an answer to an echo request sent to its host.
THEOREM CompletionJustifiedHolds == Spec => CompletionJustified
<1> DEFINE Justified == ping_request.waiting /\ ~ping_request'.waiting =>
                          \E id \in 1 .. ping_request.id : <<ping_request.ip, id>> \in echoed
<1>1. IInv /\ [Next]_vars => Justified
  <2> SUFFICES ASSUME IInv, [Next]_vars, ping_request.waiting, ~ping_request'.waiting
               PROVE  \E id \in 1 .. ping_request.id : <<ping_request.ip, id>> \in echoed
    OBVIOUS
  <2>1. network_handler /\ Head(rx).type = "ip" /\ icmp_handler(Head(rx))
    <3>1. ping_request' # ping_request
      OBVIOUS
    <3>2. ASSUME Ping PROVE FALSE
      <4>1. PICK ip \in Targets :
              ping_request' = [ip |-> ip, id |-> ping_request.id + 1, waiting |-> TRUE]
        BY <3>2 DEF Ping
      <4>2. ping_request'.waiting = TRUE
        BY <4>1
      <4> QED BY <4>2
    <3>3. network_handler
      BY <3>1, <3>2 DEF Next, Deliver, Lose, Chat, NewCard, stack, vars
    <3> QED BY <3>1, <3>3 DEF network_handler, ipv4_handler, arp_handler, stack
  <2> DEFINE ip == Head(rx)
  <2>2. ip.icmp = "reply" /\ Swap[ip.src_ip] = ping_request.ip
    BY <2>1 DEF icmp_handler, IInv, NetTypeOK
  <2>3. Truthful(ip, bindings, echoed)
    BY <2>1 DEF network_handler, IInv, NetTypeOK, RxTruthful
  <2>4. <<ping_request.ip, ip.id>> \in echoed
    BY <2>1, <2>2, <2>3 DEF Truthful
  <2>5. ip.id \in 1 .. ping_request.id
    BY <2>4 DEF IInv, IdsInUse
  <2> QED BY <2>4, <2>5
<1>2. IInv /\ [Next]_vars => [Justified]_vars
  BY <1>1
<1> QED BY <1>2, NetworkInvariance, PTL DEF Spec, CompletionJustified
==============================================================================

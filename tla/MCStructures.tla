--------------------------- MODULE MCStructures ---------------------------
EXTENDS RadTree, UdbRadTree, UdbZone, UdbAlloc, RbTree, ServerTcp, ServerUdp

\* Bytes 0..7: 'A' is 2, 'B' is 3, 'a' is 4, 'b' is 5.
MCName ==
    { <<>>,
      << <<4>> >>, << <<2>> >>, << <<4, 5>> >>, << <<4, 1>> >>, << <<7>> >>,
      << <<5>>, <<4>> >>, << <<0>>, <<4>> >>, << <<1, 6>>, <<4>> >> }
MCZoneName ==
    { << <<1>> >>, << <<4>> >>, << <<2, 5>> >>, << <<4, 1>> >>, << <<5>>, <<7>> >> }

MCApex == << <<4>> >>
MCBelow == << <<5>>, <<4>> >>
MCOther == << <<7>>, <<4>> >>
MCZoneRR ==
    {[name |-> MCApex, type |-> "NSEC3PARAM", data |-> d] : d \in {<<1, 0, 1>>, <<1, 0, 2>>, <<1, 1, 1>>}}
    \cup {[name |-> n, type |-> "A", data |-> <<1>>] : n \in {MCApex, MCBelow, MCOther}}
    \cup {[name |-> << <<2>> >>, type |-> "A", data |-> <<2>>]}

MCNameLength == [inet |-> 16, inet6 |-> 28]

\* The structures, and the sockets of a query process, are independent: one of
\* them is used, the others stay as they started.
MCInit == RadInit /\ UdrInit /\ UzInit /\ UdInit /\ RbInit /\ TcpInit /\ UdpInit
Empty == [rad |-> RadEmpty, udr |-> UdrEmpty, uz |-> UzEmpty, ud |-> NewFile, rb |-> RbEmpty,
          tcp |-> Started, udp |-> UdpStarted]
OthersEmpty(used) ==
    LET now == [rad |-> rad, udr |-> udr, uz |-> uz, ud |-> ud, rb |-> rb, tcp |-> tcp, udp |-> udp]
    IN  \A s \in DOMAIN Empty \ {used} : now[s] = Empty[s]
MCNext ==
    \/ OthersEmpty("rad") /\ RadNext /\ UNCHANGED <<udr, uz, ud, rb, tcp, udp>>
    \/ OthersEmpty("udr") /\ UdrNext /\ UNCHANGED <<rad, uz, ud, rb, tcp, udp>>
    \/ OthersEmpty("uz") /\ UzNext /\ UNCHANGED <<rad, udr, ud, rb, tcp, udp>>
    \/ OthersEmpty("ud") /\ UdNext /\ UNCHANGED <<rad, udr, uz, rb, tcp, udp>>
    \/ OthersEmpty("rb") /\ RbNext /\ UNCHANGED <<rad, udr, uz, ud, tcp, udp>>
    \/ OthersEmpty("tcp") /\ TcpNext /\ UNCHANGED <<rad, udr, uz, ud, rb, udp>>
    \/ OthersEmpty("udp") /\ UdpNext /\ UNCHANGED <<rad, udr, uz, ud, rb, tcp>>
=============================================================================

------------------------ MODULE Applications_proofs ------------------------
(***************************************************************************)
(* What the event loop of the MIP daemon knows about its descriptors, for  *)
(* any number of programs that come and go at any moment.                  *)
(***************************************************************************)
EXTENDS Applications, FiniteSetTheorems, SequenceTheorems, WellFoundedInduction,
        TLAPS

InBacklog(p) == \E i \in DOMAIN backlog : backlog[i] = p

\* The daemon has not read the handshake of p yet.
New(p) == InBacklog(p) \/ (daemon = "handshake" /\ conn[tempApplication] = p)

\* A program has one connection, in the backlog or behind one descriptor.
OneConnectionEach ==
  /\ \A f, g \in Fd : conn[f] = conn[g] /\ conn[f] # Nobody => f = g
  /\ \A i, j \in DOMAIN backlog : backlog[i] = backlog[j] => i = j
  /\ \A i \in DOMAIN backlog, f \in Fd : backlog[i] # conn[f]
  /\ \A p \in Program :
       phase[p] = "off" => ~InBacklog(p) /\ \A f \in Fd : conn[f] # p

\* What the variables of the daemon say of its descriptors.
Descriptors ==
  /\ DescriptorsOfTheirKind
  /\ {pingApplication, routingApplication} \subseteq epollSet \cup {None}
  /\ \A f \in epollSet : conn[f] # Nobody
  /\ daemon = "handshake" => tempApplication # None
  /\ tempApplication # None =>
       /\ tempApplication \notin epollSet /\ conn[tempApplication] # Nobody
       /\ daemon # "handshake" => Mute(conn[tempApplication])

\* An event is about a descriptor that is open, and still tells the truth.
Events ==
  /\ \A d, e \in batch : d.fd = e.fd => d = e
  /\ \A e \in batch :
       /\ e.hup => e.fd \in Fd
       /\ e.fd = domain_socket => backlog # <<>>
       /\ e.fd \in Fd => e.fd \in epollSet
       /\ e.fd \in Fd /\ e.hup => Gone(conn[e.fd])
       /\ e.fd \in Fd /\ ~e.hup => toDaemon[conn[e.fd]] # <<>>

\* What the programs of a kind are told, and what they say once introduced.
Told(p) == IF p \in Router THEN ToRouter ELSE Sdu
Says(p) ==
  IF p \in Router THEN {Routing} \cup [type : {"RESPONSE"}, id : Id, msg : SduType]
  ELSE Sdu

\* The handshake comes first, once, and each kind keeps to its messages.
Protocol(p) ==
  /\ toProgram[p] \in Seq(Told(p))
  /\ phase[p] \in {"off", "connected"} => toDaemon[p] = <<>>
  /\ phase[p] = "connected" => New(p)
  /\ ~New(p) => toDaemon[p] \in Seq(Says(p))
  /\ New(p) /\ phase[p] \in {"greeted", "running", "gone"} => toDaemon[p] # <<>>
  /\ New(p) /\ toDaemon[p] # <<>> =>
       Head(toDaemon[p]) = Handshake /\ Tail(toDaemon[p]) \in Seq(Says(p))

IInv ==
  /\ TypeOK /\ OneConnectionEach /\ Descriptors /\ Events
  /\ \A p \in Program : Protocol(p)
  /\ NoDescriptorLost

-----------------------------------------------------------------------------
(* Descriptors and messages.                                               *)

\* Nobody is not a program, and the messages are what they are.
LEMMA Constants ==
  /\ Nobody \notin Program /\ None \notin Fd
  /\ Fd \subseteq Nat /\ domain_socket \notin Fd /\ socket_fd \notin Fd
  /\ domain_socket # socket_fd /\ None \notin {domain_socket, socket_fd}
  /\ IsFiniteSet(Fd) /\ Cardinality(Fd) = Cardinality(Program)
<1>1. Cardinality(Program) \in Nat
  BY ProgramAssumption, FS_CardinalityType
<1>2. IsFiniteSet(Fd) /\ Cardinality(Fd) = Cardinality(Program)
  <2>1. 2 + Cardinality(Program) \in Int /\ 3 \in Int
    BY <1>1
  <2> QED
    BY <1>1, <2>1, FS_Interval DEF Fd
<1> QED
  BY <1>1, <1>2, ProgramAssumption DEF Fd, None, domain_socket, socket_fd

\* accept finds a free descriptor: there is one for each program, and one
\* program has none.
LEMMA FreeFdSound ==
  ASSUME TypeOK, OneConnectionEach,
         NEW p \in Program, \A f \in Fd : conn[f] # p
  PROVE  FreeFd \in Fd /\ conn[FreeFd] = Nobody
<1> DEFINE Free == {f \in Fd : conn[f] = Nobody}
<1>1. Free # {}
  <2> SUFFICES ASSUME Free = {} PROVE FALSE
    OBVIOUS
  <2> DEFINE Others == Program \ {p}
  <2>1. conn \in [Fd -> Others]
    BY DEF TypeOK
  <2>2. IsFiniteSet(Others) /\ Cardinality(Others) = Cardinality(Program) - 1
    BY FS_RemoveElement, ProgramAssumption
  <2>3. Cardinality(Others) < Cardinality(Fd)
    BY <2>2, Constants, FS_CardinalityType, ProgramAssumption
  <2> HIDE DEF Others
  <2>4. PICK f, g \in Fd : f # g /\ conn[f] = conn[g]
    <3>1. IsFiniteSet(Fd)
      BY Constants
    <3> HIDE DEF Fd
    <3>2. \A h \in [Fd -> Others] : \E x, y \in Fd : x # y /\ h[x] = h[y]
      BY <2>2, <2>3, <3>1, FS_PigeonHole
    <3> QED
      BY <2>1, <3>2
  <2> QED
    BY <2>1, <2>4, Constants DEF OneConnectionEach, Others
<1>2. PICK f \in Free : \A g \in Free : <<g, f>> \notin OpToRel(<, Nat)
  <2>1. Free \subseteq Nat
    BY Constants
  <2> HIDE DEF Free
  <2> QED
    BY <1>1, <2>1, WFMin, NatLessThanWellFounded, Zenon
<1>3. \A g \in Fd : conn[g] = Nobody => f <= g
  <2> SUFFICES ASSUME NEW g \in Free PROVE f <= g
    OBVIOUS
  <2>1. f \in Nat /\ g \in Nat
    BY Constants
  <2>2. ~(g < f)
    BY <1>2, <2>1, Zenon DEF OpToRel
  <2> QED
    BY <2>1, <2>2
<1> QED
  BY <1>2, <1>3 DEF FreeFd

\* A message more in one of the queues.
LEMMA AppendSound ==
  ASSUME NEW S, NEW q, NEW x \in Program, q \in [Program -> Seq(S)], NEW m \in S
  PROVE  LET r == [q EXCEPT ![x] = Append(@, m)]
         IN  /\ r \in [Program -> Seq(S)]
             /\ r[x] = Append(q[x], m) /\ r[x] # <<>>
             /\ \A p \in Program \ {x} : r[p] = q[p]
             /\ \A p \in Program : q[p] # <<>> => r[p] # <<>>
<1>1. q[x] \in Seq(S)
  OBVIOUS
<1>2. Append(q[x], m) \in Seq(S) /\ Append(q[x], m) # <<>>
  BY <1>1, AppendProperties
<1> QED
  BY <1>2

\* A message less in one of the queues.
LEMMA TailSound ==
  ASSUME NEW S, NEW q, NEW x \in Program, q \in [Program -> Seq(S)], q[x] # <<>>
  PROVE  LET r == [q EXCEPT ![x] = Tail(@)]
         IN  /\ r \in [Program -> Seq(S)]
             /\ r[x] = Tail(q[x])
             /\ \A p \in Program \ {x} : r[p] = q[p]
             /\ Head(q[x]) \in S
<1>1. Tail(q[x]) \in Seq(S) /\ Head(q[x]) \in S
  BY HeadTailProperties
<1> QED
  BY <1>1

-----------------------------------------------------------------------------
(* The programs.                                                           *)

\* What the daemon knows of its descriptors stays true while programs go on:
\* what is there to be read stays there, and who is gone stays gone.
LEMMA DescriptorsStay ==
  ASSUME IInv, UNCHANGED <<daemonVars, applications>>,
         backlog # <<>> => backlog' # <<>>,
         \A p \in Program : Gone(p) => phase'[p] = phase[p],
         \A p \in Program : toDaemon[p] # <<>> => toDaemon'[p] # <<>>
  PROVE  Descriptors' /\ Events' /\ NoDescriptorLost'
<1> USE DEF daemonVars, applications
<1>1. \A f \in Fd : conn[f] # Nobody => conn[f] \in Program
  BY DEF IInv, TypeOK
<1>2. Descriptors'
  <2>1. tempApplication # None => conn[tempApplication] \in Program
    BY <1>1 DEF IInv, TypeOK, Descriptors
  <2> QED
    BY <2>1 DEF IInv, Descriptors, DescriptorsOfTheirKind, Mute, Gone
<1>3. Events'
  <2>1. \A e \in batch : e.fd \in Fd => conn[e.fd] \in Program
    BY <1>1 DEF IInv, Events, Descriptors
  <2> QED
    BY <2>1 DEF IInv, Events, Gone, Mute
<1>4. NoDescriptorLost'
  BY <1>1 DEF IInv, NoDescriptorLost, Mute, Gone
<1> QED
  BY <1>2, <1>3, <1>4

\* A program keeps to the protocol as long as nothing happens to it.
LEMMA ProtocolStays ==
  ASSUME NEW p \in Program, Protocol(p), New(p)' <=> New(p),
         toProgram'[p] = toProgram[p], toDaemon'[p] = toDaemon[p],
         phase'[p] = phase[p]
  PROVE  Protocol(p)'
BY DEF Protocol, Told, Says

\* A program that has greeted says something more.
LEMMA SaysSound ==
  ASSUME IInv, NEW p \in Program, phase[p] \in {"greeted", "running"},
         phase'[p] \in {"greeted", "running"}, New(p)' <=> New(p),
         NEW m \in Says(p), Send(p, m), toProgram'[p] \in Seq(Told(p))
  PROVE  /\ toDaemon' \in [Program -> Seq(FromAny)] /\ toDaemon'[p] # <<>>
         /\ Protocol(p)'
<1>1. m \in FromAny
  BY DEF Says, FromAny
<1>2. toDaemon \in [Program -> Seq(FromAny)]
  BY DEF IInv, TypeOK
<1>3. /\ toDaemon' \in [Program -> Seq(FromAny)]
      /\ toDaemon'[p] = Append(toDaemon[p], m) /\ toDaemon'[p] # <<>>
  BY <1>1, <1>2, AppendSound DEF Send
<1>4. Protocol(p)'
  <2>1. CASE New(p)
    <3>1. /\ toDaemon[p] # <<>> /\ Head(toDaemon[p]) = Handshake
          /\ Tail(toDaemon[p]) \in Seq(Says(p))
      BY <2>1 DEF IInv, Protocol
    <3>2. /\ Head(toDaemon'[p]) = Handshake
          /\ Tail(toDaemon'[p]) = Append(Tail(toDaemon[p]), m)
      BY <1>2, <1>3, <3>1, HeadTailAppend
    <3>3. Tail(toDaemon'[p]) \in Seq(Says(p))
      BY <3>1, <3>2, AppendProperties
    <3> QED
      BY <1>3, <2>1, <3>2, <3>3 DEF Protocol, Told, Says
  <2>2. CASE ~New(p)
    <3>1. toDaemon[p] \in Seq(Says(p))
      BY <2>2 DEF IInv, Protocol
    <3>2. toDaemon'[p] \in Seq(Says(p))
      BY <1>3, <3>1, AppendProperties
    <3> QED
      BY <1>3, <2>2, <3>2 DEF Protocol, Told, Says
  <2> QED
    BY <2>1, <2>2
<1> QED
  BY <1>3, <1>4

\* A program closes its socket.
LEMMA LeaveSound ==
  ASSUME IInv, NEW p \in Program, NEW unread, Leave(p, unread),
         phase[p] # "off", ~Gone(p), answer' \in [Client -> Sdu \cup {NoMessage}],
         UNCHANGED <<toDaemon, backlog, daemonVars, applications, networkVars>>
  PROVE  IInv'
<1> USE DEF daemonVars, applications, networkVars
<1>1. TypeOK'
  BY EmptySeq DEF IInv, TypeOK, Leave, Phase
<1>2. OneConnectionEach'
  BY DEF IInv, TypeOK, OneConnectionEach, InBacklog, Leave
<1>3. Descriptors' /\ Events' /\ NoDescriptorLost'
  <2>1. \A x \in Program : Gone(x) => phase'[x] = phase[x]
    BY DEF IInv, TypeOK, Leave
  <2> QED
    BY <2>1, DescriptorsStay
<1>4. ASSUME NEW x \in Program PROVE Protocol(x)'
  <2>1. New(x)' <=> New(x)
    BY DEF New, InBacklog
  <2>2. CASE x # p
    BY <2>1, <2>2, ProtocolStays DEF IInv, TypeOK, Leave
  <2>3. CASE x = p
    <3>1. /\ phase'[p] = IF phase[p] = "connected" THEN "mute" ELSE "gone"
          /\ toProgram'[p] = <<>> /\ toDaemon' = toDaemon
          /\ phase[p] \in {"connected", "greeted", "running"}
      BY DEF IInv, TypeOK, Leave, Phase, Gone, Mute
    <3>2. <<>> \in Seq(Told(p))'
      BY EmptySeq DEF Told
    <3> QED
      BY <2>1, <2>3, <3>1, <3>2 DEF IInv, Protocol, Told, Says
  <2> QED
    BY <2>2, <2>3
<1> QED
  BY <1>1, <1>2, <1>3, <1>4 DEF IInv

\* A program that is served, and says one thing.
LEMMA SayingSound ==
  ASSUME IInv, NEW p \in Program, phase[p] \in {"greeted", "running"},
         phase' \in [Program -> Phase], phase'[p] \in {"greeted", "running"},
         \A x \in Program \ {p} : phase'[x] = phase[x],
         NEW m \in Says(p), Send(p, m),
         toProgram' \in [Program -> Seq(Sdu \cup ToRouter)],
         toProgram'[p] \in Seq(Told(p)),
         \A x \in Program \ {p} : toProgram'[x] = toProgram[x],
         UNCHANGED <<reset, backlog, answer, daemonVars, applications, networkVars>>
  PROVE  IInv'
<1> USE DEF daemonVars, applications, networkVars
<1>1. \A x \in Program : New(x)' <=> New(x)
  BY DEF New, InBacklog
<1>2. toDaemon' \in [Program -> Seq(FromAny)] /\ toDaemon'[p] # <<>> /\ Protocol(p)'
  BY <1>1, SaysSound
<1>3. \A x \in Program \ {p} : toDaemon'[x] = toDaemon[x]
  BY DEF IInv, TypeOK, Send
<1>4. TypeOK'
  BY <1>2 DEF IInv, TypeOK
<1>5. OneConnectionEach'
  BY DEF IInv, OneConnectionEach, InBacklog
<1>6. Descriptors' /\ Events' /\ NoDescriptorLost'
  <2>1. \A x \in Program : Gone(x) => phase'[x] = phase[x]
    BY DEF Gone, Mute
  <2> QED
    BY <1>2, <1>3, <2>1, DescriptorsStay
<1>7. \A x \in Program : Protocol(x)'
  BY <1>1, <1>2, <1>3, ProtocolStays DEF IInv
<1> QED
  BY <1>4, <1>5, <1>6, <1>7 DEF IInv

\* A program that connects is new to the daemon.
LEMMA ConnectSound ==
  ASSUME IInv, NEW p \in Program, Connect(p)
  PROVE  IInv'
<1> USE DEF daemonVars, applications, networkVars
<1>1. backlog \in Seq(Program) /\ backlog' = Append(backlog, p)
  BY DEF Connect, IInv, TypeOK
<1>2. /\ backlog' \in Seq(Program)
      /\ DOMAIN backlog = 1 .. Len(backlog) /\ Len(backlog) \in Nat
      /\ DOMAIN backlog' = 1 .. Len(backlog) + 1
      /\ \A i \in DOMAIN backlog : backlog'[i] = backlog[i]
      /\ backlog'[Len(backlog) + 1] = p
  BY <1>1, AppendProperties, LenProperties
<1>3. \A x \in Program : InBacklog(x)' <=> InBacklog(x) \/ x = p
  BY <1>2 DEF InBacklog
<1>4. phase[p] = "off" /\ phase' = [phase EXCEPT ![p] = "connected"]
  BY DEF Connect
<1>5. TypeOK'
  BY <1>2, <1>4 DEF IInv, TypeOK, Connect, Phase
<1>6. OneConnectionEach'
  <2>1. UNCHANGED conn
    BY DEF Connect
  <2>2. ~InBacklog(p) /\ \A f \in Fd : conn[f] # p
    BY <1>4 DEF IInv, OneConnectionEach
  <2>3. \A i, j \in DOMAIN backlog' : backlog'[i] = backlog'[j] => i = j
    <3>1. \A i \in DOMAIN backlog : backlog'[i] # p
      BY <1>2, <2>2 DEF InBacklog
    <3> QED
      BY <1>2, <3>1 DEF IInv, OneConnectionEach
  <2>4. \A i \in DOMAIN backlog', f \in Fd : backlog'[i] # conn[f]
    BY <1>2, <2>2 DEF IInv, OneConnectionEach
  <2>5. \A x \in Program : phase'[x] = "off" =>
          ~InBacklog(x)' /\ \A f \in Fd : conn[f] # x
    BY <1>3, <1>4 DEF IInv, TypeOK, OneConnectionEach
  <2> QED
    BY <2>1, <2>3, <2>4, <2>5 DEF IInv, OneConnectionEach
<1>7. Descriptors' /\ Events' /\ NoDescriptorLost'
  <2>1. \A x \in Program : Gone(x) => phase'[x] = phase[x]
    BY <1>4 DEF Connect, IInv, TypeOK, Gone, Mute
  <2>2. backlog' # <<>>
    BY <1>1, AppendProperties
  <2> QED
    BY <2>1, <2>2, DescriptorsStay DEF Connect
<1>8. ASSUME NEW x \in Program PROVE Protocol(x)'
  <2>1. New(x)' <=> New(x) \/ x = p
    BY <1>3 DEF New, Connect
  <2>2. CASE x # p
    BY <2>1, <2>2, ProtocolStays DEF Connect, IInv, TypeOK
  <2>3. CASE x = p
    BY <1>4, <2>1, <2>3 DEF Connect, IInv, TypeOK, Protocol, Told
  <2> QED
    BY <2>2, <2>3
<1> QED
  BY <1>5, <1>6, <1>7, <1>8 DEF IInv

\* The handshake comes first.
LEMMA SendHandshakeSound ==
  ASSUME IInv, NEW p \in Program, SendHandshake(p)
  PROVE  IInv'
<1> USE DEF daemonVars, applications, networkVars
<1>1. /\ phase[p] = "connected" /\ phase' \in [Program -> Phase]
      /\ phase'[p] \in {"greeted", "running"}
      /\ \A x \in Program \ {p} : phase'[x] = phase[x]
  BY DEF SendHandshake, Greets, IInv, TypeOK, Phase
<1>2. New(p) /\ toDaemon[p] = <<>>
  BY <1>1 DEF IInv, Protocol
<1>3. \A x \in Program : New(x)' <=> New(x)
  BY DEF SendHandshake, New, InBacklog
<1>4. Handshake \in FromAny
  BY DEF FromAny
<1>5. /\ toDaemon' \in [Program -> Seq(FromAny)]
      /\ toDaemon'[p] = Append(toDaemon[p], Handshake) /\ toDaemon'[p] # <<>>
      /\ \A x \in Program \ {p} : toDaemon'[x] = toDaemon[x]
  <2>1. toDaemon \in [Program -> Seq(FromAny)]
    BY DEF IInv, TypeOK
  <2>2. toDaemon' = [toDaemon EXCEPT ![p] = Append(@, Handshake)]
    BY DEF SendHandshake, Send
  <2> QED
    BY <1>4, <2>1, <2>2, AppendSound
<1>6. TypeOK'
  BY <1>1, <1>5 DEF SendHandshake, IInv, TypeOK
<1>7. OneConnectionEach'
  BY <1>1 DEF SendHandshake, IInv, OneConnectionEach, InBacklog
<1>8. Descriptors' /\ Events' /\ NoDescriptorLost'
  <2>1. \A x \in Program : Gone(x) => phase'[x] = phase[x]
    BY <1>1 DEF Gone, Mute
  <2> QED
    BY <1>5, <2>1, DescriptorsStay DEF SendHandshake
<1>9. ASSUME NEW x \in Program PROVE Protocol(x)'
  <2>1. CASE x # p
    BY <1>1, <1>3, <1>5, <2>1, ProtocolStays DEF SendHandshake, IInv
  <2>2. CASE x = p
    <3>1. Head(toDaemon'[p]) = Handshake /\ Tail(toDaemon'[p]) = <<>>
      BY <1>2, <1>4, <1>5, HeadTailAppend, EmptySeq
    <3>2. <<>> \in Seq(Says(p))
      BY EmptySeq
    <3> QED
      BY <1>1, <1>2, <1>3, <1>5, <2>2, <3>1, <3>2
         DEF SendHandshake, IInv, Protocol, Told, Says
  <2> QED
    BY <2>1, <2>2
<1> QED
  BY <1>6, <1>7, <1>8, <1>9 DEF IInv

\* The question of a client comes after its handshake.
LEMMA SendPingSound ==
  ASSUME IInv, NEW c \in Program, SendPing(c)
  PROVE  IInv'
<1>1. /\ phase[c] = "greeted" /\ phase' \in [Program -> Phase]
      /\ phase'[c] = "running" /\ \A x \in Program \ {c} : phase'[x] = phase[x]
  BY DEF SendPing, IInv, TypeOK, Phase
<1>2. Ping(c) \in Says(c)
  BY ProgramAssumption DEF SendPing, Ping, Says, Sdu, SduType, Id, Program
<1>3. toProgram[c] \in Seq(Told(c)) /\ toProgram \in [Program -> Seq(Sdu \cup ToRouter)]
  BY DEF IInv, TypeOK, Protocol
<1> QED
  BY <1>1, <1>2, <1>3, SayingSound DEF SendPing

\* A server is asked, and answers.
LEMMA ServerReadsSound ==
  ASSUME IInv, NEW s \in Program, ServerReads(s)
  PROVE  IInv'
<1>1. toProgram[s] \in Seq(Sdu) /\ s \notin Router
  BY ProgramAssumption DEF ServerReads, IInv, Protocol, Told
<1>2. toProgram[s] # <<>>
  BY DEF ServerReads
<1>3. Head(toProgram[s]) \in Sdu /\ Tail(toProgram[s]) \in Seq(Sdu)
  BY <1>1, <1>2, HeadTailProperties
<1>4. /\ toProgram' \in [Program -> Seq(Sdu \cup ToRouter)]
      /\ toProgram'[s] = Tail(toProgram[s])
      /\ \A x \in Program \ {s} : toProgram'[x] = toProgram[x]
  BY <1>2, TailSound DEF ServerReads, IInv, TypeOK
<1>5. toProgram'[s] \in Seq(Told(s))
  BY <1>1, <1>3, <1>4 DEF Told
<1>6. Pong(Head(toProgram[s]).id) \in Says(s)
  BY <1>1, <1>3 DEF Says, Sdu, SduType, Pong
<1>7. phase[s] = "running" /\ UNCHANGED phase /\ phase \in [Program -> Phase]
  BY DEF ServerReads, programVars, IInv, TypeOK
<1> QED
  BY <1>4, <1>5, <1>6, <1>7, SayingSound DEF ServerReads, programVars

\* A routing daemon is asked, and answers.
LEMMA RouterReadsSound ==
  ASSUME IInv, NEW r \in Program, RouterReads(r)
  PROVE  IInv'
<1> DEFINE m == Head(toProgram[r])
           a == IF m = Reply THEN Routing ELSE Response(m)
<1>1. toProgram[r] \in Seq(ToRouter) /\ r \in Router
  BY DEF RouterReads, IInv, Protocol, Told
<1>2. toProgram[r] # <<>>
  BY DEF RouterReads
<1>3. m \in ToRouter /\ Tail(toProgram[r]) \in Seq(ToRouter)
  BY <1>1, <1>2, HeadTailProperties
<1>4. /\ toProgram' \in [Program -> Seq(Sdu \cup ToRouter)]
      /\ toProgram'[r] = Tail(toProgram[r])
      /\ \A x \in Program \ {r} : toProgram'[x] = toProgram[x]
  BY <1>2, TailSound DEF RouterReads, IInv, TypeOK
<1>5. toProgram'[r] \in Seq(Told(r))
  BY <1>1, <1>3, <1>4 DEF Told
<1>6. a \in Says(r)
  BY <1>1, <1>3 DEF Says, ToRouter, Response
<1>7. phase[r] = "running" /\ UNCHANGED phase /\ phase \in [Program -> Phase]
  BY DEF RouterReads, programVars, IInv, TypeOK
<1>8. Send(r, a)
  BY DEF RouterReads
<1> HIDE DEF a
<1> QED
  BY <1>4, <1>5, <1>6, <1>7, <1>8, SayingSound DEF RouterReads, programVars

\* A program goes, with or without an answer.
LEMMA ClientLeavesSound ==
  ASSUME IInv, NEW c \in Program,
         ClientReads(c) \/ ClientTimesOut(c) \/ Die(c)
  PROVE  IInv'
<1>1. CASE ClientReads(c)
  <2>1. toProgram[c] \in Seq(Sdu) /\ toProgram[c] # <<>>
    BY <1>1, ProgramAssumption DEF ClientReads, IInv, Protocol, Told
  <2>2. Head(toProgram[c]) \in Sdu
    BY <2>1, HeadTailProperties
  <2>3. answer' \in [Client -> Sdu \cup {NoMessage}]
    BY <1>1, <2>2 DEF ClientReads, IInv, TypeOK
  <2> QED
    BY <1>1, <2>3, LeaveSound DEF ClientReads, Gone, Mute
<1>2. CASE ClientTimesOut(c)
  BY <1>2, LeaveSound DEF ClientTimesOut, IInv, TypeOK, Gone, Mute
<1>3. CASE Die(c)
  BY <1>3, LeaveSound DEF Die, IInv, TypeOK
<1> QED
  BY <1>1, <1>2, <1>3

-----------------------------------------------------------------------------
(* The event loop.                                                         *)

\* The applications are programs, and have been introduced.
LEMMA ApplicationsKnown ==
  ASSUME IInv, NEW f \in {pingApplication, routingApplication}, f # None,
         daemon = "loop"
  PROVE  f \in Fd /\ f \in epollSet /\ conn[f] \in Program /\ ~New(conn[f])
<1>1. f \in epollSet /\ f \in Fd /\ conn[f] \in Program
  BY DEF IInv, TypeOK, Descriptors
<1>2. ~InBacklog(conn[f])
  BY <1>1 DEF IInv, OneConnectionEach, InBacklog
<1> QED
  BY <1>1, <1>2 DEF New

\* The events not handled yet stay true, unless their program is concerned.
LEMMA EventsStay ==
  ASSUME IInv, NEW e \in batch, batch' = batch \ {e},
         UNCHANGED <<phase, conn, epollSet, backlog>>,
         \A p \in Program :
           toDaemon'[p] = toDaemon[p] \/ (e.fd \in Fd /\ conn[e.fd] = p)
  PROVE  Events'
<1>1. \A d \in batch : d.fd \in Fd => conn[d.fd] \in Program
  BY DEF IInv, TypeOK, Events, Descriptors
<1>2. \A d \in batch' : d \in batch /\ d.fd # e.fd
  BY DEF IInv, Events
<1>3. \A d \in batch' : d.fd \in Fd => toDaemon'[conn[d.fd]] = toDaemon[conn[d.fd]]
  BY ZenonT(30), <1>1, <1>2, Constants DEF IInv, OneConnectionEach
<1> QED
  BY <1>2, <1>3 DEF IInv, Events, Gone, Mute

\* A write to one of the applications.
LEMMA WrittenSound ==
  ASSUME IInv, NEW p \in Program, NEW m \in Told(p), toProgram' = Written(p, m)
  PROVE  /\ toProgram' \in [Program -> Seq(Sdu \cup ToRouter)]
         /\ \A x \in Program : toProgram'[x] \in Seq(Told(x))
<1>1. toProgram \in [Program -> Seq(Sdu \cup ToRouter)]
  BY DEF IInv, TypeOK
<1>2. \A x \in Program : toProgram[x] \in Seq(Told(x))
  BY DEF IInv, Protocol
<1>3. m \in Sdu \cup ToRouter
  BY DEF Told
<1>4. Append(toProgram[p], m) \in Seq(Told(p))
  BY <1>2, AppendProperties
<1>5. Append(toProgram[p], m) \in Seq(Sdu \cup ToRouter)
  BY <1>1, <1>3, AppendProperties
<1> QED
  BY <1>1, <1>2, <1>4, <1>5 DEF Written

\* A read from one of the applications.
LEMMA TakesFromSound ==
  ASSUME IInv, NEW p \in Program, ~New(p), TakesFrom(p)
  PROVE  /\ toDaemon' \in [Program -> Seq(FromAny)] /\ reset' \subseteq Program
         /\ \A x \in Program \ {p} : toDaemon'[x] = toDaemon[x]
         /\ toDaemon[p] = <<>> => toDaemon'[p] = <<>>
         /\ toDaemon'[p] \in Seq(Says(p))
         /\ Read(p) \in Says(p) \cup {Zeros}
<1>1. toDaemon \in [Program -> Seq(FromAny)] /\ reset \subseteq Program
  BY DEF IInv, TypeOK
<1>2. toDaemon[p] \in Seq(Says(p))
  BY DEF IInv, Protocol
<1>3. reset' \subseteq Program
  BY <1>1 DEF TakesFrom
<1>4. CASE Fails(p)
  BY <1>1, <1>2, <1>3, <1>4 DEF TakesFrom, Read
<1>5. CASE ~Fails(p)
  <2>1. toDaemon[p] # <<>> /\ toDaemon' = [toDaemon EXCEPT ![p] = Tail(@)]
    BY <1>5 DEF TakesFrom, Fails
  <2>2. /\ toDaemon' \in [Program -> Seq(FromAny)]
        /\ toDaemon'[p] = Tail(toDaemon[p])
        /\ \A x \in Program \ {p} : toDaemon'[x] = toDaemon[x]
    BY <1>1, <2>1, TailSound
  <2>3. Head(toDaemon[p]) \in Says(p) /\ Tail(toDaemon[p]) \in Seq(Says(p))
    BY <1>2, <2>1, HeadTailProperties
  <2>4. Read(p) \in Says(p)
    BY <1>5, <2>3 DEF Read
  <2> QED
    BY <1>3, <2>1, <2>2, <2>3, <2>4
<1> QED
  BY <1>4, <1>5

\* Programs that are written to and read from keep to the protocol.
LEMMA ProtocolServed ==
  ASSUME IInv, NEW p \in Program,
         UNCHANGED phase, New(p)' <=> New(p),
         toProgram'[p] \in Seq(Told(p)),
         toDaemon'[p] = toDaemon[p] \/ (~New(p) /\ toDaemon'[p] \in Seq(Says(p))),
         toDaemon[p] = <<>> => toDaemon'[p] = <<>>
  PROVE  Protocol(p)'
BY DEF IInv, Protocol, Told, Says

\* epoll_wait returns one event for each descriptor, about how it is.
LEMMA EpollWaitSound ==
  ASSUME IInv, EpollWait
  PROVE  IInv'
<1> USE DEF programVars, socketVars, applications, networkVars
<1>1. batch' = PendingEvents
  BY DEF EpollWait
<1>2. ASSUME NEW e \in PendingEvents
      PROVE  /\ e \in Event
             /\ e.hup => e.fd \in Fd
             /\ e.fd = domain_socket => backlog # <<>>
             /\ e.fd \in Fd => /\ e.fd \in epollSet /\ e.hup = Gone(conn[e.fd])
                               /\ ~e.hup => toDaemon[conn[e.fd]] # <<>>
             /\ e.fd \notin Fd => e.hup = FALSE
  <2>1. CASE backlog # <<>> /\ e \in Readable(domain_socket)
    <3>1. e = [fd |-> domain_socket, hup |-> FALSE]
      BY <2>1 DEF Readable
    <3>2. e.fd = domain_socket /\ e.hup = FALSE
      BY <3>1
    <3>3. e \in Event
      BY <3>1 DEF Event
    <3> QED
      BY <2>1, <3>2, <3>3, Constants
  <2>2. CASE e \in Readable(socket_fd)
    <3>1. e = [fd |-> socket_fd, hup |-> FALSE]
      BY <2>2 DEF Readable
    <3>2. e.fd = socket_fd /\ e.hup = FALSE
      BY <3>1
    <3>3. e \in Event
      BY <3>1 DEF Event
    <3> QED
      BY <3>2, <3>3, Constants
  <2>3. ASSUME NEW f \in epollSet, e = [fd |-> f, hup |-> Gone(conn[f])],
               Gone(conn[f]) \/ toDaemon[conn[f]] # <<>>
        PROVE  <1>2!2
    <3>1. f \in Fd /\ Gone(conn[f]) \in BOOLEAN
      BY DEF IInv, TypeOK, Gone
    <3>2. e.fd = f /\ e.hup = Gone(conn[f])
      BY <2>3
    <3>3. e \in Event
      BY <2>3, <3>1 DEF Event
    <3> QED
      BY <2>3, <3>1, <3>2, <3>3, Constants
  <2> QED
    BY <2>1, <2>2, <2>3 DEF PendingEvents
<1>3. ASSUME NEW d \in PendingEvents, NEW e \in PendingEvents, d.fd = e.fd
      PROVE  d = e
  <2>1. d.hup = e.hup
    <3>1. CASE d.fd \in Fd
      BY <1>2, <1>3, <3>1
    <3>2. CASE d.fd \notin Fd
      BY <1>2, <1>3, <3>2
    <3> QED
      BY <3>1, <3>2
  <2>2. d = [fd |-> d.fd, hup |-> d.hup] /\ e = [fd |-> e.fd, hup |-> e.hup]
    BY <1>2 DEF Event
  <2> QED
    BY <1>3, <2>1, <2>2, Zenon
<1>4. Events'
  BY <1>1, <1>2, <1>3 DEF EpollWait, Events, Gone, Mute
<1>5. TypeOK'
  BY <1>1, <1>2 DEF EpollWait, IInv, TypeOK
<1>6. OneConnectionEach' /\ Descriptors' /\ NoDescriptorLost'
  BY DEF EpollWait, IInv, OneConnectionEach, InBacklog, Descriptors, Mute, Gone,
         DescriptorsOfTheirKind, NoDescriptorLost
<1>7. \A x \in Program : Protocol(x)'
  BY DEF EpollWait, IInv, Protocol, Told, Says, New, InBacklog
<1> QED
  BY <1>4, <1>5, <1>6, <1>7 DEF IInv

\* What comes in goes to the ping application.
LEMMA HandleRawPacketSound ==
  ASSUME IInv, NEW e \in batch, HandleRawPacket(e)
  PROVE  IInv'
<1> USE DEF programVars, applications
<1>0. UNCHANGED <<toDaemon, reset, backlog, programVars, conn, epollSet, daemon,
                  replaced, applications, out, remote>>
  BY DEF HandleRawPacket
<1>1. PICK m \in frames :
        /\ frames' = FramesLeft(m)
        /\ toProgram' = IF pingApplication = None THEN toProgram
                        ELSE Written(conn[pingApplication], m)
  BY DEF HandleRawPacket
<1>2. m \in Sdu /\ frames' \subseteq Sdu
  BY <1>1 DEF IInv, TypeOK, FramesLeft
<1>3. daemon = "loop" /\ batch' = batch \ {e}
  BY DEF HandleRawPacket, Take
<1>4. /\ toProgram' \in [Program -> Seq(Sdu \cup ToRouter)]
      /\ \A x \in Program : toProgram'[x] \in Seq(Told(x))
  <2>1. CASE pingApplication = None
    BY <1>1, <2>1 DEF IInv, TypeOK, Protocol
  <2>2. CASE pingApplication # None
    <3>1. conn[pingApplication] \in Program /\ conn[pingApplication] \notin Router
      BY <2>2, ProgramAssumption DEF Program, IInv, Descriptors, DescriptorsOfTheirKind
    <3>2. m \in Told(conn[pingApplication])
      BY <1>2, <3>1 DEF Told
    <3> QED
      BY <1>1, <2>2, <3>1, <3>2, WrittenSound
  <2> QED
    BY <2>1, <2>2
<1>5. TypeOK'
  BY <1>0, <1>2, <1>3, <1>4 DEF IInv, TypeOK
<1>6. Events'
  BY <1>0, <1>3, EventsStay
<1>7. OneConnectionEach' /\ Descriptors' /\ NoDescriptorLost'
  BY <1>0 DEF IInv, OneConnectionEach, InBacklog, Descriptors, Mute,
         Gone, DescriptorsOfTheirKind, NoDescriptorLost
<1>8. ASSUME NEW x \in Program PROVE Protocol(x)'
  <2>1. New(x)' <=> New(x)
    BY <1>0 DEF New, InBacklog
  <2> QED
    BY <1>0, <1>4, <2>1, ProtocolServed
<1> QED
  BY <1>5, <1>6, <1>7, <1>8 DEF IInv

\* Nothing happens to a descriptor that was overwritten.
LEMMA PassOverSound ==
  ASSUME IInv, NEW e \in batch, PassOver(e)
  PROVE  IInv'
<1> USE DEF programVars, socketVars, applications, networkVars
<1>1. Events'
  BY EventsStay DEF PassOver, Take
<1>2. TypeOK' /\ OneConnectionEach' /\ Descriptors' /\ NoDescriptorLost'
  BY DEF PassOver, Take, IInv, TypeOK, OneConnectionEach, InBacklog, Descriptors,
         Mute, Gone, DescriptorsOfTheirKind, NoDescriptorLost
<1>3. \A x \in Program : Protocol(x)'
  BY DEF PassOver, IInv, Protocol, Told, Says, New, InBacklog
<1> QED
  BY <1>1, <1>2, <1>3 DEF IInv

\* Other hosts do not see the descriptors.
LEMMA RemoteSound ==
  ASSUME IInv, (\E x \in RemoteClient : RemotePings(x)) \/ RemoteStep
  PROVE  IInv'
<1> USE DEF programVars, socketVars, daemonVars, applications
<1>1. /\ UNCHANGED <<programVars, socketVars, daemonVars, applications>>
      /\ frames' \subseteq Sdu /\ out' \subseteq Sdu
      /\ remote' \in [RemoteClient -> {"off", "waiting", "answered"}]
  <2>1. CASE \E x \in RemoteClient : RemotePings(x)
    BY <2>1 DEF RemotePings, Ping, IInv, TypeOK, Sdu, SduType, Id
  <2>2. CASE RemoteStep
    BY <2>2 DEF RemoteStep, RemoteAnswers, RemoteReads, Pong, IInv, TypeOK, Sdu,
                SduType, Id
  <2> QED
    BY <2>1, <2>2
<1>2. TypeOK' /\ OneConnectionEach' /\ Descriptors' /\ Events' /\ NoDescriptorLost'
  BY <1>1 DEF IInv, TypeOK, OneConnectionEach, InBacklog, Descriptors, Events,
              Mute, Gone, DescriptorsOfTheirKind, NoDescriptorLost
<1>3. \A x \in Program : Protocol(x)'
  BY <1>1 DEF IInv, Protocol, Told, Says, New, InBacklog
<1> QED
  BY <1>2, <1>3 DEF IInv

\* accept has a descriptor to return.
LEMMA AcceptsFree ==
  ASSUME IInv, NEW e \in batch, Accept(e)
  PROVE  FreeFd \in Fd /\ conn[FreeFd] = Nobody
<1>1. backlog \in Seq(Program) /\ backlog # <<>>
  BY DEF Accept, IInv, TypeOK, Events
<1>2. backlog[1] \in Program /\ 1 \in DOMAIN backlog
  <2>1. Len(backlog) \in Nat /\ Len(backlog) # 0 /\ DOMAIN backlog = 1 .. Len(backlog)
    BY <1>1, LenProperties, EmptySeq
  <2> QED
    BY <1>1, <2>1, ElementOfSeq
<1>3. \A f \in Fd : conn[f] # backlog[1]
  BY <1>2 DEF IInv, OneConnectionEach
<1> QED
  BY <1>2, <1>3, FreeFdSound DEF IInv

\* The connection of the backlog gets a descriptor that no other has.
LEMMA AcceptSound ==
  ASSUME IInv, NEW e \in batch, Accept(e)
  PROVE  IInv'
<1> USE DEF programVars, networkVars
<1> DEFINE p == Head(backlog)
<1>0. /\ daemon = "loop" /\ batch' = batch \ {e} /\ e.fd = domain_socket
      /\ tempApplication' = FreeFd /\ conn' = [conn EXCEPT ![FreeFd] = p]
      /\ backlog' = Tail(backlog) /\ daemon' = "handshake"
      /\ UNCHANGED <<toDaemon, toProgram, reset, phase, answer, epollSet, replaced,
                     pingApplication, routingApplication, networkVars>>
  BY DEF Accept, Take
<1>1. backlog \in Seq(Program) /\ backlog # <<>>
  BY <1>0 DEF IInv, TypeOK, Events
<1>2. /\ p \in Program /\ p = backlog[1] /\ 1 \in DOMAIN backlog
      /\ backlog' \in Seq(Program) /\ Len(backlog) \in Nat
      /\ DOMAIN backlog = 1 .. Len(backlog) /\ DOMAIN backlog' = 1 .. Len(backlog) - 1
      /\ \A i \in DOMAIN backlog' : backlog'[i] = backlog[i + 1]
  BY <1>0, <1>1, HeadTailProperties, LenProperties, EmptySeq
<1> HIDE DEF p
<1>3. InBacklog(p) /\ \A f \in Fd : conn[f] # p
  BY <1>2 DEF IInv, OneConnectionEach, InBacklog
<1>4. FreeFd \in Fd /\ conn[FreeFd] = Nobody
  BY AcceptsFree
<1>5. /\ conn' \in [Fd -> Program \cup {Nobody}] /\ conn'[FreeFd] = p
      /\ \A f \in Fd \ {FreeFd} : conn'[f] = conn[f]
  BY <1>0, <1>2, <1>4 DEF IInv, TypeOK
<1>6. \A x \in Program : InBacklog(x)' <=> InBacklog(x) /\ x # p
  <2>1. ASSUME NEW x \in Program, InBacklog(x)' PROVE InBacklog(x) /\ x # p
    <3>1. PICK i \in DOMAIN backlog' : backlog'[i] = x
      BY <2>1 DEF InBacklog
    <3>2. i + 1 \in DOMAIN backlog /\ backlog[i + 1] = x /\ i + 1 # 1
      BY <1>2, <3>1
    <3> QED
      BY <1>2, <3>2 DEF IInv, OneConnectionEach, InBacklog
  <2>2. ASSUME NEW x \in Program, InBacklog(x), x # p PROVE InBacklog(x)'
    <3>1. PICK i \in DOMAIN backlog : backlog[i] = x
      BY <2>2 DEF InBacklog
    <3>2. i - 1 \in DOMAIN backlog' /\ backlog'[i - 1] = x
      BY <1>2, <2>2, <3>1
    <3> QED
      BY <3>2 DEF InBacklog
  <2> QED
    BY <2>1, <2>2
<1>7. \A x \in Program : New(x)' <=> New(x)
  <2>1. \A x \in Program : New(x) <=> InBacklog(x)
    BY <1>0 DEF New
  <2>2. \A x \in Program : New(x)' <=> InBacklog(x)' \/ x = p
    BY <1>0, <1>5 DEF New
  <2> QED
    BY <1>3, <1>6, <2>1, <2>2
<1>8. /\ FreeFd \notin epollSet
      /\ tempApplication # None => tempApplication # FreeFd
      /\ FreeFd \notin {pingApplication, routingApplication}
  BY <1>4, Constants DEF IInv, Descriptors
<1>9. TypeOK'
  BY <1>0, <1>2, <1>4, <1>5 DEF IInv, TypeOK, Daemon
<1>10. OneConnectionEach'
  <2>1. \A f, g \in Fd : conn'[f] = conn'[g] /\ conn'[f] # Nobody => f = g
    BY <1>3, <1>5 DEF IInv, OneConnectionEach
  <2>2. \A i, j \in DOMAIN backlog' : backlog'[i] = backlog'[j] => i = j
    <3>1. \A i, j \in DOMAIN backlog' :
            i + 1 \in DOMAIN backlog /\ j + 1 \in DOMAIN backlog
      BY <1>2
    <3>2. \A i, j \in DOMAIN backlog' : backlog'[i] = backlog'[j] => i + 1 = j + 1
      BY <1>2, <3>1 DEF IInv, OneConnectionEach
    <3> QED
      BY <1>2, <3>2
  <2>3. \A i \in DOMAIN backlog', f \in Fd : backlog'[i] # conn'[f]
    <3>1. \A i \in DOMAIN backlog' : i + 1 \in DOMAIN backlog /\ i + 1 # 1
      BY <1>2
    <3> QED
      BY <1>2, <1>5, <3>1 DEF IInv, OneConnectionEach
  <2>4. ASSUME NEW x \in Program, phase'[x] = "off"
        PROVE  ~InBacklog(x)' /\ \A f \in Fd : conn'[f] # x
    <3>1. ~InBacklog(x) /\ \A f \in Fd : conn[f] # x
      BY <1>0, <2>4 DEF IInv, OneConnectionEach
    <3> QED
      BY <1>3, <1>5, <1>6, <3>1
  <2> QED
    BY <2>1, <2>2, <2>3, <2>4 DEF OneConnectionEach
<1>11. Descriptors'
  <2>1. DescriptorsOfTheirKind'
    BY <1>0, <1>5, <1>8 DEF IInv, TypeOK, Descriptors, DescriptorsOfTheirKind
  <2>2. \A f \in epollSet' : conn'[f] # Nobody
    BY <1>0, <1>5, <1>8 DEF IInv, TypeOK, Descriptors
  <2>3. tempApplication' \notin epollSet' /\ conn'[tempApplication'] # Nobody
    BY <1>0, <1>2, <1>5, <1>8, Constants
  <2> QED
    BY <1>0, <1>4, <2>1, <2>2, <2>3, Constants DEF IInv, Descriptors
<1>12. Events'
  <2>1. \A d \in batch' : d \in batch /\ d.fd # domain_socket
    BY <1>0 DEF IInv, Events
  <2>2. \A d \in batch' : d.fd \in Fd => conn'[d.fd] = conn[d.fd]
    BY <1>5, <1>8, <2>1 DEF IInv, Events
  <2> QED
    BY <1>0, <2>1, <2>2 DEF IInv, Events, Gone, Mute
<1>13. \A x \in Program : Protocol(x)'
  BY <1>0, <1>7, ProtocolStays DEF IInv
<1>14. NoDescriptorLost'
  <2>1. ASSUME NEW f \in Fd, conn'[f] # Nobody, f # FreeFd, f = tempApplication
        PROVE  Mute(conn[f])'
    <3>1. Mute(conn[f])
      BY <1>0, <2>1, Constants DEF IInv, Descriptors
    <3> QED
      BY <1>0, <1>5, <2>1, <3>1 DEF Mute, Gone
  <2>2. ASSUME NEW f \in Fd, conn'[f] # Nobody, f # FreeFd, f # tempApplication
        PROVE  \/ f \in {pingApplication', routingApplication'}
               \/ conn'[f] \in replaced' \/ Mute(conn[f])'
    <3>1. conn'[f] = conn[f] /\ conn[f] # Nobody
      BY <1>5, <2>2
    <3> QED
      BY <1>0, <2>2, <3>1 DEF IInv, NoDescriptorLost, Mute, Gone
  <2> QED
    BY <1>0, <2>1, <2>2 DEF NoDescriptorLost
<1> QED
  BY <1>9, <1>10, <1>11, <1>12, <1>13, <1>14 DEF IInv

\* A program that went without a word is not new any more.
LEMMA ReadNoHandshakeSound ==
  ASSUME IInv, ReadNoHandshake
  PROVE  IInv'
<1> USE DEF programVars, socketVars, applications, networkVars
<1> DEFINE p == conn[tempApplication]
<1>0. /\ daemon = "handshake" /\ toDaemon[p] = <<>> /\ Gone(p) /\ daemon' = "loop"
      /\ UNCHANGED <<socketVars, programVars, conn, epollSet, batch, replaced,
                     applications, networkVars>>
  BY DEF ReadNoHandshake
<1>1. p \in Program /\ Mute(p)
  <2>1. p \in Program
    BY <1>0 DEF IInv, TypeOK, Descriptors
  <2>2. New(p)
    BY <1>0 DEF New
  <2> QED
    BY <1>0, <2>1, <2>2 DEF IInv, Protocol, Gone
<1>2. TypeOK' /\ OneConnectionEach' /\ Events' /\ NoDescriptorLost'
  BY <1>0 DEF IInv, TypeOK, Daemon, OneConnectionEach, InBacklog, Events, Mute, Gone,
              NoDescriptorLost
<1>3. Descriptors'
  BY <1>0, <1>1 DEF IInv, Descriptors, DescriptorsOfTheirKind, Mute
<1>4. ASSUME NEW x \in Program PROVE Protocol(x)'
  <2>1. CASE x # p
    <3>1. New(x)' <=> New(x)
      BY <1>0, <2>1 DEF New, InBacklog
    <3> QED
      BY <1>0, <3>1, ProtocolStays DEF IInv
  <2>2. CASE x = p
    <3>1. toDaemon'[p] \in Seq(Says(p))
      BY <1>0, EmptySeq
    <3>2. toProgram'[p] \in Seq(Told(p)) /\ toDaemon'[p] = <<>> /\ phase'[p] = "mute"
      BY <1>0, <1>1 DEF IInv, Protocol, Mute
    <3> QED
      BY <2>2, <3>1, <3>2 DEF Protocol, Told, Says
  <2> QED
    BY <2>1, <2>2
<1> QED
  BY <1>2, <1>3, <1>4 DEF IInv

\* The descriptor takes the place of the one its kind had.
LEMMA ReadHandshakeSound ==
  ASSUME IInv, ReadHandshake
  PROVE  IInv'
<1> USE DEF programVars, networkVars
<1> DEFINE p == conn[tempApplication]
           old == IF p \in Router THEN routingApplication ELSE pingApplication
<1>0. /\ daemon = "handshake" /\ toDaemon[p] # <<>> /\ daemon' = "loop"
      /\ toDaemon' = [toDaemon EXCEPT ![p] = Tail(@)] /\ tempApplication' = None
      /\ epollSet' = epollSet \cup {tempApplication} /\ conn' = conn
      /\ replaced' = IF old = None THEN replaced ELSE replaced \cup {conn[old]}
      /\ UNCHANGED <<reset, backlog, programVars, batch, networkVars>>
  BY DEF ReadHandshake, Overwrite, ClosesOverwritten
<1>1. /\ p \in Router => /\ routingApplication' = tempApplication
                         /\ toProgram' = Written(p, Reply)
                         /\ pingApplication' = pingApplication
      /\ p \notin Router => /\ pingApplication' = tempApplication
                            /\ toProgram' = toProgram
                            /\ routingApplication' = routingApplication
  BY DEF ReadHandshake
<1>2. /\ tempApplication \in Fd /\ tempApplication \notin epollSet
      /\ p \in Program /\ p # Nobody
  BY <1>0, Constants DEF IInv, TypeOK, Descriptors
<1>3. \A f \in Fd : conn[f] = p => f = tempApplication
  BY <1>2 DEF IInv, OneConnectionEach
<1>4. New(p) /\ ~InBacklog(p)
  BY <1>0, <1>2 DEF New, IInv, OneConnectionEach, InBacklog
<1>5. /\ toDaemon' \in [Program -> Seq(FromAny)] /\ toDaemon'[p] = Tail(toDaemon[p])
      /\ \A x \in Program \ {p} : toDaemon'[x] = toDaemon[x]
  <2>1. toDaemon \in [Program -> Seq(FromAny)]
    BY DEF IInv, TypeOK
  <2> HIDE DEF p
  <2> QED
    BY <1>0, <1>2, <2>1, TailSound
<1>6. /\ toProgram' \in [Program -> Seq(Sdu \cup ToRouter)]
      /\ \A x \in Program : toProgram'[x] \in Seq(Told(x))
  <2>1. CASE p \in Router
    <3>1. Reply \in Told(p)
      BY <2>1 DEF Told, ToRouter
    <3> QED
      BY <1>1, <1>2, <2>1, <3>1, WrittenSound
  <2>2. CASE p \notin Router
    BY <1>1, <2>2 DEF IInv, TypeOK, Protocol
  <2> QED
    BY <2>1, <2>2
<1>7. old # None => old \in epollSet /\ conn[old] \in Program
  BY DEF IInv, TypeOK, Descriptors
<1> HIDE DEF p, old
<1>8. TypeOK'
  <2>1. replaced' \subseteq Program
    BY <1>0, <1>7 DEF IInv, TypeOK
  <2>2. epollSet' \subseteq Fd
    BY <1>0, <1>2 DEF IInv, TypeOK
  <2>3. {pingApplication', routingApplication', tempApplication'} \subseteq Fd \cup {None}
    BY <1>0, <1>1, <1>2 DEF IInv, TypeOK
  <2> QED
    BY <1>0, <1>5, <1>6, <2>1, <2>2, <2>3 DEF IInv, TypeOK, Daemon
<1>9. OneConnectionEach'
  BY <1>0 DEF IInv, OneConnectionEach, InBacklog
<1>10. Descriptors'
  <2>1. DescriptorsOfTheirKind'
    <3>1. p \notin Router => p \in Client \cup Server
      BY <1>2 DEF Program
    <3> QED
      BY <1>0, <1>1, <1>2, <3>1
         DEF IInv, Descriptors, DescriptorsOfTheirKind, p
  <2>2. \A f \in epollSet' : conn'[f] # Nobody
    BY <1>0, <1>2 DEF IInv, Descriptors, p
  <2>3. {pingApplication', routingApplication'} \subseteq epollSet' \cup {None}
    BY <1>0, <1>1 DEF IInv, Descriptors
  <2> QED
    BY <1>0, <2>1, <2>2, <2>3 DEF Descriptors
<1>11. Events'
  <2>1. \A e \in batch : e.fd \in Fd =>
           /\ e.fd \in epollSet /\ conn[e.fd] # p
           /\ conn[e.fd] \in Program
    BY <1>2, <1>3 DEF IInv, TypeOK, Events, Descriptors
  <2>2. \A e \in batch : e.fd \in Fd => toDaemon'[conn[e.fd]] = toDaemon[conn[e.fd]]
    BY <1>5, <2>1
  <2> QED
    BY <1>0, <2>1, <2>2 DEF IInv, Events, Gone, Mute
<1>12. ASSUME NEW x \in Program PROVE Protocol(x)'
  <2>1. CASE x # p
    <3>1. New(x)' <=> New(x)
      BY <1>0, <2>1 DEF New, InBacklog, p
    <3> QED
      BY <1>0, <1>5, <1>6, <2>1, <3>1, ProtocolServed
  <2>2. CASE x = p
    <3>1. phase[p] \notin {"off", "connected"} /\ Tail(toDaemon[p]) \in Seq(Says(p))
      BY <1>0, <1>2, <1>4 DEF IInv, Protocol
    <3>2. ~New(x)'
      BY <1>0, <1>4, <2>2 DEF New, InBacklog
    <3> QED
      BY <1>0, <1>5, <1>6, <2>2, <3>1, <3>2 DEF Protocol, Told, Says
  <2> QED
    BY <2>1, <2>2
<1>13. NoDescriptorLost'
  <2> SUFFICES ASSUME NEW f \in Fd, conn[f] # Nobody
               PROVE  \/ f \in {pingApplication', routingApplication'}
                      \/ conn[f] \in replaced' \/ Mute(conn[f])'
    BY <1>0 DEF NoDescriptorLost
  <2>1. CASE f = tempApplication
    BY <1>1, <2>1
  <2>2. CASE f # tempApplication /\ f = old
    BY <1>0, <1>2, <2>2, Constants
  <2>3. CASE f # tempApplication /\ f # old
    <3>1. f \in {pingApplication, routingApplication} =>
            f \in {pingApplication', routingApplication'}
      BY <1>1, <2>3 DEF old
    <3>2. conn[f] \in Program /\ conn[f] # p
      BY <1>3, <2>3 DEF IInv, TypeOK
    <3>3. Mute(conn[f]) => Mute(conn[f])'
      BY <1>0, <1>5, <3>2 DEF Mute, Gone
    <3> QED
      BY <1>0, <2>3, <3>1, <3>3 DEF IInv, NoDescriptorLost
  <2> QED
    BY <2>1, <2>2, <2>3
<1> QED
  BY <1>8, <1>9, <1>10, <1>11, <1>12, <1>13 DEF IInv

\* The descriptor of an application that has hung up is closed, and free.
LEMMA HandleHangupSound ==
  ASSUME IInv, NEW e \in batch, HandleHangup(e)
  PROVE  IInv'
<1> USE DEF programVars, socketVars, networkVars
<1>0. /\ daemon = "loop" /\ batch' = batch \ {e} /\ e.hup
      /\ UNCHANGED <<programVars, socketVars, daemon, replaced, tempApplication,
                     networkVars>>
  BY DEF HandleHangup, Take, HangsUp
<1>1. e.fd \in epollSet /\ e.fd \in Fd /\ conn[e.fd] \in Program
  BY <1>0 DEF IInv, TypeOK, Events, Descriptors
<1>2. CASE e.fd \notin {pingApplication, routingApplication}
  <2>1. UNCHANGED <<epollSet, conn, pingApplication, routingApplication>>
    BY <1>2 DEF HandleHangup
  <2>2. Events'
    BY <1>0, <2>1, EventsStay
  <2>3. TypeOK' /\ OneConnectionEach' /\ Descriptors' /\ NoDescriptorLost'
    BY <1>0, <2>1 DEF IInv, TypeOK, OneConnectionEach, InBacklog, Descriptors, Mute,
                     Gone, DescriptorsOfTheirKind, NoDescriptorLost
  <2>4. \A x \in Program : Protocol(x)'
    BY <1>0, <2>1 DEF IInv, Protocol, Told, Says, New, InBacklog
  <2> QED
    BY <2>2, <2>3, <2>4 DEF IInv
<1>3. CASE e.fd \in {pingApplication, routingApplication}
  <2>1. /\ epollSet' = epollSet \ {e.fd} /\ conn' = [conn EXCEPT ![e.fd] = Nobody]
        /\ pingApplication' = IF pingApplication = e.fd THEN None ELSE pingApplication
        /\ routingApplication' =
             IF routingApplication = e.fd THEN None ELSE routingApplication
    BY <1>3 DEF HandleHangup, Closed, ResetOnHangup
  <2>2. /\ conn' \in [Fd -> Program \cup {Nobody}] /\ conn'[e.fd] = Nobody
        /\ \A f \in Fd \ {e.fd} : conn'[f] = conn[f]
    BY <1>1, <2>1 DEF IInv, TypeOK
  <2>3. TypeOK'
    BY <1>0, <2>1, <2>2 DEF IInv, TypeOK
  <2>4. OneConnectionEach'
    <3>1. Nobody \notin Program /\ backlog \in Seq(Program)
      BY Constants DEF IInv, TypeOK
    <3>2. \A i \in DOMAIN backlog : backlog[i] # Nobody
      BY <3>1, ElementOfSeq, LenProperties
    <3>3. \A f, g \in Fd : conn'[f] = conn'[g] /\ conn'[f] # Nobody => f = g
      BY <2>2 DEF IInv, OneConnectionEach
    <3>4. \A i \in DOMAIN backlog, f \in Fd : backlog[i] # conn'[f]
      BY <2>2, <3>2 DEF IInv, OneConnectionEach
    <3>5. ASSUME NEW x \in Program, phase[x] = "off"
          PROVE  ~InBacklog(x) /\ \A f \in Fd : conn'[f] # x
      BY <2>2, <3>1, <3>5 DEF IInv, OneConnectionEach
    <3> QED
      BY <1>0, <3>3, <3>4, <3>5 DEF IInv, OneConnectionEach, InBacklog
  <2>5. Descriptors'
    <3>1. DescriptorsOfTheirKind'
      BY <2>1, <2>2 DEF IInv, TypeOK, Descriptors, DescriptorsOfTheirKind
    <3>2. \A f \in epollSet' : conn'[f] # Nobody
      BY <2>1, <2>2 DEF IInv, TypeOK, Descriptors
    <3>3. tempApplication # None => conn'[tempApplication] = conn[tempApplication]
      BY <1>1, <2>2 DEF IInv, TypeOK, Descriptors
    <3> QED
      BY <1>0, <2>1, <3>1, <3>2, <3>3 DEF IInv, Descriptors, Mute, Gone
  <2>6. Events'
    <3>1. \A d \in batch' : d \in batch /\ d.fd # e.fd
      BY <1>0 DEF IInv, Events
    <3>2. \A d \in batch' : d.fd \in Fd => conn'[d.fd] = conn[d.fd]
      BY <2>2, <3>1
    <3>3. /\ \A c, d \in batch' : c.fd = d.fd => c = d
          /\ \A d \in batch' : d.hup => d.fd \in Fd
          /\ \A d \in batch' : d.fd = domain_socket => backlog' # <<>>
      BY <1>0, <3>1 DEF IInv, Events
    <3>4. ASSUME NEW d \in batch', d.fd \in Fd
          PROVE  /\ d.fd \in epollSet'
                 /\ d.hup => Gone(conn[d.fd])'
                 /\ ~d.hup => toDaemon'[conn'[d.fd]] # <<>>
      <4>1. d \in batch /\ d.fd # e.fd /\ conn'[d.fd] = conn[d.fd]
        BY <3>1, <3>2, <3>4
      <4>2. /\ d.fd \in epollSet
            /\ d.hup => Gone(conn[d.fd])
            /\ ~d.hup => toDaemon[conn[d.fd]] # <<>>
        BY <3>4, <4>1 DEF IInv, Events
      <4> QED
        BY <1>0, <2>1, <4>1, <4>2 DEF Gone, Mute
    <3> QED
      BY <3>3, <3>4 DEF Events
  <2>7. ASSUME NEW x \in Program PROVE Protocol(x)'
    <3>1. New(x)' <=> New(x)
      BY <1>0 DEF New, InBacklog
    <3> QED
      BY <1>0, <3>1, ProtocolStays DEF IInv
  <2>8. NoDescriptorLost'
    BY <1>0, <2>1, <2>2 DEF IInv, NoDescriptorLost, Mute, Gone
  <2> QED
    BY <2>3, <2>4, <2>5, <2>6, <2>7, <2>8 DEF IInv
<1> QED
  BY <1>2, <1>3

\* A handler that has read from the application behind the descriptor of its
\* event, and written to programs.
LEMMA ServedSound ==
  ASSUME IInv, NEW e \in batch, batch' = batch \ {e}, daemon = "loop",
         e.fd \in {pingApplication, routingApplication},
         TakesFrom(conn[e.fd]),
         toProgram' \in [Program -> Seq(Sdu \cup ToRouter)],
         \A x \in Program : toProgram'[x] \in Seq(Told(x)),
         daemon' \in {"loop", "crashed"}, out' \subseteq Sdu,
         UNCHANGED <<backlog, programVars, conn, epollSet, replaced, applications,
                     frames, remote>>
  PROVE  IInv'
<1> USE DEF programVars, applications
<1> DEFINE p == conn[e.fd]
<1>1. e.fd # None /\ e.fd \in Fd /\ p \in Program /\ ~New(p)
  <2>1. e.fd # None
    BY Constants DEF IInv, TypeOK, Event
  <2> QED
    BY <2>1, ApplicationsKnown
<1>2. \A f \in Fd : conn[f] = p => f = e.fd
  BY <1>1, Constants DEF IInv, OneConnectionEach
<1> HIDE DEF p
<1>3. /\ toDaemon' \in [Program -> Seq(FromAny)] /\ reset' \subseteq Program
      /\ \A x \in Program \ {p} : toDaemon'[x] = toDaemon[x]
      /\ toDaemon[p] = <<>> => toDaemon'[p] = <<>>
      /\ toDaemon'[p] \in Seq(Says(p))
  <2>1. TakesFrom(p)
    BY DEF p
  <2> QED
    BY <1>1, <2>1, TakesFromSound
<1>4. TypeOK'
  BY <1>3 DEF IInv, TypeOK, Daemon
<1>5. OneConnectionEach'
  BY DEF IInv, OneConnectionEach, InBacklog
<1>6. Events'
  <2>1. \A x \in Program :
          toDaemon'[x] = toDaemon[x] \/ (e.fd \in Fd /\ conn[e.fd] = x)
    BY <1>1, <1>3 DEF p
  <2> QED
    BY <2>1, EventsStay
<1>7. \A x \in Program : Mute(x) => Mute(x)'
  BY <1>3 DEF Mute, Gone
<1>8. NoDescriptorLost'
  <2>1. \A f \in Fd : conn[f] # Nobody => conn[f] \in Program
    BY DEF IInv, TypeOK
  <2> QED
    BY <1>7, <2>1 DEF IInv, NoDescriptorLost, Mute, Gone
<1>9. Descriptors'
  <2>1. tempApplication # None => conn[tempApplication] \in Program
    BY DEF IInv, TypeOK, Descriptors
  <2> QED
    BY <1>7, <2>1 DEF IInv, Descriptors, DescriptorsOfTheirKind, Mute, Gone
<1>10. ASSUME NEW x \in Program PROVE Protocol(x)'
  <2>1. New(x)' <=> New(x)
    BY DEF New, InBacklog
  <2> QED
    BY <1>1, <1>3, <2>1, ProtocolServed
<1> QED
  BY <1>4, <1>5, <1>6, <1>8, <1>9, <1>10 DEF IInv

\* The daemon reads from the ping application, and writes to one of the two.
LEMMA HandleApplicationPacketSound ==
  ASSUME IInv, NEW e \in batch, HandleApplicationPacket(e)
  PROVE  IInv'
<1> DEFINE p == conn[pingApplication]
           r == conn[routingApplication]
           m == Read(p)
<1>0. /\ daemon = "loop" /\ batch' = batch \ {e} /\ e.fd = pingApplication
      /\ TakesFrom(p)
      /\ toProgram' = IF m.id \in ToSelf THEN Written(p, m)
                      ELSE IF routingApplication # None THEN Written(r, Request(m))
                      ELSE toProgram
      /\ UNCHANGED <<backlog, programVars, conn, epollSet, daemon, replaced,
                     applications, networkVars>>
  BY DEF HandleApplicationPacket, Take
<1>1. pingApplication # None
  BY <1>0, Constants DEF IInv, TypeOK, Event
<1>2. p \in Program /\ ~New(p) /\ p \notin Router
  BY <1>0, <1>1, ApplicationsKnown, ProgramAssumption
     DEF IInv, Descriptors, DescriptorsOfTheirKind
<1>3. m \in Sdu
  <2>1. Read(p) \in Says(p) \cup {Zeros}
    BY <1>0, <1>2, TakesFromSound
  <2> QED
    BY <1>2, <2>1 DEF Says, Zeros, Sdu, SduType, Id
<1>4. m \in Told(p)
  BY <1>2, <1>3 DEF Told
<1>5. routingApplication # None => r \in Program /\ Request(m) \in Told(r)
  <2>1. routingApplication # None => r \in Router
    BY DEF IInv, Descriptors, DescriptorsOfTheirKind
  <2> HIDE DEF m, r
  <2> QED
    BY <1>3, <2>1 DEF Told, ToRouter, Request, Sdu, Program
<1>6. /\ toProgram' \in [Program -> Seq(Sdu \cup ToRouter)]
      /\ \A x \in Program : toProgram'[x] \in Seq(Told(x))
  <2>1. CASE toProgram' = toProgram
    BY <2>1 DEF IInv, TypeOK, Protocol
  <2>2. CASE toProgram' = Written(p, m)
    BY <1>2, <1>4, <2>2, WrittenSound
  <2>3. CASE routingApplication # None /\ toProgram' = Written(r, Request(m))
    BY <1>5, <2>3, WrittenSound
  <2> QED
    BY <1>0, <2>1, <2>2, <2>3
<1> QED
  BY <1>0, <1>6, ServedSound DEF networkVars, IInv, TypeOK

\* The daemon reads from the routing daemon.  The read fails only after a reset:
\* the event says that there is something to read.
LEMMA HandleRoutingPacketSound ==
  ASSUME IInv, NEW e \in batch, HandleRoutingPacket(e)
  PROVE  /\ IInv'
         /\ daemon' = "crashed" => conn[routingApplication] \in reset
<1> DEFINE p == conn[routingApplication]
           m == Read(p)
<1>0. /\ daemon = "loop" /\ batch' = batch \ {e} /\ ~e.hup
      /\ e.fd = routingApplication /\ TakesFrom(p)
      /\ daemon' = IF Fails(p) THEN "crashed" ELSE daemon
      /\ out' = IF m.type = "RESPONSE" /\ m.id # Nobody
                THEN out \cup {[type |-> m.msg, id |-> m.id]} ELSE out
      /\ UNCHANGED <<toProgram, backlog, programVars, conn, epollSet, replaced,
                     applications, frames, remote>>
  BY DEF HandleRoutingPacket, Take, HangsUp
<1>1. e.fd # None /\ e.fd \in Fd
  <2>1. e.fd # None
    BY Constants DEF IInv, TypeOK, Event
  <2> QED
    BY <1>0, <2>1, ApplicationsKnown
<1>2. p \in Program /\ ~New(p) /\ p \in Router
  BY <1>0, <1>1, ApplicationsKnown DEF IInv, Descriptors, DescriptorsOfTheirKind
<1>3. out' \subseteq Sdu
  <2>1. Read(p) \in Says(p) \cup {Zeros}
    BY <1>0, <1>2, TakesFromSound
  <2>2. m \in [type : {"RESPONSE"}, id : Id, msg : SduType] \/ m.type # "RESPONSE"
    BY <1>2, <2>1 DEF Says, Zeros, Routing
  <2> HIDE DEF m
  <2> QED
    BY <1>0, <2>2 DEF IInv, TypeOK, Sdu
<1>4. IInv'
  <2>1. toProgram' \in [Program -> Seq(Sdu \cup ToRouter)]
    BY <1>0 DEF IInv, TypeOK
  <2>2. \A x \in Program : toProgram'[x] \in Seq(Told(x))
    BY <1>0 DEF IInv, Protocol
  <2>3. daemon' \in {"loop", "crashed"}
    BY <1>0
  <2> QED
    BY <1>0, <1>3, <2>1, <2>2, <2>3, ServedSound
<1>5. daemon' = "crashed" => p \in reset
  <2>1. toDaemon[p] # <<>>
    BY <1>0, <1>1 DEF IInv, Events
  <2> QED
    BY <1>0, <2>1 DEF Fails
<1> QED
  BY <1>4, <1>5

-----------------------------------------------------------------------------
(* The invariant.                                                          *)

LEMMA InitSound == Init => IInv
<1> SUFFICES ASSUME Init PROVE IInv
  OBVIOUS
<1> USE DEF Init
<1>1. TypeOK
  BY EmptySeq DEF TypeOK, Phase, Daemon
<1>2. ~\E i \in DOMAIN backlog : TRUE
  BY EmptySeq, LenProperties
<1>3. OneConnectionEach
  BY <1>2, Constants DEF OneConnectionEach, InBacklog
<1>4. Descriptors /\ Events /\ NoDescriptorLost
  BY DEF Descriptors, DescriptorsOfTheirKind, Events, NoDescriptorLost
<1>5. ASSUME NEW p \in Program PROVE Protocol(p)
  <2>1. <<>> \in Seq(Told(p)) /\ <<>> \in Seq(Says(p))
    BY EmptySeq
  <2> QED
    BY <1>2, <2>1 DEF Protocol, New, InBacklog
<1> QED
  BY <1>1, <1>3, <1>4, <1>5 DEF IInv

LEMMA NextSound == IInv /\ [Next]_vars => IInv'
<1> SUFFICES ASSUME IInv, [Next]_vars PROVE IInv'
  OBVIOUS
<1>1. ASSUME NEW p \in Program, Connect(p) \/ ProgramStep(p) \/ Die(p)
      PROVE  IInv'
  BY <1>1, ConnectSound, SendHandshakeSound, SendPingSound, ServerReadsSound,
     RouterReadsSound, ClientLeavesSound DEF ProgramStep
<1>2. CASE EpollWait
  BY <1>2, EpollWaitSound
<1>3. CASE ReadHandshake
  BY <1>3, ReadHandshakeSound
<1>4. CASE ReadNoHandshake
  BY <1>4, ReadNoHandshakeSound
<1>5. ASSUME NEW e \in batch,
             \/ Accept(e) \/ HandleHangup(e) \/ HandleApplicationPacket(e)
             \/ HandleRoutingPacket(e) \/ HandleRawPacket(e) \/ PassOver(e)
      PROVE  IInv'
  BY <1>5, AcceptSound, HandleHangupSound, HandleApplicationPacketSound,
     HandleRoutingPacketSound, HandleRawPacketSound, PassOverSound
<1>6. CASE RemoteStep \/ \E x \in RemoteClient : RemotePings(x)
  BY <1>6, RemoteSound
<1>7. CASE UNCHANGED vars
  <2> USE DEF vars, programVars, socketVars, daemonVars, applications, networkVars
  <2>1. TypeOK' /\ OneConnectionEach'
    BY <1>7 DEF IInv, TypeOK, OneConnectionEach, InBacklog
  <2>2. Descriptors' /\ Events' /\ NoDescriptorLost'
    BY <1>7, DescriptorsStay DEF IInv
  <2>3. \A p \in Program : Protocol(p)'
    BY <1>7 DEF IInv, Protocol, Told, Says, New, InBacklog
  <2> QED
    BY <2>1, <2>2, <2>3 DEF IInv
<1> QED
  BY <1>1, <1>2, <1>3, <1>4, <1>5, <1>6, <1>7 DEF Next, DaemonStep

LEMMA SpecSound == Spec => []IInv
BY InitSound, NextSound, PTL DEF Spec

-----------------------------------------------------------------------------
(* Theorems.                                                               *)

\* Every variable has its type, whatever programs there are.
THEOREM TypesOK == Spec => []TypeOK
<1>1. IInv => TypeOK
  BY DEF IInv
<1> QED
  BY <1>1, SpecSound, PTL

\* The descriptor in each of the two variables of the daemon is that of a
\* program of the variable's kind.
THEOREM DescriptorsAreOfTheirKind == Spec => []DescriptorsOfTheirKind
<1>1. IInv => DescriptorsOfTheirKind
  BY DEF IInv, Descriptors
<1> QED
  BY <1>1, SpecSound, PTL

\* Whatever has happened since epoll_wait returned, the event that is handled
\* next is about a connection that is open.
THEOREM EventsAreNotStale == Spec => []NoStaleEvent
<1>1. IInv => NoStaleEvent
  BY DEF IInv, NoStaleEvent, Events, Descriptors
<1> QED
  BY <1>1, SpecSound, PTL

\* A descriptor stays open for ever only if another took its place, or if its
\* program went before it had sent its handshake.
THEOREM DescriptorsAreNotLost == Spec => []NoDescriptorLost
<1>1. IInv => NoDescriptorLost
  BY DEF IInv
<1> QED
  BY <1>1, SpecSound, PTL

\* The daemon crashes only when it reads from a routing daemon that went with
\* messages unread.
THEOREM OnlyAResetCrashes == Spec => CrashesOnlyAfterReset
<1> DEFINE OnlyThen ==
  daemon' # daemon /\ daemon' = "crashed" => conn[routingApplication] \in reset
<1>1. IInv /\ [Next]_vars => [OnlyThen]_vars
  <2> SUFFICES ASSUME IInv, [Next]_vars PROVE OnlyThen
    OBVIOUS
  <2>1. ASSUME NEW e \in batch, HandleRoutingPacket(e) PROVE OnlyThen
    BY <2>1, HandleRoutingPacketSound
  <2>2. CASE daemon' = daemon \/ daemon' # "crashed"
    BY <2>2
  <2>3. CASE UNCHANGED vars
    BY <2>3, <2>2 DEF vars, daemonVars
  <2>4. ASSUME NEW p \in Program, Connect(p) \/ ProgramStep(p) \/ Die(p)
        PROVE  OnlyThen
    BY <2>4 DEF Connect, ProgramStep, SendHandshake, SendPing, ClientReads,
                ClientTimesOut, ServerReads, RouterReads, Die, daemonVars
  <2>5. CASE EpollWait \/ ReadHandshake \/ ReadNoHandshake
    BY <2>5 DEF EpollWait, ReadHandshake, ReadNoHandshake
  <2>6. ASSUME NEW e \in batch,
               \/ Accept(e) \/ HandleHangup(e) \/ HandleApplicationPacket(e)
               \/ HandleRawPacket(e) \/ PassOver(e)
        PROVE  OnlyThen
    BY <2>6 DEF Accept, HandleHangup, HandleApplicationPacket, HandleRawPacket,
                PassOver
  <2>7. CASE RemoteStep \/ \E x \in RemoteClient : RemotePings(x)
    BY <2>7 DEF RemoteStep, RemotePings, RemoteAnswers, RemoteReads, daemonVars
  <2> QED
    BY <2>1, <2>3, <2>4, <2>5, <2>6, <2>7 DEF Next, DaemonStep
<1> QED
  BY <1>1, SpecSound, PTL DEF Spec, CrashesOnlyAfterReset
=============================================================================

--------------------------- MODULE Answers_proofs ---------------------------
(***************************************************************************)
(* A client takes whatever comes first for the answer to its question.     *)
(* From the moment a client asks until somebody has taken it, there is one *)
(* message about its question on this host or on its way to or from        *)
(* another: what is about one client and given to another comes too late.  *)
(***************************************************************************)
EXTENDS Applications_proofs

\* Where a message about the question of c is.
Among(q, c) == {p \in Program : \E i \in DOMAIN q[p] : q[p][i].id = c}
Where(c) ==
  ({"toDaemon"} \X Among(toDaemon, c)) \cup ({"toProgram"} \X Among(toProgram, c))
    \cup ({"answer"} \X {x \in Client : answer[x].id = c})
    \cup ({"frames"} \X {m \in frames : m.id = c})
    \cup ({"out"} \X {m \in out : m.id = c})

AtMostOnce(q, c) ==
  \A p \in Program : \A i, j \in DOMAIN q[p] :
    q[p][i].id = c /\ q[p][j].id = c => i = j

\* There is one such message, from the moment the question is asked.
OneMessage(c) ==
  /\ \A x, y \in Where(c) : x = y
  /\ AtMostOnce(toDaemon, c) /\ AtMostOnce(toProgram, c)
  /\ phase[c] \in {"off", "connected", "greeted"} => Where(c) = {}

\* c has gone, or another application has taken its place.
Superseded(c) == Gone(c) \/ c \in replaced

\* The question has not been read, or c is the ping application, or was.
Known(c) == (pingApplication # None /\ conn[pingApplication] = c) \/ Superseded(c)
Asked(c) == Where(c) \subseteq {<<"toDaemon", c>>} \/ Known(c)

\* Where another client is told about it.
Elsewhere(c) == {"toProgram", "answer"} \X (Client \ {c})
NotForOthers(c) == Where(c) \cap Elsewhere(c) # {} => Superseded(c)

\* What goes to clients and servers is about a question of somebody.
OfSomebody ==
  /\ Among(toProgram, Nobody) \subseteq Router
  /\ \A m \in frames \cup out : m.id # Nobody
  /\ \A c \in Client : answer[c].id = Nobody => answer[c] = NoMessage

QInv == OfSomebody /\ \A c \in Client : OneMessage(c) /\ Asked(c) /\ NotForOthers(c)

-----------------------------------------------------------------------------
\* What is read from a queue leaves it.
LEMMA TailAmong ==
  ASSUME NEW S, NEW q, NEW x \in Program, q \in [Program -> Seq(S)], q[x] # <<>>,
         NEW c
  PROVE  LET r == [q EXCEPT ![x] = Tail(@)]
         IN  /\ Among(r, c) \subseteq Among(q, c)
             /\ AtMostOnce(q, c) => AtMostOnce(r, c)
             /\ Head(q[x]).id = c => x \in Among(q, c)
             /\ Head(q[x]).id = c /\ AtMostOnce(q, c) => x \notin Among(r, c)
<1> DEFINE r == [q EXCEPT ![x] = Tail(@)]
           n == Len(q[x])
<1>1. /\ r[x] = Tail(q[x]) /\ \A p \in Program \ {x} : r[p] = q[p]
      /\ r \in [Program -> Seq(S)]
  BY TailSound
<1>2. /\ n \in Nat /\ n >= 1 /\ DOMAIN q[x] = 1 .. n /\ DOMAIN r[x] = 1 .. n - 1
      /\ Head(q[x]) = q[x][1] /\ \A i \in 1 .. n - 1 : r[x][i] = q[x][i + 1]
  <2>1. q[x] \in Seq(S) /\ q[x] # <<>>
    OBVIOUS
  <2>2. n \in Nat /\ n # 0 /\ DOMAIN q[x] = 1 .. n
    BY <2>1, LenProperties, EmptySeq
  <2>3. /\ r[x] \in Seq(S) /\ Len(r[x]) = n - 1
        /\ \A i \in 1 .. n - 1 : r[x][i] = q[x][i + 1]
    BY <1>1, <2>1, HeadTailProperties
  <2>4. DOMAIN r[x] = 1 .. n - 1
    BY <2>3, LenProperties
  <2>5. Head(q[x]) = q[x][1]
    BY <2>1
  <2> HIDE DEF r, n
  <2> QED
    BY <2>2, <2>3, <2>4, <2>5
<1> HIDE DEF r, n
<1>3. \A i \in DOMAIN r[x] : /\ i \in Int /\ i + 1 \in DOMAIN q[x] /\ i + 1 # 1
                             /\ r[x][i] = q[x][i + 1]
  BY <1>2
<1>4. Among(r, c) \subseteq Among(q, c)
  <2> SUFFICES ASSUME NEW p \in Among(r, c) PROVE p \in Among(q, c)
    OBVIOUS
  <2>1. CASE p = x
    BY <1>3, <2>1 DEF Among
  <2>2. CASE p # x
    BY <1>1, <2>2 DEF Among
  <2> QED
    BY <2>1, <2>2
<1>5. ASSUME AtMostOnce(q, c) PROVE AtMostOnce(r, c)
  <2>1. ASSUME NEW i \in DOMAIN r[x], NEW j \in DOMAIN r[x],
               r[x][i].id = c, r[x][j].id = c
        PROVE  i = j
    <3>1. i + 1 = j + 1
      BY <1>3, <1>5, <2>1 DEF AtMostOnce
    <3> QED
      BY <1>3, <3>1
  <2> QED
    BY <1>1, <1>5, <2>1 DEF AtMostOnce
<1>6. Head(q[x]).id = c => x \in Among(q, c)
  BY <1>2 DEF Among
<1>7. ASSUME Head(q[x]).id = c, AtMostOnce(q, c) PROVE x \notin Among(r, c)
  <2>1. 1 \in DOMAIN q[x]
    BY <1>2
  <2>2. \A i \in DOMAIN r[x] : r[x][i].id # c
    BY <1>2, <1>3, <1>7, <2>1 DEF AtMostOnce
  <2> QED
    BY <2>2 DEF Among
<1> QED
  BY <1>4, <1>5, <1>6, <1>7 DEF r

\* What is written to a queue is all that comes in.
LEMMA AppendAmong ==
  ASSUME NEW S, NEW q, NEW x \in Program, q \in [Program -> Seq(S)], NEW m \in S,
         NEW c
  PROVE  LET r == [q EXCEPT ![x] = Append(@, m)]
         IN  /\ m.id # c => /\ Among(r, c) \subseteq Among(q, c)
                            /\ AtMostOnce(q, c) => AtMostOnce(r, c)
             /\ Among(r, c) \subseteq Among(q, c) \cup {x}
             /\ AtMostOnce(q, c) /\ x \notin Among(q, c) => AtMostOnce(r, c)
<1> DEFINE r == [q EXCEPT ![x] = Append(@, m)]
           n == Len(q[x])
<1>1. r[x] = Append(q[x], m) /\ \A p \in Program \ {x} : r[p] = q[p]
  BY AppendSound
<1>2. /\ n \in Nat /\ DOMAIN q[x] = 1 .. n /\ DOMAIN r[x] = 1 .. n + 1
      /\ r[x][n + 1] = m
      /\ \A i \in DOMAIN r[x] : i # n + 1 => i \in DOMAIN q[x] /\ r[x][i] = q[x][i]
  <2>1. q[x] \in Seq(S)
    OBVIOUS
  <2>2. /\ n \in Nat /\ DOMAIN q[x] = 1 .. n
        /\ r[x] \in Seq(S) /\ Len(r[x]) = n + 1 /\ r[x][n + 1] = m
        /\ \A i \in 1 .. n : r[x][i] = q[x][i]
    BY <1>1, <2>1, AppendProperties, LenProperties
  <2>3. DOMAIN r[x] = 1 .. n + 1
    BY <2>2, LenProperties
  <2> QED
    BY <2>2, <2>3
<1> HIDE DEF r, n
<1>3. Among(r, c) \subseteq Among(q, c) \cup {x}
  BY <1>1 DEF Among
<1>4. ASSUME m.id # c PROVE Among(r, c) \subseteq Among(q, c)
  BY <1>1, <1>2, <1>4 DEF Among
<1>5. ASSUME m.id # c, AtMostOnce(q, c) PROVE AtMostOnce(r, c)
  <2>1. ASSUME NEW i \in DOMAIN r[x], NEW j \in DOMAIN r[x],
               r[x][i].id = c, r[x][j].id = c
        PROVE  i = j
    BY <1>2, <1>5, <2>1 DEF AtMostOnce
  <2> QED
    BY <1>1, <1>5, <2>1 DEF AtMostOnce
<1>6. ASSUME x \notin Among(q, c), AtMostOnce(q, c) PROVE AtMostOnce(r, c)
  <2>1. \A i \in DOMAIN q[x] : q[x][i].id # c
    BY <1>6 DEF Among
  <2>2. \A i \in DOMAIN r[x] : r[x][i].id = c => i = n + 1
    BY <1>2, <2>1
  <2> QED
    BY <1>1, <1>6, <2>2 DEF AtMostOnce
<1> QED
  BY <1>3, <1>4, <1>5, <1>6 DEF r

\* A step that loses the message about the question of c, or moves it.
LEMMA MovedSound ==
  ASSUME NEW c \in Client, OneMessage(c), Asked(c), NotForOthers(c),
         AtMostOnce(toDaemon', c), AtMostOnce(toProgram', c),
         Known(c) => Known(c)', Superseded(c) => Superseded(c)',
         phase'[c] \in {"off", "connected", "greeted"} =>
           phase[c] \in {"off", "connected", "greeted"},
         \/ Where(c)' \subseteq Where(c)
         \/ \E s \in Where(c) : \E t :
              /\ Where(c)' \subseteq (Where(c) \ {s}) \cup {t}
              /\ s = <<"toDaemon", c>> => Known(c)
              /\ t \in Elsewhere(c) => Superseded(c)
  PROVE  OneMessage(c)' /\ Asked(c)' /\ NotForOthers(c)'
<1>1. CASE Where(c)' \subseteq Where(c)
  <2>1. OneMessage(c)'
    BY <1>1 DEF OneMessage
  <2>2. Asked(c)'
    BY <1>1 DEF Asked
  <2>3. NotForOthers(c)'
    BY <1>1 DEF NotForOthers, Elsewhere
  <2> QED
    BY <2>1, <2>2, <2>3
<1>2. ASSUME NEW s \in Where(c), NEW t,
             Where(c)' \subseteq (Where(c) \ {s}) \cup {t},
             s = <<"toDaemon", c>> => Known(c),
             t \in Elsewhere(c) => Superseded(c)
      PROVE  OneMessage(c)' /\ Asked(c)' /\ NotForOthers(c)'
  <2>1. Where(c)' \subseteq {t}
    BY <1>2 DEF OneMessage
  <2>2. OneMessage(c)'
    BY <2>1 DEF OneMessage
  <2>3. Asked(c)'
    BY <1>2 DEF Asked
  <2>4. NotForOthers(c)'
    BY <1>2, <2>1 DEF NotForOthers, Elsewhere
  <2> QED
    BY <2>2, <2>3, <2>4
<1> QED
  BY <1>1, <1>2

\* The message about the question of c stays, gets lost, or goes on.
Moves(c) ==
  /\ AtMostOnce(toDaemon', c) /\ AtMostOnce(toProgram', c)
  /\ \/ Where(c)' \subseteq Where(c)
     \/ \E s \in Where(c) : \E t :
          /\ Where(c)' \subseteq (Where(c) \ {s}) \cup {t}
          /\ s = <<"toDaemon", c>> => Known(c)
          /\ t \in Elsewhere(c) => Superseded(c)

\* An application stays known until it has gone or been replaced.
LEMMA KnownStays ==
  ASSUME IInv, [Next]_vars, NEW c \in Client
  PROVE  /\ Known(c) => Known(c)'
         /\ Superseded(c) => Superseded(c)'
         /\ phase'[c] \in {"off", "connected", "greeted"} =>
              phase[c] \in {"off", "connected", "greeted"}
<1> USE DEF programVars, socketVars, daemonVars, applications, networkVars
<1> DEFINE Early == {"off", "connected", "greeted"}
           Goal == /\ Known(c) => Known(c)'
                   /\ Superseded(c) => Superseded(c)'
                   /\ phase'[c] \in Early => phase[c] \in Early
<1>0. c \in Program /\ phase \in [Program -> Phase]
  BY DEF Program, IInv, TypeOK
<1>1. ASSUME NEW p \in Program, Connect(p) \/ ProgramStep(p) \/ Die(p)
      PROVE  Goal
  <2>1. UNCHANGED <<conn, pingApplication, replaced>>
    BY <1>1 DEF Connect, ProgramStep, SendHandshake, SendPing, ClientReads,
                ClientTimesOut, ServerReads, RouterReads, Die
  <2>2. Gone(c) => Gone(c)'
    BY <1>0, <1>1 DEF Connect, ProgramStep, SendHandshake, Greets, SendPing,
         ClientReads, ClientTimesOut, ServerReads, RouterReads, Die, Leave, Gone, Mute
  <2>3. phase'[c] \in Early => phase[c] \in Early
    BY <1>0, <1>1 DEF Connect, ProgramStep, SendHandshake, Greets, SendPing,
         ClientReads, ClientTimesOut, ServerReads, RouterReads, Die, Leave
  <2> QED
    BY <2>1, <2>2, <2>3 DEF Known, Superseded
<1>2. CASE UNCHANGED <<phase, conn, pingApplication, replaced>>
  BY <1>2 DEF Known, Superseded, Gone, Mute
<1>3. CASE EpollWait \/ ReadNoHandshake \/ RemoteStep
             \/ \E x \in RemoteClient : RemotePings(x)
  BY <1>2, <1>3 DEF EpollWait, ReadNoHandshake, RemoteStep, RemotePings,
                    RemoteAnswers, RemoteReads
<1>4. ASSUME NEW e \in batch,
             \/ HandleApplicationPacket(e) \/ HandleRoutingPacket(e)
             \/ HandleRawPacket(e) \/ PassOver(e)
      PROVE  Goal
  BY <1>2, <1>4 DEF HandleApplicationPacket, HandleRoutingPacket, HandleRawPacket,
                    PassOver
<1>5. CASE ReadHandshake
  <2>1. phase' = phase /\ conn' = conn /\ replaced \subseteq replaced'
    BY <1>5 DEF ReadHandshake, Overwrite, ClosesOverwritten
  <2>2. pingApplication' # pingApplication /\ pingApplication # None =>
          conn[pingApplication] \in replaced'
    BY <1>5 DEF ReadHandshake, Overwrite
  <2> QED
    BY <2>1, <2>2 DEF Known, Superseded, Gone, Mute
<1>6. ASSUME NEW e \in batch, Accept(e) PROVE Goal
  <2>1. /\ UNCHANGED <<phase, pingApplication, replaced>>
        /\ conn' = [conn EXCEPT ![FreeFd] = Head(backlog)]
    BY <1>6 DEF Accept
  <2>2. pingApplication # None /\ conn[pingApplication] = c =>
          conn'[pingApplication] = c
    <3>1. FreeFd \in Fd /\ conn[FreeFd] = Nobody
      BY <1>6, AcceptsFree
    <3> QED
      BY <1>0, <2>1, <3>1, Constants DEF IInv, TypeOK
  <2> QED
    BY <2>1, <2>2 DEF Known, Superseded, Gone, Mute
<1>7. ASSUME NEW e \in batch, HandleHangup(e) PROVE Goal
  <2>1. e.hup /\ UNCHANGED <<phase, replaced>>
    BY <1>7 DEF HandleHangup, HangsUp
  <2>2. e.fd \in Fd /\ Gone(conn[e.fd])
    BY <2>1 DEF IInv, Events
  <2>3. CASE e.fd \notin {pingApplication, routingApplication}
    BY <1>2, <1>7, <2>3, <2>1 DEF HandleHangup
  <2>4. CASE e.fd \in {pingApplication, routingApplication}
    <3>1. /\ conn' = [conn EXCEPT ![e.fd] = Nobody]
          /\ pingApplication' = IF pingApplication = e.fd THEN None ELSE pingApplication
      BY <1>7, <2>4 DEF HandleHangup, Closed, ResetOnHangup
    <3>2. CASE pingApplication = e.fd
      BY <2>1, <2>2, <3>2 DEF Known, Superseded, Gone, Mute
    <3>3. CASE pingApplication # e.fd
      BY <2>1, <3>1, <3>3 DEF Known, Superseded, Gone, Mute, IInv, TypeOK
    <3> QED
      BY <3>2, <3>3
  <2> QED
    BY <2>3, <2>4
<1>8. CASE UNCHANGED vars
  BY <1>2, <1>8 DEF vars
<1> QED
  BY <1>1, <1>3, <1>4, <1>5, <1>6, <1>7, <1>8 DEF Next, DaemonStep

\* Where there is one message there is no other.
LEMMA NoOther ==
  ASSUME NEW c, OneMessage(c), NEW s \in Where(c), NEW p
  PROVE  /\ s # <<"toDaemon", p>> => p \notin Among(toDaemon, c)
         /\ s # <<"toProgram", p>> => p \notin Among(toProgram, c)
<1>1. p \in Among(toDaemon, c) => <<"toDaemon", p>> \in Where(c)
  BY DEF Where
<1>2. p \in Among(toProgram, c) => <<"toProgram", p>> \in Where(c)
  BY DEF Where
<1> QED
  BY <1>1, <1>2 DEF OneMessage

\* What becomes of a message: given back by a program,
LEMMA GivenBack ==
  ASSUME NEW c, NEW p,
         Among(toProgram', c) \subseteq Among(toProgram, c) \ {p},
         Among(toDaemon', c) \subseteq Among(toDaemon, c) \cup {p},
         UNCHANGED <<answer, frames, out>>
  PROVE  Where(c)' \subseteq (Where(c) \ {<<"toProgram", p>>}) \cup {<<"toDaemon", p>>}
BY DEF Where

\* ... printed by a client,
LEMMA Printed ==
  ASSUME NEW c, NEW p,
         Among(toProgram', c) \subseteq Among(toProgram, c) \ {p},
         Among(toDaemon', c) \subseteq Among(toDaemon, c),
         \A x \in Client \ {p} : answer'[x] = answer[x],
         UNCHANGED <<frames, out>>
  PROVE  Where(c)' \subseteq (Where(c) \ {<<"toProgram", p>>}) \cup {<<"answer", p>>}
BY DEF Where

\* ... read from a frame,
LEMMA Delivered ==
  ASSUME NEW c, NEW m, NEW p,
         frames' = frames \ {m},
         Among(toProgram', c) \subseteq Among(toProgram, c) \cup {p},
         Among(toDaemon', c) \subseteq Among(toDaemon, c),
         UNCHANGED <<answer, out>>
  PROVE  Where(c)' \subseteq (Where(c) \ {<<"frames", m>>}) \cup {<<"toProgram", p>>}
BY DEF Where

\* ... passed on by the daemon,
LEMMA PassedOn ==
  ASSUME NEW c, NEW p, NEW x,
         Among(toDaemon', c) \subseteq Among(toDaemon, c) \ {p},
         Among(toProgram', c) \subseteq Among(toProgram, c) \cup {x},
         UNCHANGED <<answer, frames, out>>
  PROVE  Where(c)' \subseteq (Where(c) \ {<<"toDaemon", p>>}) \cup {<<"toProgram", x>>}
BY DEF Where

\* ... sent to another host,
LEMMA SentOut ==
  ASSUME NEW c, NEW p, NEW m,
         Among(toDaemon', c) \subseteq Among(toDaemon, c) \ {p},
         Among(toProgram', c) \subseteq Among(toProgram, c),
         out' \subseteq out \cup {m},
         UNCHANGED <<answer, frames>>
  PROVE  Where(c)' \subseteq (Where(c) \ {<<"toDaemon", p>>}) \cup {<<"out", m>>}
BY DEF Where

\* ... answered there.
LEMMA Answered ==
  ASSUME NEW c, NEW m, NEW k,
         out' = out \ {m},
         frames' = frames \cup {k},
         UNCHANGED <<toDaemon, toProgram, answer>>
  PROVE  Where(c)' \subseteq (Where(c) \ {<<"out", m>>}) \cup {<<"frames", k>>}
BY DEF Where

\* The question itself.
LEMMA AskedFirst ==
  ASSUME NEW c, NEW p, Among(toDaemon', c) \subseteq Among(toDaemon, c) \cup {p},
         UNCHANGED <<toProgram, answer, frames, out>>
  PROVE  Where(c)' \subseteq Where(c) \cup {<<"toDaemon", p>>}
BY DEF Where

\* If nothing is added, nothing moves.
LEMMA Shrinks ==
  ASSUME NEW c,
         Among(toDaemon', c) \subseteq Among(toDaemon, c),
         Among(toProgram', c) \subseteq Among(toProgram, c),
         \A x \in Client : answer'[x].id = c => answer[x].id = c,
         \A m \in frames' : m.id = c => m \in frames,
         \A m \in out' : m.id = c => m \in out
  PROVE  Where(c)' \subseteq Where(c)
BY DEF Where

\* What a program leaves unread is lost.
LEMMA LeaveAmong ==
  ASSUME IInv, NEW p \in Program, NEW unread, Leave(p, unread), NEW c
  PROVE  /\ Among(toProgram', c) \subseteq Among(toProgram, c) \ {p}
         /\ AtMostOnce(toProgram, c) => AtMostOnce(toProgram', c)
<1>1. toProgram'[p] = <<>> /\ \A x \in Program \ {p} : toProgram'[x] = toProgram[x]
  BY DEF Leave, IInv, TypeOK
<1>2. DOMAIN toProgram'[p] = {}
  BY <1>1, EmptySeq, LenProperties
<1> QED
  BY <1>1, <1>2 DEF Among, AtMostOnce

\* A write to a program, which may have gone.
LEMMA WrittenAmong ==
  ASSUME IInv, NEW p \in Program, NEW m \in Told(p), toProgram' = Written(p, m), NEW c
  PROVE  /\ m.id # c =>
              /\ Among(toProgram', c) \subseteq Among(toProgram, c)
              /\ AtMostOnce(toProgram, c) => AtMostOnce(toProgram', c)
         /\ Among(toProgram', c) \subseteq Among(toProgram, c) \cup {p}
         /\ AtMostOnce(toProgram, c) /\ p \notin Among(toProgram, c) =>
              AtMostOnce(toProgram', c)
<1>1. CASE toProgram' = toProgram
  BY <1>1
<1>2. CASE toProgram' = [toProgram EXCEPT ![p] = Append(@, m)]
  <2>1. toProgram \in [Program -> Seq(Sdu \cup ToRouter)] /\ m \in Sdu \cup ToRouter
    BY DEF IInv, TypeOK, Told
  <2> DEFINE S == Sdu \cup ToRouter
             r == [toProgram EXCEPT ![p] = Append(@, m)]
  <2> HIDE DEF S
  <2>2. toProgram \in [Program -> Seq(S)] /\ m \in S
    BY <2>1 DEF S
  <2>3. /\ m.id # c =>
             /\ Among(r, c) \subseteq Among(toProgram, c)
             /\ AtMostOnce(toProgram, c) => AtMostOnce(r, c)
        /\ Among(r, c) \subseteq Among(toProgram, c) \cup {p}
        /\ AtMostOnce(toProgram, c) /\ p \notin Among(toProgram, c) =>
             AtMostOnce(r, c)
    BY <2>2, AppendAmong
  <2> QED
    BY <1>2, <2>3
<1> QED
  BY <1>1, <1>2 DEF Written

\* A program gives back what it got.
LEMMA GivesBackMoves ==
  ASSUME IInv, QInv, NEW p \in Program, toProgram[p] # <<>>,
         toProgram' = [toProgram EXCEPT ![p] = Tail(@)],
         NEW a \in FromAny, Send(p, a), a.id = Head(toProgram[p]).id,
         UNCHANGED <<answer, networkVars>>
  PROVE  OfSomebody' /\ \A c \in Client : Moves(c)
<1> USE DEF networkVars
<1>1. /\ toProgram \in [Program -> Seq(Sdu \cup ToRouter)]
      /\ toDaemon \in [Program -> Seq(FromAny)]
  BY DEF IInv, TypeOK
<1>2. ASSUME NEW c
      PROVE  /\ Among(toProgram', c) \subseteq Among(toProgram, c)
             /\ AtMostOnce(toProgram, c) => AtMostOnce(toProgram', c)
             /\ a.id = c => p \in Among(toProgram, c)
             /\ a.id = c /\ AtMostOnce(toProgram, c) => p \notin Among(toProgram', c)
  BY <1>1, TailAmong
<1>3. ASSUME NEW c
      PROVE  /\ a.id # c =>
                  /\ Among(toDaemon', c) \subseteq Among(toDaemon, c)
                  /\ AtMostOnce(toDaemon, c) => AtMostOnce(toDaemon', c)
             /\ Among(toDaemon', c) \subseteq Among(toDaemon, c) \cup {p}
             /\ AtMostOnce(toDaemon, c) /\ p \notin Among(toDaemon, c) =>
                  AtMostOnce(toDaemon', c)
  <2> DEFINE r == [toDaemon EXCEPT ![p] = Append(@, a)]
  <2>1. /\ a.id # c =>
             /\ Among(r, c) \subseteq Among(toDaemon, c)
             /\ AtMostOnce(toDaemon, c) => AtMostOnce(r, c)
        /\ Among(r, c) \subseteq Among(toDaemon, c) \cup {p}
        /\ AtMostOnce(toDaemon, c) /\ p \notin Among(toDaemon, c) => AtMostOnce(r, c)
    BY <1>1, AppendAmong
  <2> QED
    BY <2>1 DEF Send
<1>4. OfSomebody'
  BY <1>2 DEF QInv, OfSomebody
<1>5. ASSUME NEW c \in Client, a.id # c PROVE Moves(c)
  BY <1>2, <1>3, <1>5, Shrinks DEF Moves, QInv, OneMessage
<1>6. ASSUME NEW c \in Client, a.id = c PROVE Moves(c)
  <2> DEFINE s == <<"toProgram", p>>
             t == <<"toDaemon", p>>
  <2>1. s \in Where(c) /\ s # t /\ s # <<"toDaemon", c>> /\ t \notin Elsewhere(c)
    BY <1>2, <1>6 DEF Where, Elsewhere
  <2>2. p \notin Among(toDaemon, c)
    BY <2>1, NoOther DEF QInv
  <2>3. Where(c)' \subseteq (Where(c) \ {s}) \cup {t}
    <3>1. AtMostOnce(toProgram, c)
      BY DEF QInv, OneMessage
    <3>2. /\ Among(toProgram', c) \subseteq Among(toProgram, c) \ {p}
          /\ Among(toDaemon', c) \subseteq Among(toDaemon, c) \cup {p}
      BY <1>2, <1>3, <1>6, <3>1
    <3> QED
      BY <3>2, GivenBack
  <2>4. AtMostOnce(toDaemon', c) /\ AtMostOnce(toProgram', c)
    BY <1>2, <1>3, <2>2 DEF QInv, OneMessage
  <2> HIDE DEF s, t
  <2> QED
    BY <2>1, <2>3, <2>4 DEF Moves
<1> QED
  BY <1>4, <1>5, <1>6

\* What is given to another client and is about c has come too late before.
LEMMA ClientReadsMoves ==
  ASSUME IInv, QInv, NEW d \in Program, ClientReads(d)
  PROVE  OfSomebody' /\ \A c \in Client : Moves(c)
<1> USE DEF networkVars
<1> DEFINE m == Head(toProgram[d])
<1>1. /\ d \in Client /\ toProgram[d] # <<>>
      /\ answer' = [answer EXCEPT ![d] = m]
      /\ Leave(d, Tail(toProgram[d])) /\ UNCHANGED <<toDaemon, networkVars>>
  BY DEF ClientReads
<1>2. \A x \in Client : answer'[x] = IF x = d THEN m ELSE answer[x]
  BY <1>1 DEF IInv, TypeOK
<1>3. toProgram \in [Program -> Seq(Sdu \cup ToRouter)]
  BY DEF IInv, TypeOK
<1>4. \A c : m.id = c => d \in Among(toProgram, c)
  BY <1>1, <1>3, TailAmong
<1> HIDE DEF m
<1>5. \A c : /\ Among(toProgram', c) \subseteq Among(toProgram, c) \ {d}
             /\ AtMostOnce(toProgram, c) => AtMostOnce(toProgram', c)
  BY <1>1, LeaveAmong
<1>6. OfSomebody'
  <2>1. m.id # Nobody
    BY <1>1, <1>4, ProgramAssumption DEF QInv, OfSomebody
  <2> QED
    BY <1>1, <1>2, <1>5, <2>1 DEF QInv, OfSomebody
<1>7. ASSUME NEW c \in Client, m.id # c PROVE Moves(c)
  BY <1>1, <1>2, <1>5, <1>7, Shrinks DEF Moves, QInv, OneMessage
<1>8. ASSUME NEW c \in Client, m.id = c PROVE Moves(c)
  <2> DEFINE s == <<"toProgram", d>>
             t == <<"answer", d>>
  <2>1. s \in Where(c) /\ s # <<"toDaemon", c>>
    BY <1>4, <1>8 DEF Where
  <2>2. t \in Elsewhere(c) => Superseded(c)
    <3>1. t \in Elsewhere(c) => s \in Elsewhere(c)
      BY DEF Elsewhere
    <3> QED
      BY <2>1, <3>1 DEF QInv, NotForOthers
  <2>3. Where(c)' \subseteq (Where(c) \ {s}) \cup {t}
    BY <1>1, <1>2, <1>5, Printed
  <2>4. AtMostOnce(toDaemon', c) /\ AtMostOnce(toProgram', c)
    BY <1>1, <1>5 DEF QInv, OneMessage
  <2> HIDE DEF s, t
  <2> QED
    BY <2>1, <2>2, <2>3, <2>4 DEF Moves
<1> QED
  BY <1>6, <1>7, <1>8

\* Whatever the ping application is told about another client comes too late.
LEMMA ToldTooLate ==
  ASSUME NEW c \in Client, Asked(c), NEW s \in Where(c), s # <<"toDaemon", c>>,
         NEW p \in Program \ {c}, conn[pingApplication] = p
  PROVE  Superseded(c)
BY DEF Asked, Known

\* The ping application gets what comes in, whoever it is about.
LEMMA HandleRawPacketMoves ==
  ASSUME IInv, QInv, NEW e \in batch, HandleRawPacket(e)
  PROVE  OfSomebody' /\ \A c \in Client : Moves(c)
<1> USE DEF programVars
<1> DEFINE p == conn[pingApplication]
<1>1. PICK m \in frames :
        /\ frames' = frames \ {m}
        /\ toProgram' = IF pingApplication = None THEN toProgram ELSE Written(p, m)
  BY DEF HandleRawPacket, FramesLeft
<1>2. UNCHANGED <<toDaemon, answer, out>>
  BY DEF HandleRawPacket
<1>3. m.id # Nobody /\ m \in Sdu
  BY DEF QInv, OfSomebody, IInv, TypeOK
<1>4. CASE toProgram' = toProgram
  <2>1. OfSomebody'
    BY <1>1, <1>2, <1>4 DEF QInv, OfSomebody
  <2>2. ASSUME NEW c \in Client PROVE Moves(c)
    BY <1>1, <1>2, <1>4, Shrinks DEF Moves, QInv, OneMessage
  <2> QED
    BY <2>1, <2>2
<1>5. CASE pingApplication # None /\ toProgram' = Written(p, m)
  <2>1. p \in Program /\ p \notin Router
    BY <1>5, ProgramAssumption DEF IInv, Descriptors, DescriptorsOfTheirKind, Program
  <2>2. m \in Told(p)
    BY <1>3, <2>1 DEF Told
  <2>3. ASSUME NEW c
        PROVE  /\ m.id # c =>
                    /\ Among(toProgram', c) \subseteq Among(toProgram, c)
                    /\ AtMostOnce(toProgram, c) => AtMostOnce(toProgram', c)
               /\ Among(toProgram', c) \subseteq Among(toProgram, c) \cup {p}
               /\ AtMostOnce(toProgram, c) /\ p \notin Among(toProgram, c) =>
                    AtMostOnce(toProgram', c)
    BY <1>5, <2>1, <2>2, WrittenAmong
  <2> HIDE DEF p
  <2>4. OfSomebody'
    BY <1>1, <1>2, <1>3, <2>3 DEF QInv, OfSomebody
  <2>5. ASSUME NEW c \in Client, m.id # c PROVE Moves(c)
    BY <1>1, <1>2, <2>3, <2>5, Shrinks DEF Moves, QInv, OneMessage
  <2>6. ASSUME NEW c \in Client, m.id = c PROVE Moves(c)
    <3> DEFINE s == <<"frames", m>>
               t == <<"toProgram", p>>
    <3>1. s \in Where(c) /\ s # t /\ s # <<"toDaemon", c>>
      BY <2>6 DEF Where
    <3>2. t \in Elsewhere(c) => Superseded(c)
      <4>1. t \in Elsewhere(c) => p # c
        BY DEF Elsewhere
      <4>2. p = conn[pingApplication] /\ Asked(c)
        BY DEF QInv, p
      <4> HIDE DEF s, t
      <4> QED
        BY <2>1, <3>1, <4>1, <4>2, ToldTooLate
    <3>3. p \notin Among(toProgram, c)
      BY <3>1, NoOther DEF QInv
    <3>4. Where(c)' \subseteq (Where(c) \ {s}) \cup {t}
      BY <1>1, <1>2, <2>3, Delivered
    <3>5. AtMostOnce(toDaemon', c) /\ AtMostOnce(toProgram', c)
      BY <1>2, <2>3, <3>3 DEF QInv, OneMessage
    <3> HIDE DEF s, t
    <3> QED
      BY <3>1, <3>2, <3>4, <3>5 DEF Moves
  <2> QED
    BY <2>4, <2>5, <2>6
<1> QED
  BY <1>1, <1>4, <1>5

\* What a read from p leaves, if it does not fail.
LEMMA ReadAmong ==
  ASSUME IInv, NEW p \in Program, TakesFrom(p), NEW c
  PROVE  /\ Fails(p) => toDaemon' = toDaemon /\ Read(p).id = Nobody
         /\ Among(toDaemon', c) \subseteq Among(toDaemon, c)
         /\ AtMostOnce(toDaemon, c) => AtMostOnce(toDaemon', c)
         /\ ~Fails(p) /\ Read(p).id = c => p \in Among(toDaemon, c)
         /\ ~Fails(p) /\ Read(p).id = c /\ AtMostOnce(toDaemon, c) =>
              p \notin Among(toDaemon', c)
<1>1. CASE Fails(p)
  BY <1>1 DEF TakesFrom, Read, Zeros
<1>2. CASE ~Fails(p)
  <2>1. /\ toDaemon[p] # <<>> /\ toDaemon' = [toDaemon EXCEPT ![p] = Tail(@)]
        /\ Read(p) = Head(toDaemon[p])
    BY <1>2 DEF TakesFrom, Fails, Read
  <2>2. toDaemon \in [Program -> Seq(FromAny)]
    BY DEF IInv, TypeOK
  <2> DEFINE r == [toDaemon EXCEPT ![p] = Tail(@)]
  <2>3. /\ Among(r, c) \subseteq Among(toDaemon, c)
        /\ AtMostOnce(toDaemon, c) => AtMostOnce(r, c)
        /\ Head(toDaemon[p]).id = c => p \in Among(toDaemon, c)
        /\ Head(toDaemon[p]).id = c /\ AtMostOnce(toDaemon, c) => p \notin Among(r, c)
    BY <2>1, <2>2, TailAmong
  <2> QED
    BY <1>2, <2>1, <2>3
<1> QED
  BY <1>1, <1>2

\* The answer of the routing daemon sends the message out.
LEMMA HandleRoutingPacketMoves ==
  ASSUME IInv, QInv, NEW e \in batch, HandleRoutingPacket(e)
  PROVE  OfSomebody' /\ \A c \in Client : Moves(c)
<1> USE DEF programVars
<1> DEFINE p == conn[routingApplication]
           m == Read(p)
           k == [type |-> m.msg, id |-> m.id]
<1>1. /\ TakesFrom(p) /\ UNCHANGED <<toProgram, answer, frames>>
      /\ out' = out \/ (m.id # Nobody /\ out' = out \cup {k})
      /\ e.fd = routingApplication
  BY DEF HandleRoutingPacket
<1>2. p \in Program /\ p \notin Client
  <2>1. e.fd # None
    BY Constants DEF IInv, TypeOK, Event
  <2> QED
    BY <1>1, <2>1, ProgramAssumption
       DEF IInv, Descriptors, DescriptorsOfTheirKind, Program
<1>3. ASSUME NEW c
      PROVE  /\ Fails(p) => m.id = Nobody
             /\ Among(toDaemon', c) \subseteq Among(toDaemon, c)
             /\ AtMostOnce(toDaemon, c) => AtMostOnce(toDaemon', c)
             /\ ~Fails(p) /\ m.id = c => p \in Among(toDaemon, c)
             /\ ~Fails(p) /\ m.id = c /\ AtMostOnce(toDaemon, c) =>
                  p \notin Among(toDaemon', c)
  BY <1>1, <1>2, ReadAmong
<1>4. k.id = m.id
  OBVIOUS
<1> HIDE DEF p, m, k
<1>5. OfSomebody'
  BY <1>1, <1>4 DEF QInv, OfSomebody
<1>6. ASSUME NEW c \in Client, m.id # c PROVE Moves(c)
  BY <1>1, <1>3, <1>4, <1>6, Shrinks DEF Moves, QInv, OneMessage
<1>7. ASSUME NEW c \in Client, m.id = c PROVE Moves(c)
  <2> DEFINE s == <<"toDaemon", p>>
             t == <<"out", k>>
  <2>1. AtMostOnce(toDaemon, c) /\ AtMostOnce(toProgram, c)
    BY DEF QInv, OneMessage
  <2>2. ~Fails(p)
    BY <1>3, <1>7, ProgramAssumption DEF Program
  <2>3. s \in Where(c) /\ s # <<"toDaemon", c>> /\ t \notin Elsewhere(c)
    BY <1>2, <1>3, <1>7, <2>2 DEF Where, Elsewhere
  <2>4. Among(toDaemon', c) \subseteq Among(toDaemon, c) \ {p}
    BY <1>3, <1>7, <2>1, <2>2
  <2>5. Where(c)' \subseteq (Where(c) \ {s}) \cup {t}
    BY <1>1, <2>4, SentOut
  <2> HIDE DEF s, t
  <2> QED
    BY <1>1, <1>3, <2>1, <2>3, <2>5 DEF Moves
<1> QED
  BY <1>5, <1>6, <1>7

\* The daemon passes the question on, back to the ping application or to the
\* routing daemon.
LEMMA HandleApplicationPacketMoves ==
  ASSUME IInv, QInv, NEW e \in batch, HandleApplicationPacket(e)
  PROVE  OfSomebody' /\ \A c \in Client : Moves(c)
<1> USE DEF programVars, networkVars
<1> DEFINE p == conn[pingApplication]
           r == conn[routingApplication]
           m == Read(p)
<1>1. /\ TakesFrom(p) /\ UNCHANGED <<answer, frames, out>>
      /\ e.fd = pingApplication
      /\ \/ toProgram' = toProgram
         \/ m.id \in ToSelf /\ toProgram' = Written(p, m)
         \/ routingApplication # None /\ toProgram' = Written(r, Request(m))
  BY DEF HandleApplicationPacket
<1>2. p \in Program /\ p \notin Router /\ pingApplication # None /\ ~New(p)
  <2>1. e.fd # None /\ daemon = "loop"
    BY Constants DEF IInv, TypeOK, Event, HandleApplicationPacket, Take
  <2> QED
    BY <1>1, <2>1, ProgramAssumption, ApplicationsKnown
       DEF IInv, Descriptors, DescriptorsOfTheirKind, Program
<1>3. ASSUME NEW c
      PROVE  /\ Fails(p) => m.id = Nobody
             /\ Among(toDaemon', c) \subseteq Among(toDaemon, c)
             /\ AtMostOnce(toDaemon, c) => AtMostOnce(toDaemon', c)
             /\ ~Fails(p) /\ m.id = c => p \in Among(toDaemon, c)
             /\ ~Fails(p) /\ m.id = c /\ AtMostOnce(toDaemon, c) =>
                  p \notin Among(toDaemon', c)
  BY <1>1, <1>2, ReadAmong
<1>4. m \in Sdu
  <2>1. Read(p) \in Says(p) \cup {Zeros}
    BY <1>1, <1>2, TakesFromSound
  <2> QED
    BY <1>2, <2>1 DEF Says, Zeros, Sdu, SduType, Id
<1>5. routingApplication # None =>
        /\ r \in Router /\ Request(m) \in Told(r) /\ Request(m).id = m.id
  <2>1. routingApplication # None => r \in Router
    BY DEF IInv, Descriptors, DescriptorsOfTheirKind
  <2>2. Request(m).id = m.id
    BY DEF Request
  <2> HIDE DEF m, r
  <2>3. Request(m) \in ToRouter
    BY <1>4 DEF ToRouter, Request, Sdu
  <2> QED
    BY <2>1, <2>2, <2>3 DEF Told
\* The message goes to x, if it goes to anybody.
<1>6. \/ toProgram' = toProgram
      \/ \E x \in Program :
           /\ (x = p /\ m.id # Nobody) \/ x \in Router
           /\ \A c : /\ m.id # c =>
                          /\ Among(toProgram', c) \subseteq Among(toProgram, c)
                          /\ AtMostOnce(toProgram, c) => AtMostOnce(toProgram', c)
                     /\ Among(toProgram', c) \subseteq Among(toProgram, c) \cup {x}
                     /\ AtMostOnce(toProgram, c) /\ x \notin Among(toProgram, c) =>
                          AtMostOnce(toProgram', c)
  <2> HIDE DEF p, r, m
  <2>1. CASE m.id \in ToSelf /\ toProgram' = Written(p, m)
    <3>1. m.id # Nobody
      BY <2>1, ProgramAssumption DEF Program
    <3>2. m \in Told(p)
      BY <1>2, <1>4 DEF Told
    <3> QED
      BY <1>2, <2>1, <3>1, <3>2, WrittenAmong
  <2>2. CASE routingApplication # None /\ toProgram' = Written(r, Request(m))
    <3>1. r \in Program
      BY <1>5, <2>2 DEF Program
    <3> QED
      BY <1>5, <2>2, <3>1, WrittenAmong
  <2> QED
    BY <1>1, <2>1, <2>2
<1>7. p = conn[pingApplication]
  OBVIOUS
<1> HIDE DEF p, m, r
<1>8. CASE toProgram' = toProgram
  <2>1. OfSomebody'
    BY <1>1, <1>8 DEF QInv, OfSomebody
  <2>2. ASSUME NEW c \in Client PROVE Moves(c)
    BY <1>1, <1>3, <1>8, Shrinks DEF Moves, QInv, OneMessage
  <2> QED
    BY <2>1, <2>2
<1>9. ASSUME NEW x \in Program, (x = p /\ m.id # Nobody) \/ x \in Router,
             \A c : /\ m.id # c =>
                         /\ Among(toProgram', c) \subseteq Among(toProgram, c)
                         /\ AtMostOnce(toProgram, c) => AtMostOnce(toProgram', c)
                    /\ Among(toProgram', c) \subseteq Among(toProgram, c) \cup {x}
                    /\ AtMostOnce(toProgram, c) /\ x \notin Among(toProgram, c) =>
                         AtMostOnce(toProgram', c)
      PROVE  OfSomebody' /\ \A c \in Client : Moves(c)
  <2>1. OfSomebody'
    <3>1. Among(toProgram', Nobody) \subseteq Router
      BY <1>9 DEF QInv, OfSomebody
    <3> QED
      BY <1>1, <3>1 DEF QInv, OfSomebody
  <2>2. ASSUME NEW c \in Client, m.id # c PROVE Moves(c)
    BY <1>1, <1>3, <1>9, <2>2, Shrinks DEF Moves, QInv, OneMessage
  <2>3. ASSUME NEW c \in Client, m.id = c PROVE Moves(c)
    <3> DEFINE s == <<"toDaemon", p>>
               t == <<"toProgram", x>>
    <3>1. OneMessage(c) /\ Asked(c) /\ AtMostOnce(toDaemon, c) /\ AtMostOnce(toProgram, c)
      BY DEF QInv, OneMessage
    <3>2. ~Fails(p)
      BY <1>3, <2>3, ProgramAssumption DEF Program
    <3>3. s \in Where(c) /\ s # t
      BY <1>3, <2>3, <3>2 DEF Where
    <3>4. s = <<"toDaemon", c>> => Known(c)
      BY <1>2, <1>7 DEF Known
    <3>5. t \in Elsewhere(c) => Superseded(c)
      <4>1. t \in Elsewhere(c) => x # c /\ x \in Client
        BY DEF Elsewhere
      <4>2. t \in Elsewhere(c) => x = p /\ p # c /\ s # <<"toDaemon", c>>
        BY <1>9, <4>1, ProgramAssumption
      <4> HIDE DEF s, t
      <4> QED
        BY <1>2, <1>7, <3>1, <3>3, <4>2, ToldTooLate
    <3>6. x \notin Among(toProgram, c)
      BY <3>1, <3>3, NoOther
    <3>7. Among(toDaemon', c) \subseteq Among(toDaemon, c) \ {p}
      BY <1>3, <2>3, <3>1, <3>2
    <3>8. Where(c)' \subseteq (Where(c) \ {s}) \cup {t}
      BY <1>1, <1>9, <3>7, PassedOn
    <3>9. AtMostOnce(toDaemon', c) /\ AtMostOnce(toProgram', c)
      BY <1>3, <1>9, <3>1, <3>6
    <3> HIDE DEF s, t
    <3> QED
      BY <3>3, <3>4, <3>5, <3>8, <3>9 DEF Moves
  <2> QED
    BY <2>1, <2>2, <2>3
<1> QED
  BY <1>6, <1>8, <1>9

\* A handshake is about nobody.
LEMMA ReadHandshakeMoves ==
  ASSUME IInv, QInv, ReadHandshake
  PROVE  OfSomebody' /\ \A c \in Client : Moves(c)
<1> USE DEF programVars, networkVars
<1> DEFINE p == conn[tempApplication]
<1>1. /\ daemon = "handshake" /\ toDaemon[p] # <<>>
      /\ toDaemon' = [toDaemon EXCEPT ![p] = Tail(@)]
      /\ toProgram' = toProgram \/ (p \in Router /\ toProgram' = Written(p, Reply))
      /\ UNCHANGED <<answer, frames, out>>
  BY DEF ReadHandshake
<1>2. p \in Program
  BY <1>1 DEF IInv, TypeOK, Descriptors
<1> HIDE DEF p
<1>3. ASSUME NEW c
      PROVE  /\ Among(toDaemon', c) \subseteq Among(toDaemon, c)
             /\ AtMostOnce(toDaemon, c) => AtMostOnce(toDaemon', c)
  <2> DEFINE r == [toDaemon EXCEPT ![p] = Tail(@)]
  <2>1. toDaemon \in [Program -> Seq(FromAny)]
    BY DEF IInv, TypeOK
  <2>2. /\ Among(r, c) \subseteq Among(toDaemon, c)
        /\ AtMostOnce(toDaemon, c) => AtMostOnce(r, c)
    BY <1>1, <1>2, <2>1, TailAmong
  <2> QED
    BY <1>1, <2>2
<1>4. ASSUME NEW c, c # Nobody
      PROVE  /\ Among(toProgram', c) \subseteq Among(toProgram, c)
             /\ AtMostOnce(toProgram, c) => AtMostOnce(toProgram', c)
  <2>1. CASE toProgram' = toProgram
    BY <2>1
  <2>2. CASE p \in Router /\ toProgram' = Written(p, Reply)
    <3>1. Reply \in Told(p) /\ Reply.id = Nobody
      BY <2>2 DEF Told, ToRouter, Reply
    <3> QED
      BY <1>2, <1>4, <2>2, <3>1, WrittenAmong
  <2> QED
    BY <1>1, <2>1, <2>2
<1>5. Among(toProgram', Nobody) \subseteq Among(toProgram, Nobody) \cup Router
  <2>1. CASE toProgram' = toProgram
    BY <2>1
  <2>2. CASE p \in Router /\ toProgram' = Written(p, Reply)
    <3>1. Reply \in Told(p)
      BY <2>2 DEF Told, ToRouter
    <3>2. Among(toProgram', Nobody) \subseteq Among(toProgram, Nobody) \cup {p}
      BY <1>2, <2>2, <3>1, WrittenAmong
    <3> QED
      BY <2>2, <3>2
  <2> QED
    BY <1>1, <2>1, <2>2
<1>6. OfSomebody'
  BY <1>1, <1>5 DEF QInv, OfSomebody
<1>7. ASSUME NEW c \in Client PROVE Moves(c)
  <2>1. c # Nobody
    BY ProgramAssumption DEF Program
  <2> QED
    BY <1>1, <1>3, <1>4, <2>1, Shrinks DEF Moves, QInv, OneMessage
<1> QED
  BY <1>6, <1>7

\* So it is when it is sent.
LEMMA SendHandshakeMoves ==
  ASSUME IInv, QInv, NEW p \in Program, SendHandshake(p)
  PROVE  OfSomebody' /\ \A c \in Client : Moves(c)
<1> USE DEF networkVars
<1>1. /\ UNCHANGED <<toProgram, answer, frames, out>>
      /\ toDaemon' = [toDaemon EXCEPT ![p] = Append(@, Handshake)]
  BY DEF SendHandshake, Send
<1>2. toDaemon \in [Program -> Seq(FromAny)] /\ Handshake \in FromAny
  BY DEF IInv, TypeOK, FromAny
<1>3. ASSUME NEW c \in Client
      PROVE  /\ Among(toDaemon', c) \subseteq Among(toDaemon, c)
             /\ AtMostOnce(toDaemon, c) => AtMostOnce(toDaemon', c)
  <2> DEFINE r == [toDaemon EXCEPT ![p] = Append(@, Handshake)]
  <2>1. Handshake.id # c
    BY ProgramAssumption DEF Handshake, Program
  <2>2. /\ Among(r, c) \subseteq Among(toDaemon, c)
        /\ AtMostOnce(toDaemon, c) => AtMostOnce(r, c)
    BY <1>2, <2>1, AppendAmong
  <2> QED
    BY <1>1, <2>2
<1>4. OfSomebody'
  BY <1>1 DEF QInv, OfSomebody
<1>5. ASSUME NEW c \in Client PROVE Moves(c)
  BY <1>1, <1>3, Shrinks DEF Moves, QInv, OneMessage
<1> QED
  BY <1>4, <1>5

\* Another host answers.
LEMMA RemoteMoves ==
  ASSUME IInv, QInv, RemoteStep \/ \E x \in RemoteClient : RemotePings(x)
  PROVE  OfSomebody' /\ \A c \in Client : Moves(c)
<1> USE DEF programVars, socketVars
<1>1. UNCHANGED <<toDaemon, toProgram, answer>>
  <2>1. CASE \E x \in RemoteClient : RemotePings(x)
    BY <2>1 DEF RemotePings
  <2>2. CASE RemoteStep
    BY <2>2 DEF RemoteStep, RemoteAnswers, RemoteReads
  <2> QED
    BY <2>1, <2>2
<1>2. CASE /\ \A m \in frames' : m \in frames \/ m.id \in RemoteClient
           /\ out' \subseteq out
  <2>1. OfSomebody'
    BY <1>1, <1>2, ProgramAssumption DEF QInv, OfSomebody
  <2>2. ASSUME NEW c \in Client PROVE Moves(c)
    <3>1. \A m \in frames' : m.id = c => m \in frames
      BY <1>2, ProgramAssumption DEF Program
    <3> QED
      BY <1>1, <1>2, <3>1, Shrinks DEF Moves, QInv, OneMessage
  <2> QED
    BY <2>1, <2>2
<1>3. ASSUME NEW m \in out, m.id \in Client, out' = out \ {m},
             frames' = frames \cup {Pong(m.id)}
      PROVE  OfSomebody' /\ \A c \in Client : Moves(c)
  <2> DEFINE k == Pong(m.id)
  <2>1. k.id = m.id
    BY DEF Pong
  <2> HIDE DEF k
  <2>2. frames' = frames \cup {k}
    BY <1>3 DEF k
  <2>3. OfSomebody'
    BY <1>1, <1>3, <2>1, <2>2 DEF QInv, OfSomebody
  <2>4. ASSUME NEW c \in Client, m.id # c PROVE Moves(c)
    BY <1>1, <1>3, <2>1, <2>2, <2>4, Shrinks DEF Moves, QInv, OneMessage
  <2>5. ASSUME NEW c \in Client, m.id = c PROVE Moves(c)
    <3> DEFINE s == <<"out", m>>
               t == <<"frames", k>>
    <3>1. s \in Where(c) /\ s # <<"toDaemon", c>> /\ t \notin Elsewhere(c)
      BY <2>5 DEF Where, Elsewhere
    <3>2. Where(c)' \subseteq (Where(c) \ {s}) \cup {t}
      BY <1>1, <1>3, <2>2, Answered
    <3> HIDE DEF s, t
    <3> QED
      BY <1>1, <3>1, <3>2 DEF Moves, QInv, OneMessage
  <2> QED
    BY <2>3, <2>4, <2>5
<1>4. CASE \E x \in RemoteClient : RemotePings(x)
  BY <1>2, <1>4 DEF RemotePings, Ping
<1>5. ASSUME NEW m \in out, RemoteReads(m)
      PROVE  OfSomebody' /\ \A c \in Client : Moves(c)
  BY <1>2, <1>5 DEF RemoteReads
<1>6. ASSUME NEW m \in out, RemoteAnswers(m)
      PROVE  OfSomebody' /\ \A c \in Client : Moves(c)
  BY <1>3, <1>6 DEF RemoteAnswers
<1> QED
  BY <1>4, <1>5, <1>6 DEF RemoteStep

\* The steps of the programs, but for the question itself.
LEMMA ProgramMoves ==
  ASSUME IInv, QInv, NEW p \in Program,
         Connect(p) \/ ProgramStep(p) \/ Die(p), ~SendPing(p)
  PROVE  OfSomebody' /\ \A c \in Client : Moves(c)
<1> USE DEF networkVars
<1>1. CASE Connect(p)
  <2>1. UNCHANGED <<toDaemon, toProgram, answer, frames, out>>
    BY <1>1 DEF Connect
  <2>2. OfSomebody'
    BY <2>1 DEF QInv, OfSomebody
  <2>3. \A c \in Client : Moves(c)
    BY <2>1, Shrinks DEF Moves, QInv, OneMessage
  <2> QED
    BY <2>2, <2>3
<1>2. CASE ClientTimesOut(p) \/ Die(p)
  <2>1. Leave(p, toProgram[p]) /\ UNCHANGED <<toDaemon, answer, frames, out>>
    BY <1>2 DEF ClientTimesOut, Die
  <2>2. \A c : /\ Among(toProgram', c) \subseteq Among(toProgram, c)
               /\ AtMostOnce(toProgram, c) => AtMostOnce(toProgram', c)
    BY <2>1, LeaveAmong
  <2>3. OfSomebody'
    BY <2>1, <2>2 DEF QInv, OfSomebody
  <2>4. \A c \in Client : Moves(c)
    BY <2>1, <2>2, Shrinks DEF Moves, QInv, OneMessage
  <2> QED
    BY <2>3, <2>4
<1>3. CASE SendHandshake(p)
  BY <1>3, SendHandshakeMoves
<1>4. CASE ClientReads(p)
  BY <1>4, ClientReadsMoves
<1>5. CASE ServerReads(p)
  <2> DEFINE a == Pong(Head(toProgram[p]).id)
  <2>1. toProgram[p] \in Seq(Sdu) /\ toProgram[p] # <<>>
    BY <1>5, ProgramAssumption DEF ServerReads, IInv, Protocol, Told
  <2>2. Head(toProgram[p]) \in Sdu
    BY <2>1, HeadTailProperties
  <2>3. a \in FromAny /\ a.id = Head(toProgram[p]).id
    BY <2>2 DEF FromAny, Pong, Sdu, SduType
  <2>4. Send(p, a) /\ toProgram' = [toProgram EXCEPT ![p] = Tail(@)]
    BY <1>5 DEF ServerReads
  <2>5. UNCHANGED <<answer, networkVars>>
    BY <1>5 DEF ServerReads, programVars
  <2> HIDE DEF a
  <2> QED
    BY <2>1, <2>3, <2>4, <2>5, GivesBackMoves
<1>6. CASE RouterReads(p)
  <2> DEFINE m == Head(toProgram[p])
             a == IF m = Reply THEN Routing ELSE Response(m)
  <2>1. toProgram[p] \in Seq(ToRouter) /\ toProgram[p] # <<>>
    BY <1>6 DEF RouterReads, IInv, Protocol, Told
  <2>2. m \in ToRouter
    BY <2>1, HeadTailProperties
  <2>3. a \in FromAny /\ a.id = m.id
    <3> HIDE DEF m
    <3> QED
      BY <2>2 DEF FromAny, ToRouter, Reply, Routing, Response
  <2>4. Send(p, a) /\ toProgram' = [toProgram EXCEPT ![p] = Tail(@)]
    BY <1>6 DEF RouterReads
  <2>5. UNCHANGED <<answer, networkVars>>
    BY <1>6 DEF RouterReads, programVars
  <2> HIDE DEF a
  <2> QED
    BY <2>1, <2>3, <2>4, <2>5, GivesBackMoves
<1> QED
  BY <1>1, <1>2, <1>3, <1>4, <1>5, <1>6 DEF ProgramStep

\* A question is asked, and there has been no message about it before.
LEMMA SendPingMoves ==
  ASSUME IInv, QInv, NEW p \in Program, SendPing(p)
  PROVE  /\ OfSomebody' /\ \A c \in Client \ {p} : Moves(c)
         /\ OneMessage(p)' /\ Asked(p)' /\ NotForOthers(p)'
<1> USE DEF networkVars
<1>1. /\ p \in Client /\ phase[p] = "greeted" /\ phase' = [phase EXCEPT ![p] = "running"]
      /\ UNCHANGED <<toProgram, answer, frames, out>>
      /\ toDaemon' = [toDaemon EXCEPT ![p] = Append(@, Ping(p))]
  BY DEF SendPing, Send
<1>2. toDaemon \in [Program -> Seq(FromAny)] /\ Ping(p) \in FromAny /\ Ping(p).id = p
  BY <1>1 DEF IInv, TypeOK, FromAny, Ping, Sdu, SduType, Id
<1>3. ASSUME NEW c
      PROVE  /\ p # c =>
                  /\ Among(toDaemon', c) \subseteq Among(toDaemon, c)
                  /\ AtMostOnce(toDaemon, c) => AtMostOnce(toDaemon', c)
             /\ Among(toDaemon', c) \subseteq Among(toDaemon, c) \cup {p}
             /\ AtMostOnce(toDaemon, c) /\ p \notin Among(toDaemon, c) =>
                  AtMostOnce(toDaemon', c)
  <2> DEFINE m == Ping(p)
             r == [toDaemon EXCEPT ![p] = Append(@, m)]
  <2> HIDE DEF m
  <2>1. m \in FromAny /\ m.id = p
    BY <1>2 DEF m
  <2>2. /\ m.id # c => /\ Among(r, c) \subseteq Among(toDaemon, c)
                       /\ AtMostOnce(toDaemon, c) => AtMostOnce(r, c)
        /\ Among(r, c) \subseteq Among(toDaemon, c) \cup {p}
        /\ AtMostOnce(toDaemon, c) /\ p \notin Among(toDaemon, c) => AtMostOnce(r, c)
    BY ZenonT(30), <1>2, <2>1, AppendAmong
  <2> QED
    BY <1>1, <2>1, <2>2 DEF m
<1>4. OfSomebody'
  BY <1>1 DEF QInv, OfSomebody
<1>5. ASSUME NEW c \in Client \ {p} PROVE Moves(c)
  BY <1>1, <1>3, Shrinks DEF Moves, QInv, OneMessage
<1>6. Where(p) = {} /\ AtMostOnce(toDaemon, p) /\ AtMostOnce(toProgram, p)
  BY <1>1 DEF QInv, OneMessage
<1>7. p \notin Among(toDaemon, p)
  <2>1. p \in Among(toDaemon, p) => <<"toDaemon", p>> \in Where(p)
    BY DEF Where
  <2> QED
    BY <1>6, <2>1
<1>8. Where(p)' \subseteq {<<"toDaemon", p>>}
  <2>1. Among(toDaemon', p) \subseteq Among(toDaemon, p) \cup {p}
    BY <1>3
  <2>2. Where(p)' \subseteq Where(p) \cup {<<"toDaemon", p>>}
    BY <1>1, <2>1, AskedFirst
  <2> QED
    BY <1>6, <2>2
<1>9. phase'[p] = "running"
  BY <1>1 DEF IInv, TypeOK
<1>10. OneMessage(p)'
  BY <1>1, <1>3, <1>6, <1>7, <1>8, <1>9 DEF OneMessage
<1>11. Asked(p)' /\ NotForOthers(p)'
  BY <1>8 DEF Asked, NotForOthers, Elsewhere
<1> QED
  BY <1>4, <1>5, <1>10, <1>11

\* The other steps of the daemon say and read nothing.
LEMMA SilentMoves ==
  ASSUME QInv, UNCHANGED <<toDaemon, toProgram, answer, frames, out>>
  PROVE  OfSomebody' /\ \A c \in Client : Moves(c)
<1>1. OfSomebody'
  BY DEF QInv, OfSomebody
<1>2. \A c \in Client : Moves(c)
  BY Shrinks DEF Moves, QInv, OneMessage
<1> QED
  BY <1>1, <1>2

LEMMA QInitSound == Init => QInv
<1> SUFFICES ASSUME Init PROVE QInv
  OBVIOUS
<1>1. \A p \in Program : DOMAIN toDaemon[p] = {} /\ DOMAIN toProgram[p] = {}
  <2>1. DOMAIN <<>> = {}
    BY EmptySeq, LenProperties
  <2> QED
    BY <2>1 DEF Init
<1>2. \A c : Among(toDaemon, c) = {} /\ Among(toProgram, c) = {}
  BY <1>1 DEF Among
<1>3. OfSomebody
  BY <1>2 DEF OfSomebody, Init
<1>4. ASSUME NEW c \in Client PROVE Where(c) = {}
  <2>1. Nobody # c /\ NoMessage.id = Nobody
    BY ProgramAssumption DEF Program, NoMessage
  <2>2. \A x \in Client : answer[x].id # c
    BY <2>1 DEF Init
  <2> QED
    BY <1>2, <2>2 DEF Where, Init
<1>5. \A c : AtMostOnce(toDaemon, c) /\ AtMostOnce(toProgram, c)
  BY <1>1 DEF AtMostOnce
<1> QED
  BY <1>3, <1>4, <1>5 DEF QInv, OneMessage, Asked, NotForOthers

LEMMA QNextSound == IInv /\ QInv /\ [Next]_vars => QInv'
<1> SUFFICES ASSUME IInv, QInv, [Next]_vars PROVE QInv'
  OBVIOUS
<1> USE DEF programVars, socketVars, daemonVars, applications, networkVars
<1>1. ASSUME OfSomebody', \A c \in Client : Moves(c) PROVE QInv'
  <2>1. ASSUME NEW c \in Client PROVE OneMessage(c)' /\ Asked(c)' /\ NotForOthers(c)'
    BY <1>1, KnownStays, MovedSound DEF Moves, QInv
  <2> QED
    BY <1>1, <2>1 DEF QInv
<1>2. ASSUME NEW p \in Program, SendPing(p) PROVE QInv'
  <2>1. ASSUME NEW c \in Client PROVE OneMessage(c)' /\ Asked(c)' /\ NotForOthers(c)'
    <3>1. CASE c = p
      BY <1>2, <3>1, SendPingMoves
    <3>2. CASE c # p
      <4>1. Moves(c)
        BY <1>2, <3>2, SendPingMoves
      <4> QED
        BY <4>1, KnownStays, MovedSound DEF Moves, QInv
    <3> QED
      BY <3>1, <3>2
  <2> QED
    BY <1>2, <2>1, SendPingMoves DEF QInv
<1>3. ASSUME NEW p \in Program, Connect(p) \/ ProgramStep(p) \/ Die(p), ~SendPing(p)
      PROVE  QInv'
  BY <1>1, <1>3, ProgramMoves
<1>4. CASE UNCHANGED <<toDaemon, toProgram, answer, frames, out>>
  BY <1>1, <1>4, SilentMoves
<1>5. CASE EpollWait \/ ReadNoHandshake
  BY <1>4, <1>5 DEF EpollWait, ReadNoHandshake
<1>6. CASE ReadHandshake
  BY <1>1, <1>6, ReadHandshakeMoves
<1>7. ASSUME NEW e \in batch, Accept(e) \/ HandleHangup(e) \/ PassOver(e) PROVE QInv'
  BY <1>4, <1>7 DEF Accept, HandleHangup, PassOver
<1>8. ASSUME NEW e \in batch,
             \/ HandleApplicationPacket(e) \/ HandleRoutingPacket(e)
             \/ HandleRawPacket(e)
      PROVE  QInv'
  BY <1>1, <1>8, HandleApplicationPacketMoves, HandleRoutingPacketMoves,
     HandleRawPacketMoves
<1>9. CASE RemoteStep \/ \E x \in RemoteClient : RemotePings(x)
  BY <1>1, <1>9, RemoteMoves
<1>10. CASE UNCHANGED vars
  BY <1>4, <1>10 DEF vars
<1> QED
  BY <1>2, <1>3, <1>5, <1>6, <1>7, <1>8, <1>9, <1>10 DEF Next, DaemonStep

\* What a client prints is about its own question, or of another host's, or comes
\* too late for the client it is about.
LEMMA AnswerSound == IInv /\ QInv => AnswerIsToTheQuestion
<1> SUFFICES ASSUME IInv, QInv, NEW c \in Client, answer[c] # NoMessage,
                    answer[c].id # c, answer[c].id \notin RemoteClient
             PROVE  TooLate(answer[c].id)
  BY DEF AnswerIsToTheQuestion
<1> DEFINE d == answer[c].id
<1>1. d \in Client
  <2>1. d \in Id /\ d # Nobody
    <3>1. answer[c] \in Sdu
      BY DEF IInv, TypeOK
    <3> QED
      BY <3>1 DEF Sdu, QInv, OfSomebody
  <2> QED
    BY <2>1 DEF Id
<1>2. <<"answer", c>> \in Where(d) /\ <<"answer", c>> \in Elsewhere(d)
  BY DEF Where, Elsewhere
<1>3. Superseded(d)
  BY <1>1, <1>2 DEF QInv, NotForOthers
<1>4. answer[d].id # d
  <2>1. answer[d].id = d => <<"answer", d>> \in Where(d)
    BY <1>1 DEF Where
  <2> HIDE DEF d
  <2>2. answer[d].id = d => <<"answer", d>> = <<"answer", c>>
    BY <1>1, <1>2, <2>1 DEF QInv, OneMessage
  <2> QED
    BY <2>2 DEF d
<1> QED
  BY <1>3, <1>4 DEF TooLate, Superseded

\* What a client takes for the answer to its question is that, or a question of
\* another host, or the answer that a client before it did not get in time.
THEOREM AnswersAreToTheQuestion == Spec => []AnswerIsToTheQuestion
<1>1. Spec => []QInv
  BY QInitSound, QNextSound, SpecSound, PTL DEF Spec
<1> QED
  BY <1>1, AnswerSound, SpecSound, PTL
=============================================================================

------------------------- MODULE IrcConnectionProofs -------------------------
(***************************************************************************)
(* Proofs about a network's connection (module IrcConnection) for every    *)
(* kind of server, queue size, burst and number of messages.               *)
(***************************************************************************)
EXTENDS IrcConnection, SequenceTheorems, TLAPS

-----------------------------------------------------------------------------
(* Pieces of sequences.                                                    *)

LEMMA TailOf ==
  ASSUME NEW S, NEW s \in Seq(S), s # << >>
  PROVE  /\ Tail(s) \in Seq(S) /\ Len(Tail(s)) = Len(s) - 1 /\ Len(s) \in Nat \ {0}
         /\ s[1] \in S /\ Head(s) = s[1]
         /\ \A i \in 1..(Len(s) - 1) : Tail(s)[i] = s[i + 1]
<1>1. Len(s) \in Nat \ {0}
  BY EmptySeq, LenProperties
<1>2. s[1] \in S
  BY <1>1, ElementOfSeq
<1> QED BY <1>1, <1>2, HeadTailProperties

LEMMA PieceOf ==
  ASSUME NEW S, NEW s \in Seq(S), NEW a \in Nat \ {0}, NEW b \in 0..Len(s), a <= b + 1
  PROVE  /\ SubSeq(s, a, b) \in Seq(S) /\ Len(SubSeq(s, a, b)) = (b - a) + 1
         /\ \A i \in 1..((b - a) + 1) : SubSeq(s, a, b)[i] = s[(a + i) - 1]
<1>1. Len(s) \in Nat
  BY LenProperties
<1>2. \A i \in a..b : s[i] \in S
  BY <1>1, ElementOfSeq
<1> QED BY <1>1, <1>2, SubSeqProperties

\* The elements after the first d of s, up to the n-th.
LEMMA CutOf ==
  ASSUME NEW S, NEW s \in Seq(S), NEW n \in 0..Len(s), NEW d \in 0..n
  PROVE  /\ SubSeq(s, d + 1, n) \in Seq(S) /\ Len(SubSeq(s, d + 1, n)) = n - d
         /\ \A i \in 1..(n - d) : SubSeq(s, d + 1, n)[i] = s[d + i] /\ d + i \in 1..Len(s)
<1>1. Len(s) \in Nat /\ n \in Nat /\ d \in Nat /\ d + 1 \in Nat \ {0} /\ d + 1 <= n + 1
  BY LenProperties
<1>2. (n - (d + 1)) + 1 = n - d
  BY <1>1
<1>3. \A i \in 1..(n - d) : ((d + 1) + i) - 1 = d + i /\ d + i \in 1..Len(s)
  BY <1>1
<1> QED BY <1>1, <1>2, <1>3, PieceOf

\* The first n elements of s.
LEMMA FirstOf ==
  ASSUME NEW S, NEW s \in Seq(S), NEW n \in 0..Len(s)
  PROVE  /\ SubSeq(s, 1, n) \in Seq(S) /\ Len(SubSeq(s, 1, n)) = n
         /\ \A i \in 1..n : SubSeq(s, 1, n)[i] = s[i] /\ i \in 1..Len(s)
<1>1. n \in Nat /\ Len(s) \in Nat
  BY LenProperties
<1>2. 0 + 1 = 1 /\ n - 0 = n /\ 0 \in 0..n /\ \A i \in 1..n : 0 + i = i
  BY <1>1
<1> QED BY <1>1, <1>2, CutOf

LEMMA JoinOf ==
  ASSUME NEW S, NEW s \in Seq(S), NEW t \in Seq(S)
  PROVE  /\ s \o t \in Seq(S) /\ Len(s) \in Nat /\ Len(t) \in Nat
         /\ Len(s \o t) = Len(s) + Len(t)
         /\ \A i \in 1..Len(s) : (s \o t)[i] = s[i]
         /\ \A i \in 1..Len(t) : (s \o t)[Len(s) + i] = t[i]
<1>1. Len(s) \in Nat /\ Len(t) \in Nat
  BY LenProperties
<1>2. \A i \in 1..(Len(s) + Len(t)) : (s \o t)[i] = IF i <= Len(s) THEN s[i] ELSE t[i - Len(s)]
  BY ConcatProperties
<1>3. \A i \in 1..Len(t) : Len(s) + i \in 1..(Len(s) + Len(t)) /\ ~(Len(s) + i <= Len(s))
                            /\ (Len(s) + i) - Len(s) = i
  BY <1>1
<1> QED BY <1>1, <1>2, <1>3, ConcatProperties

LEMMA OneOf ==
  ASSUME NEW S, NEW x \in S
  PROVE  /\ << x >> \in Seq(S) /\ Len(<< x >>) = 1 /\ << x >>[1] = x
         /\ << >> \in Seq(S) /\ Len(<< >>) = 0
  BY EmptySeq

-----------------------------------------------------------------------------
(* Type correctness.                                                       *)

LinkState == [open : BOOLEAN, in : Seq(ToClient), out : Seq(ToServer)]

LEMMA ConstantTypes ==
  /\ FreshNeg \in [pending : BOOLEAN, retried : BOOLEAN, ended : BOOLEAN] <=>
       server.kind.sasl \in BOOLEAN
  /\ NoSession \in Session
  /\ [open |-> FALSE, in |-> << >>, out |-> << >>] \in LinkState
<1>1. << >> \in Seq(ToClient) /\ << >> \in Seq(ToServer)
  BY EmptySeq
<1> QED BY <1>1 DEF FreshNeg, NoSession, Session, LinkState

LEMMA KindTypes ==
  ASSUME TypeOK
  PROVE  /\ server.kind \in ServerKinds /\ server.kind.sasl \in BOOLEAN
         /\ server.kind.offers # {} => server.kind.cap
         /\ server.kind.accepts => server.kind.sasl /\ "sasl" \in server.kind.offers
<1>1. server.kind \in Kinds
  BY DEF TypeOK
<1> QED BY <1>1, KindsAssumption DEF ServerKinds

LEMMA NoConnectionTypes ==
  ASSUME TypeOK, NoConnection
  PROVE  /\ neg' \in [pending : BOOLEAN, retried : BOOLEAN, ended : BOOLEAN]
         /\ pending' \in Seq(ToServer) /\ Len(pending') <= MaxPending
         /\ tokens' \in 0..Burst /\ rejoins' \subseteq Channels
         /\ link' \in LinkState /\ server' \in [kind : Kinds, session : Session]
<1>1. << >> \in Seq(ToServer) /\ Len(<< >>) = 0
  BY EmptySeq
<1>2. neg' \in [pending : BOOLEAN, retried : BOOLEAN, ended : BOOLEAN] /\ link' \in LinkState
  BY ConstantTypes, KindTypes DEF NoConnection
<1>3. server' \in [kind : Kinds, session : Session]
  BY ConstantTypes DEF NoConnection, TypeOK
<1>4. pending' \in Seq(ToServer) /\ Len(pending') <= MaxPending
  BY <1>1, BoundsAssumption DEF NoConnection
<1>5. tokens' \in 0..Burst /\ rejoins' \subseteq Channels
  BY BoundsAssumption DEF NoConnection
<1> QED BY <1>2, <1>3, <1>4, <1>5

\* submit_action takes the first lines itself, and only while nothing waits; the next ones
\* wait as far as there is room.
LEMMA SubmitShape ==
  ASSUME TypeOK, NEW lines \in Seq(ToServer), Submit(lines)
  PROVE  \E d, n \in 0..Len(lines) :
           /\ d <= n /\ (pending # << >> => d = 0)
           /\ link' = [link EXCEPT !.out = @ \o SubSeq(lines, 1, d)]
           /\ pending' = pending \o SubSeq(lines, d + 1, n)
           /\ Len(pending) + (n - d) <= MaxPending
           /\ tokens' \in 0..Burst
<1>1. PICK available \in tokens..Burst :
        LET direct == IF pending = << >> THEN Smaller(Len(lines), available) ELSE 0
            room   == MaxPending - Len(pending)
            queued == Smaller(Len(lines) - direct, room)
        IN  /\ link' = [link EXCEPT !.out = @ \o SubSeq(lines, 1, direct)]
            /\ pending' = pending \o SubSeq(lines, direct + 1, direct + queued)
            /\ tokens' = IF pending = << >> THEN available - direct ELSE tokens
  BY DEF Submit
<1> DEFINE d == IF pending = << >> THEN Smaller(Len(lines), available) ELSE 0
           q == Smaller(Len(lines) - d, MaxPending - Len(pending))
<1>2. /\ Len(lines) \in Nat /\ Len(pending) \in Nat /\ Len(pending) <= MaxPending
      /\ MaxPending \in Nat /\ Burst \in Nat /\ tokens \in 0..Burst
  BY LenProperties, BoundsAssumption DEF TypeOK
<1>3. d \in 0..Len(lines) /\ (pending = << >> => d <= available) /\ (pending # << >> => d = 0)
  BY <1>2 DEF Smaller
<1>4. /\ link' = [link EXCEPT !.out = @ \o SubSeq(lines, 1, d)]
      /\ pending' = pending \o SubSeq(lines, d + 1, d + q)
      /\ tokens' = IF pending = << >> THEN available - d ELSE tokens
  BY <1>1
<1> HIDE DEF d
<1>5. q \in 0..(Len(lines) - d) /\ Len(pending) + q <= MaxPending
  BY <1>2, <1>3 DEF Smaller
<1> HIDE DEF q
<1>6. d + q \in 0..Len(lines) /\ d <= d + q /\ Len(pending) + ((d + q) - d) <= MaxPending
  BY <1>2, <1>3, <1>5
<1>7. tokens' \in 0..Burst
  BY <1>2, <1>3, <1>4
<1> QED BY <1>3, <1>4, <1>6, <1>7

LEMMA SubmitTypes ==
  ASSUME TypeOK, NEW lines \in Seq(ToServer), Submit(lines)
  PROVE  /\ link' \in LinkState /\ pending' \in Seq(ToServer) /\ Len(pending') <= MaxPending
         /\ tokens' \in 0..Burst
         /\ link'.in = link.in /\ link'.open = link.open
<1>1. PICK d, n \in 0..Len(lines) :
           /\ d <= n /\ (pending # << >> => d = 0)
           /\ link' = [link EXCEPT !.out = @ \o SubSeq(lines, 1, d)]
           /\ pending' = pending \o SubSeq(lines, d + 1, n)
           /\ Len(pending) + (n - d) <= MaxPending
           /\ tokens' \in 0..Burst
  BY SubmitShape
<1>2. d \in 0..n
  BY <1>1
<1>3. SubSeq(lines, 1, d) \in Seq(ToServer)
  BY FirstOf
<1>4. SubSeq(lines, d + 1, n) \in Seq(ToServer) /\ Len(SubSeq(lines, d + 1, n)) = n - d
  BY <1>2, CutOf
<1>5. link.out \in Seq(ToServer) /\ pending \in Seq(ToServer)
  BY DEF TypeOK
<1>6. link.out \o SubSeq(lines, 1, d) \in Seq(ToServer)
  BY <1>3, <1>5, JoinOf
<1>7. /\ pending \o SubSeq(lines, d + 1, n) \in Seq(ToServer)
      /\ Len(pending \o SubSeq(lines, d + 1, n)) = Len(pending) + (n - d)
  BY <1>4, <1>5, JoinOf
<1> QED BY <1>1, <1>6, <1>7 DEF TypeOK, LinkState

LEMMA LineTypes ==
  ASSUME NEW id \in Nat, NEW n \in Nat
  PROVE  /\ Lines(id, n) \in Seq(ToServer) /\ Len(Lines(id, n)) = n
         /\ \A k \in 1..n : Lines(id, n)[k] = Msg("LINE", << id, k >>)
<1>1. \A k \in 1..n : Msg("LINE", << id, k >>) \in ToServer
  BY DEF Msg, ToServer
<1> QED BY <1>1, IsASeq DEF Lines

LEMMA ReplyShape ==
  ASSUME TypeOK, NEW op, Reading(op), NEW lines \in Seq(ToServer), Reply(lines)
  PROVE  /\ link' \in LinkState /\ link'.open = link.open
         /\ link'.in = Tail(link.in) /\ link'.out = link.out \o lines
         /\ link.in # << >> /\ link.in \in Seq(ToClient) /\ link.out \in Seq(ToServer)
<1>1. link.in # << >> /\ link.in \in Seq(ToClient) /\ link.out \in Seq(ToServer)
  BY DEF Reading, TypeOK
<1>2. Tail(link.in) \in Seq(ToClient)
  BY <1>1, TailOf
<1>3. link.out \o lines \in Seq(ToServer)
  BY <1>1, JoinOf
<1> QED BY <1>1, <1>2, <1>3 DEF Reply, TypeOK, LinkState

LEMMA GreetingTypes ==
  ASSUME NEW s \in Session
  PROVE  Greeting(s) \in Seq(ToClient) /\ Welcomed(s) \in Session
<1>1. Msg("WELCOME", << >>) \in ToClient /\ Msg("MOTD", << >>) \in ToClient
  BY DEF Msg, ToClient, Plain
<1>2. << Msg("WELCOME", << >>), Msg("MOTD", << >>) >> \in Seq(ToClient) /\ << >> \in Seq(ToClient)
  BY <1>1
<1> QED BY <1>2 DEF Greeting, Welcomed, Session

LEMMA AnswerShape ==
  ASSUME TypeOK, NEW op, Serve(op), NEW s \in Session, NEW messages \in Seq(ToClient),
         Answer(s, messages)
  PROVE  /\ link' \in LinkState /\ link'.open = link.open /\ link.open
         /\ link'.out = Tail(link.out) /\ link'.in = (link.in \o messages) \o Greeting(s)
         /\ server' \in [kind : Kinds, session : Session]
         /\ server'.kind = server.kind /\ server'.session = Welcomed(s)
         /\ link.out # << >> /\ link.in \in Seq(ToClient) /\ link.out \in Seq(ToServer)
<1>1. link.out # << >> /\ link.in \in Seq(ToClient) /\ link.out \in Seq(ToServer)
  BY DEF Serve, TypeOK
<1>2. Tail(link.out) \in Seq(ToServer)
  BY <1>1, TailOf
<1>3. (link.in \o messages) \o Greeting(s) \in Seq(ToClient)
  BY <1>1, JoinOf, GreetingTypes
<1>4. server' \in [kind : Kinds, session : Session] /\ server'.kind = server.kind
      /\ server'.session = Welcomed(s)
  BY GreetingTypes DEF Answer, TypeOK
<1>5. link' = [link EXCEPT !.out = Tail(@), !.in = (@ \o messages) \o Greeting(s)]
  BY DEF Answer
<1> QED BY <1>1, <1>2, <1>3, <1>4, <1>5 DEF Serve, TypeOK, LinkState

\* What the actor says, and what the server answers.
LEMMA WireTypes ==
  ASSUME TypeOK
  PROVE  /\ << >> \in Seq(ToServer) /\ << >> \in Seq(ToClient)
         /\ << Msg("END", << >>) >> \in Seq(ToServer)
         /\ << Msg("AUTHENTICATE", << >>) >> \in Seq(ToServer)
         /\ << Msg("PASSWORD", << >>) >> \in Seq(ToServer)
         /\ << Msg("REQ", {"sasl"}) >> \in Seq(ToServer)
         /\ << Msg("JOIN", Channels) >> \in Seq(ToServer)
         /\ << Msg("AUTHENTICATE", << >>) >> \in Seq(ToClient)
         /\ << Msg("FAILURE", << >>) >> \in Seq(ToClient)
         /\ << Msg("SUCCESS", << >>), Msg("SUCCESS", << >>) >> \in Seq(ToClient)
         /\ \A ch \in Channels : << Msg("JOIN", {ch}) >> \in Seq(ToServer)
<1>1. /\ Msg("END", << >>) \in ToServer /\ Msg("AUTHENTICATE", << >>) \in ToServer
      /\ Msg("PASSWORD", << >>) \in ToServer /\ Msg("REQ", {"sasl"}) \in ToServer
      /\ Msg("JOIN", Channels) \in ToServer
      /\ \A ch \in Channels : Msg("JOIN", {ch}) \in ToServer
  BY DEF Msg, ToServer, Plain, Caps
<1>2. /\ Msg("AUTHENTICATE", << >>) \in ToClient /\ Msg("FAILURE", << >>) \in ToClient
      /\ Msg("SUCCESS", << >>) \in ToClient
  BY DEF Msg, ToClient, Plain
<1> QED BY <1>1, <1>2

\* Which answer a line of the bot gets, and what it makes of the session.
LEMMA ServeShape ==
  ASSUME TypeOK, Server
  PROVE  \E s \in Session, messages \in Seq(ToClient), op \in {"REQ", "USER", "AUTHENTICATE",
              "PASSWORD", "END", "JOIN", "LINE"} :
            Serve(op) /\ Answer(s, messages) /\ s.registered = server.session.registered
<1>1. server.session \in Session
  BY DEF TypeOK
<1>2. CASE ServeRequest
  <2> DEFINE asked == Head(link.out).arg
             answer == << Msg(IF asked \subseteq server.kind.offers THEN "ACK" ELSE "NAK", asked) >>
  <2>1. link.out \in Seq(ToServer) /\ link.out # << >> /\ Head(link.out).op = "REQ"
    BY <1>2 DEF ServeRequest, Serve, TypeOK
  <2>2. Head(link.out) \in ToServer
    BY <2>1, TailOf
  <2>3. asked \in SUBSET Caps
    BY <2>1, <2>2 DEF ToServer, Plain
  <2>4. answer \in Seq(ToClient)
    <3>1. Msg("ACK", asked) \in ToClient /\ Msg("NAK", asked) \in ToClient
      BY <2>3 DEF Msg, ToClient
    <3> QED BY <3>1
  <2>5. /\ [server.session EXCEPT !.holding = TRUE] \in Session
        /\ [server.session EXCEPT !.holding = TRUE].registered = server.session.registered
    BY <1>1 DEF Session
  <2>6. Answer(server.session, << >>) \/ Answer([server.session EXCEPT !.holding = TRUE], answer)
    BY <1>2 DEF ServeRequest
  <2> HIDE DEF asked, answer
  <2> QED BY <1>1, <1>2, <2>4, <2>5, <2>6, WireTypes DEF ServeRequest
<1>3. CASE ServeUser
  <2>1. /\ [server.session EXCEPT !.user = TRUE] \in Session
        /\ [server.session EXCEPT !.user = TRUE].registered = server.session.registered
    BY <1>1 DEF Session
  <2> QED BY <1>3, <2>1, WireTypes DEF ServeUser
<1>4. CASE ServeAuthenticate
  BY <1>1, <1>4, WireTypes DEF ServeAuthenticate
<1>5. CASE ServePassword
  <2>1. /\ [server.session EXCEPT !.loggedin = TRUE] \in Session
        /\ [server.session EXCEPT !.loggedin = TRUE].registered = server.session.registered
    BY <1>1 DEF Session
  <2> QED BY <1>1, <1>5, <2>1, WireTypes DEF ServePassword
<1>6. CASE ServeEnd
  <2>1. /\ [server.session EXCEPT !.holding = FALSE] \in Session
        /\ [server.session EXCEPT !.holding = FALSE].registered = server.session.registered
    BY <1>1 DEF Session
  <2> QED BY <1>6, <2>1, WireTypes DEF ServeEnd
<1>7. CASE ServeJoin
  <2>1. link.out \in Seq(ToServer) /\ link.out # << >> /\ Head(link.out).op = "JOIN"
    BY <1>7 DEF ServeJoin, Serve, TypeOK
  <2>2. Head(link.out) \in ToServer
    BY <2>1, TailOf
  <2>3. Head(link.out).arg \in SUBSET Channels
    BY <2>1, <2>2 DEF ToServer, Plain
  <2> DEFINE s == [server.session EXCEPT !.joined =
                     IF server.session.registered THEN @ \cup Head(link.out).arg ELSE @]
  <2>4. s \in Session /\ s.registered = server.session.registered
    BY <1>1, <2>3 DEF Session
  <2>5. Serve("JOIN") /\ Answer(s, << >>)
    BY <1>7 DEF ServeJoin
  <2> HIDE DEF s
  <2> QED BY <2>4, <2>5, WireTypes
<1>8. CASE ServeLine
  BY <1>1, <1>8, WireTypes DEF ServeLine
<1> QED BY <1>2, <1>3, <1>4, <1>5, <1>6, <1>7, <1>8 DEF Server

\* Which lines the actor writes when it reads a message.
LEMMA ReadShape ==
  ASSUME TypeOK, NEW op, Reading(op),
         \/ ReadAck \/ ReadNak \/ ReadAuthenticate \/ ReadSuccess \/ ReadFailure
         \/ ReadWelcome \/ ReadMotd \/ ReadKick
  PROVE  /\ \E lines \in Seq(ToServer) : Reply(lines)
         /\ neg' \in [pending : BOOLEAN, retried : BOOLEAN, ended : BOOLEAN]
         /\ emitting' \in {emitting, << "Connected" >>, << "Parted" >>}
         /\ rejoins' \subseteq Channels
<1>1. neg \in [pending : BOOLEAN, retried : BOOLEAN, ended : BOOLEAN] /\ rejoins \subseteq Channels
  BY DEF TypeOK
<1>2. EndCaps => /\ \E lines \in Seq(ToServer) : Reply(lines)
                 /\ neg' \in [pending : BOOLEAN, retried : BOOLEAN, ended : BOOLEAN]
  BY <1>1, WireTypes DEF EndCaps
<1>3. CASE ReadAck
  BY <1>1, <1>2, <1>3, WireTypes DEF ReadAck
<1>4. CASE ReadNak
  BY <1>1, <1>2, <1>4, WireTypes DEF ReadNak
<1>5. CASE ReadAuthenticate
  BY <1>1, <1>5, WireTypes DEF ReadAuthenticate
<1>6. CASE ReadSuccess
  BY <1>1, <1>2, <1>6, WireTypes DEF ReadSuccess
<1>7. CASE ReadFailure
  BY <1>1, <1>2, <1>7 DEF ReadFailure
<1>8. CASE ReadWelcome \/ ReadMotd
  BY <1>1, <1>8, WireTypes DEF ReadWelcome, ReadMotd
<1>9. CASE ReadKick
  <2>1. link.in \in Seq(ToClient) /\ link.in # << >> /\ Head(link.in).op = "KICK"
    BY <1>9 DEF ReadKick, Reading, TypeOK
  <2>2. Head(link.in) \in ToClient
    BY <2>1, TailOf
  <2>3. Head(link.in).arg \in Channels
    BY <2>1, <2>2 DEF ToClient, Plain
  <2> QED BY <1>1, <1>9, <2>3, WireTypes DEF ReadKick
<1> QED BY <1>3, <1>4, <1>5, <1>6, <1>7, <1>8, <1>9

LEMMA EventTypes ==
  /\ << >> \in Seq(EventNames) /\ Len(<< >>) = 0
  /\ << "Connected" >> \in Seq(EventNames) /\ Len(<< "Connected" >>) = 1
  /\ << "Disconnected" >> \in Seq(EventNames) /\ Len(<< "Disconnected" >>) = 1
  /\ << "Parted" >> \in Seq(EventNames) /\ Len(<< "Parted" >>) = 1
  BY EmptySeq DEF EventNames

LEMMA InboxTypes ==
  ASSUME TypeOK, NEW order \in Order, Len(inbox) < InboxSize
  PROVE  Append(inbox, order) \in Seq(Order) /\ Len(Append(inbox, order)) <= InboxSize
<1>1. Len(inbox) \in Nat /\ InboxSize \in Nat
  BY LenProperties, BoundsAssumption DEF TypeOK
<1> QED BY <1>1, AppendProperties DEF TypeOK

LEMMA TroubleTypes ==
  ASSUME TypeOK
  PROVE  /\ Trouble => spent' \in [messages : Nat, troubles : Nat]
         /\ [spent EXCEPT !.messages = @ + 1] \in [messages : Nat, troubles : Nat]
<1>1. spent \in [messages : Nat, troubles : Nat]
  BY DEF TypeOK
<1>2. spent.messages + 1 \in Nat /\ spent.troubles + 1 \in Nat
  BY <1>1
<1> QED BY <1>1, <1>2 DEF Trouble

LEMMA TypeStep == TypeOK /\ [Next]_vars => TypeOK'
<1> SUFFICES ASSUME TypeOK, [Next]_vars PROVE TypeOK'
  OBVIOUS
<1> USE DEF LinkState
<1>1. ASSUME NEW n \in 1..MaxLines, Send(n) PROVE TypeOK'
  <2>1. Msg("MESSAGE", << spent.messages + 1, n >>) \in Order
    <3>1. n \in Nat /\ spent.messages \in Nat
      BY DEF TypeOK
    <3> QED BY <3>1 DEF Msg, Order
  <2>2. inbox' \in Seq(Order) /\ Len(inbox') <= InboxSize
    BY <1>1, <2>1, InboxTypes DEF Send, TypeOK
  <2>3. spent' \in [messages : Nat, troubles : Nat]
    BY <1>1, TroubleTypes DEF Send
  <2> QED BY <1>1, <2>2, <2>3 DEF Send, TypeOK, coreVars, actorVars, wireVars, permsVars
<1>2. CASE Reconnect \/ Shutdown
  <2>1. Msg("QUIT", << >>) \in Order
    BY DEF Msg, Order, Plain
  <2>2. inbox' \in Seq(Order) /\ Len(inbox') <= InboxSize
    BY <1>2, <2>1, InboxTypes DEF Reconnect, Shutdown, RequestQuit, TypeOK
  <2> QED BY <1>2, <2>2, TroubleTypes
          DEF Reconnect, Shutdown, RequestQuit, TypeOK, actorVars, wireVars, permsVars
<1>3. CASE QuitInTime \/ QuitAborted
  <2>1. AllQuit
    BY <1>3 DEF QuitInTime, QuitAborted
  <2>2. inbox' \in Seq(Order) /\ Len(inbox') <= InboxSize
    BY <2>1, EmptySeq, BoundsAssumption DEF AllQuit
  <2>3. /\ core' \in {"running", "stopped"} /\ registry' \in BOOLEAN
        /\ phase' \in {"connecting", "none"} /\ spent' \in [messages : Nat, troubles : Nat]
    BY <2>1, TroubleTypes DEF AllQuit, ConnectAll, TypeOK
  <2>4. /\ NoConnection /\ connected' = FALSE
        /\ emitting' = << >> /\ UNCHANGED <<relayed, events>>
    BY <2>1 DEF AllQuit
  <2>5. /\ neg' \in [pending : BOOLEAN, retried : BOOLEAN, ended : BOOLEAN]
        /\ pending' \in Seq(ToServer) /\ Len(pending') <= MaxPending
        /\ tokens' \in 0..Burst /\ rejoins' \subseteq Channels
        /\ link' \in LinkState /\ server' \in [kind : Kinds, session : Session]
    BY <2>4, NoConnectionTypes
  <2>6. emitting' \in Seq(EventNames) /\ Len(emitting') <= 1 /\ connected' \in BOOLEAN
    <3>1. emitting' = << >> /\ connected' \in BOOLEAN
      BY <2>4
    <3>2. Len(emitting') = 0
      BY <3>1, EventTypes
    <3> QED BY <3>1, <3>2, EventTypes
  <2>7. events' \in Seq(EventNames) /\ Len(events') <= EventCap /\ relayed' \in Nat \X Nat
    BY <2>4 DEF TypeOK
  <2> QED BY <2>2, <2>3, <2>5, <2>6, <2>7 DEF TypeOK
<1>4. CASE ForwardEvent
  <2>1. Tail(events) \in Seq(EventNames) /\ Len(Tail(events)) <= EventCap
    <3>1. EventCap \in Nat
      BY BoundsAssumption
    <3> QED BY <1>4, <3>1, TailOf DEF ForwardEvent, TypeOK
  <2>2. connected' \in BOOLEAN
    BY <1>4 DEF ForwardEvent, TypeOK
  <2> QED BY <1>4, <2>1, <2>2 DEF ForwardEvent, TypeOK, coreVars, actorVars, wireVars
<1>5. CASE EmitEvent
  <2>1. /\ Tail(emitting) \in Seq(EventNames) /\ Len(Tail(emitting)) <= 1
        /\ Head(emitting) \in EventNames
    BY <1>5, TailOf DEF EmitEvent, TypeOK
  <2>2. Append(events, Head(emitting)) \in Seq(EventNames)
        /\ Len(Append(events, Head(emitting))) <= EventCap
    <3>1. Len(events) \in Nat /\ EventCap \in Nat
      BY LenProperties, BoundsAssumption DEF TypeOK
    <3> QED BY <1>5, <2>1, <3>1, AppendProperties DEF EmitEvent, TypeOK
  <2> QED BY <1>5, <2>1, <2>2 DEF EmitEvent, TypeOK, coreVars, wireVars
<1>6. CASE ConnectSucceeds
  <2>1. << Msg("REQ", IF server.kind.sasl THEN Caps ELSE {"account-tag"}),
           Msg("USER", << >>) >> \in Seq(ToServer)
    <3>1. Msg("REQ", IF server.kind.sasl THEN Caps ELSE {"account-tag"}) \in ToServer
          /\ Msg("USER", << >>) \in ToServer
      BY DEF Msg, ToServer, Plain, Caps
    <3> QED BY <3>1
  <2>2. link' \in LinkState
    BY <1>6, <2>1, EmptySeq DEF ConnectSucceeds
  <2> QED BY <1>6, <2>2 DEF ConnectSucceeds, TypeOK, coreVars, permsVars
<1>7. CASE ConnectFails \/ ConnectionEnds
  <2>1. RunEnds /\ spent' \in [messages : Nat, troubles : Nat]
    BY <1>7, TroubleTypes DEF ConnectFails, ConnectionEnds, TypeOK
  <2> QED BY <2>1, NoConnectionTypes, EventTypes DEF RunEnds, TypeOK, coreVars, permsVars
<1>8. CASE BackoffExpires
  BY <1>8 DEF BackoffExpires, TypeOK, coreVars, wireVars, permsVars
<1>9. ASSUME inbox # << >> PROVE Tail(inbox) \in Seq(Order) /\ Len(Tail(inbox)) <= InboxSize
  <2>1. InboxSize \in Nat
    BY BoundsAssumption
  <2> QED BY <1>9, <2>1, TailOf DEF TypeOK
<1>10. CASE BackoffReceives
  BY <1>9, <1>10 DEF BackoffReceives, TypeOK, coreVars, wireVars, permsVars
<1>11. CASE ReceiveMessage
  <2> DEFINE id == Head(inbox).arg[1]
             n == Head(inbox).arg[2]
  <2>1. Head(inbox) \in Order /\ Head(inbox).op = "MESSAGE"
    BY <1>11, TailOf DEF ReceiveMessage, TypeOK
  <2>2. id \in Nat /\ n \in Nat
    BY <2>1 DEF Order, Plain
  <2>3. Lines(id, n) \in Seq(ToServer) /\ Submit(Lines(id, n))
    BY <1>11, <2>2, LineTypes DEF ReceiveMessage
  <2> HIDE DEF id, n
  <2>4. /\ link' \in LinkState /\ pending' \in Seq(ToServer) /\ Len(pending') <= MaxPending
        /\ tokens' \in 0..Burst
    BY <2>3, SubmitTypes
  <2> QED BY <1>9, <1>11, <2>4 DEF ReceiveMessage, TypeOK, coreVars, permsVars
<1>12. CASE ReceiveQuit
  BY <1>9, <1>12, NoConnectionTypes, EventTypes DEF ReceiveQuit, TypeOK, coreVars, permsVars
<1>13. CASE Drain
  <2>1. PICK available \in 1..Burst :
          LET sent == Smaller(Len(pending), available)
          IN  /\ link' = [link EXCEPT !.out = @ \o SubSeq(pending, 1, sent)]
              /\ pending' = SubSeq(pending, sent + 1, Len(pending))
              /\ tokens' = available - sent
    BY <1>13 DEF Drain
  <2> DEFINE sent == Smaller(Len(pending), available)
  <2>2. /\ pending \in Seq(ToServer) /\ Len(pending) \in Nat /\ Len(pending) <= MaxPending
        /\ MaxPending \in Nat /\ Burst \in Nat /\ link.out \in Seq(ToServer)
    BY LenProperties, BoundsAssumption DEF TypeOK
  <2>3. sent \in 0..Len(pending) /\ sent <= available
    BY <2>2 DEF Smaller
  <2>4. /\ link' = [link EXCEPT !.out = @ \o SubSeq(pending, 1, sent)]
        /\ pending' = SubSeq(pending, sent + 1, Len(pending)) /\ tokens' = available - sent
    BY <2>1
  <2> HIDE DEF sent
  <2>5. SubSeq(pending, 1, sent) \in Seq(ToServer)
    BY <2>2, <2>3, PieceOf
  <2>6. pending' \in Seq(ToServer) /\ Len(pending') <= MaxPending
    BY <2>2, <2>3, <2>4, PieceOf
  <2>7. link' \in LinkState
    BY <2>2, <2>4, <2>5, JoinOf DEF TypeOK
  <2>8. tokens' \in 0..Burst
    BY <2>2, <2>3, <2>4
  <2> QED BY <1>13, <2>6, <2>7, <2>8 DEF Drain, TypeOK, coreVars, permsVars
<1>14. ASSUME NEW ch \in Channels, RejoinTick(ch) PROVE TypeOK'
  <2>1. Submit(<< Msg("JOIN", {ch}) >>) /\ << Msg("JOIN", {ch}) >> \in Seq(ToServer)
    BY <1>14, WireTypes DEF RejoinTick
  <2>2. /\ link' \in LinkState /\ pending' \in Seq(ToServer) /\ Len(pending') <= MaxPending
        /\ tokens' \in 0..Burst
    BY <2>1, SubmitTypes
  <2> QED BY <1>14, <2>2 DEF RejoinTick, TypeOK, coreVars, permsVars
<1>15. ASSUME NEW op, Reading(op),
             \/ ReadAck \/ ReadNak \/ ReadAuthenticate \/ ReadSuccess \/ ReadFailure
             \/ ReadWelcome \/ ReadMotd \/ ReadKick
      PROVE  TypeOK'
  <2>1. PICK lines \in Seq(ToServer) : Reply(lines)
    BY <1>15, ReadShape
  <2>2. link' \in LinkState
    BY <1>15, <2>1, ReplyShape
  <2>3. emitting' \in Seq(EventNames) /\ Len(emitting') <= 1
    <3>1. emitting' \in {emitting, << "Connected" >>, << "Parted" >>}
      BY <1>15, ReadShape
    <3>2. CASE emitting' = emitting
      BY <3>2 DEF TypeOK
    <3>3. CASE emitting' = << "Connected" >>
      BY <3>3, EventTypes
    <3>4. CASE emitting' = << "Parted" >>
      BY <3>4, EventTypes
    <3> QED BY <3>1, <3>2, <3>3, <3>4
  <2> QED BY <1>15, <2>2, <2>3, ReadShape DEF Reading, TypeOK, coreVars, permsVars
<1>16. CASE Server
  <2>1. PICK s \in Session, messages \in Seq(ToClient), op \in {"REQ", "USER", "AUTHENTICATE",
               "PASSWORD", "END", "JOIN", "LINE"} : Serve(op) /\ Answer(s, messages)
    BY <1>16, ServeShape
  <2>2. link' \in LinkState /\ server' \in [kind : Kinds, session : Session]
    BY <2>1, AnswerShape
  <2>3. relayed' \in Nat \X Nat
    <3>1. CASE relayed' = relayed
      BY <3>1 DEF TypeOK
    <3>2. CASE ServeLine
      <4>1. link.out \in Seq(ToServer) /\ link.out # << >> /\ Head(link.out).op = "LINE"
        BY <3>2 DEF ServeLine, Serve, TypeOK
      <4>2. Head(link.out) \in ToServer
        BY <4>1, TailOf
      <4>3. Head(link.out).arg \in Nat \X Nat
        BY <4>1, <4>2 DEF ToServer, Plain
      <4> QED BY <3>2, <4>3 DEF ServeLine, TypeOK
    <3> QED BY <1>16, <3>1, <3>2 DEF Server, ServeRequest, ServeUser, ServeAuthenticate,
               ServePassword, ServeEnd, ServeJoin
  <2> QED BY <2>1, <2>2, <2>3 DEF Serve, TypeOK, coreVars, actorVars, permsVars
<1>17. ASSUME NEW ch \in Channels, Kick(ch) PROVE TypeOK'
  <2>1. Msg("KICK", ch) \in ToClient
    BY DEF Msg, ToClient
  <2>2. Append(link.in, Msg("KICK", ch)) \in Seq(ToClient)
    BY <2>1, AppendProperties DEF TypeOK
  <2>3. link' \in LinkState
    BY <1>17, <2>2 DEF Kick, TypeOK
  <2>4. server' \in [kind : Kinds, session : Session]
    BY <1>17 DEF Kick, TypeOK, Session
  <2> QED BY <1>17, <2>3, <2>4, TroubleTypes DEF Kick, TypeOK, coreVars, actorVars, permsVars
<1>18. CASE DropLink
  <2>1. link' \in LinkState /\ server' \in [kind : Kinds, session : Session]
    BY <1>18, EmptySeq, ConstantTypes DEF DropLink, TypeOK
  <2> QED BY <1>18, <2>1, TroubleTypes DEF DropLink, TypeOK, coreVars, actorVars, permsVars
<1>19. CASE UNCHANGED vars
  BY <1>19 DEF vars, TypeOK, coreVars, actorVars, wireVars, permsVars
<1>20. CASE Stream /\ ~ConnectionEnds
  BY <1>15, <1>20 DEF Stream, ReadAck, ReadNak, ReadAuthenticate, ReadSuccess, ReadFailure,
     ReadWelcome, ReadMotd, ReadKick
<1> QED BY <1>1, <1>2, <1>3, <1>4, <1>5, <1>6, <1>7, <1>8, <1>10, <1>11, <1>12, <1>13, <1>14,
           <1>16, <1>17, <1>18, <1>19, <1>20 DEF Next, Runtime, Actions, Stream

-----------------------------------------------------------------------------
(* Negotiation.                                                            *)

\* No message of s, or at most one, has operation op.
Lacks(s, op) == \A i \in 1..Len(s) : s[i].op # op
Once(s, op) == \A i, j \in 1..Len(s) : s[i].op = op /\ s[j].op = op => i = j

LEMMA LacksPieces ==
  ASSUME NEW S, NEW s \in Seq(S), NEW t \in Seq(S), NEW op
  PROVE  /\ Lacks(s, op) /\ Lacks(t, op) => Lacks(s \o t, op)
         /\ Lacks(s, op) => Once(s, op)
         /\ Once(s, op) /\ Lacks(t, op) => Once(s \o t, op)
         /\ Lacks(s, op) /\ Once(t, op) => Once(s \o t, op)
<1>1. /\ Len(s) \in Nat /\ Len(t) \in Nat /\ Len(s \o t) = Len(s) + Len(t)
      /\ \A i \in 1..Len(s) : (s \o t)[i] = s[i]
      /\ \A i \in 1..Len(t) : (s \o t)[Len(s) + i] = t[i]
  BY JoinOf
<1>2. \A i \in 1..Len(s \o t) :
        \/ i \in 1..Len(s) /\ (s \o t)[i] = s[i]
        \/ i - Len(s) \in 1..Len(t) /\ (s \o t)[i] = t[i - Len(s)]
  <2> SUFFICES ASSUME NEW i \in 1..Len(s \o t), i \notin 1..Len(s)
               PROVE  i - Len(s) \in 1..Len(t) /\ (s \o t)[i] = t[i - Len(s)]
    BY <1>1
  <2>1. i - Len(s) \in 1..Len(t) /\ i = Len(s) + (i - Len(s))
    BY <1>1
  <2> QED BY <1>1, <2>1
<1>3. Lacks(s, op) /\ Lacks(t, op) => Lacks(s \o t, op)
  BY <1>1, <1>2 DEF Lacks
<1>4. Lacks(s, op) => Once(s, op)
  BY DEF Lacks, Once
<1>5. ASSUME Once(s, op), Lacks(t, op) PROVE Once(s \o t, op)
  BY <1>1, <1>2, <1>5 DEF Lacks, Once
<1>6. ASSUME Lacks(s, op), Once(t, op) PROVE Once(s \o t, op)
  <2> SUFFICES ASSUME NEW i \in 1..Len(s \o t), NEW j \in 1..Len(s \o t),
                      (s \o t)[i].op = op, (s \o t)[j].op = op
               PROVE  i = j
    BY DEF Once
  <2>1. i - Len(s) \in 1..Len(t) /\ j - Len(s) \in 1..Len(t)
        /\ t[i - Len(s)].op = op /\ t[j - Len(s)].op = op
    BY <1>2, <1>6 DEF Lacks
  <2>2. i - Len(s) = j - Len(s)
    BY <1>6, <2>1 DEF Once
  <2> QED BY <1>1, <2>2
<1> QED BY <1>3, <1>4, <1>5, <1>6

LEMMA LacksTail ==
  ASSUME NEW S, NEW s \in Seq(S), s # << >>, NEW op
  PROVE  /\ Lacks(s, op) => Lacks(Tail(s), op) /\ Head(s).op # op
         /\ Once(s, op) => Once(Tail(s), op)
         /\ Once(s, op) /\ Head(s).op = op => Lacks(Tail(s), op)
<1>1. /\ Len(Tail(s)) = Len(s) - 1 /\ Len(s) \in Nat \ {0} /\ Head(s) = s[1]
      /\ \A i \in 1..(Len(s) - 1) : Tail(s)[i] = s[i + 1]
  BY TailOf
<1>2. \A i \in 1..Len(Tail(s)) : i + 1 \in 1..Len(s) /\ i + 1 # 1 /\ Tail(s)[i] = s[i + 1]
  BY <1>1
<1>3. 1 \in 1..Len(s)
  BY <1>1
<1>4. Lacks(s, op) => Lacks(Tail(s), op) /\ Head(s).op # op
  BY <1>1, <1>2, <1>3 DEF Lacks
<1>5. ASSUME Once(s, op) PROVE Once(Tail(s), op)
  <2> SUFFICES ASSUME NEW i \in 1..Len(Tail(s)), NEW j \in 1..Len(Tail(s)),
                      Tail(s)[i].op = op, Tail(s)[j].op = op
               PROVE  i = j
    BY DEF Once
  <2>1. i + 1 = j + 1
    BY <1>2, <1>5 DEF Once
  <2> QED BY <1>1, <2>1
<1>6. ASSUME Once(s, op), Head(s).op = op PROVE Lacks(Tail(s), op)
  BY <1>1, <1>2, <1>3, <1>6 DEF Once, Lacks
<1> QED BY <1>4, <1>5, <1>6

\* The link is down outside "up", and the server keeps nothing of a lost one.
LinkIsUp ==
  /\ phase # "up" => /\ ~link.open /\ neg = FreshNeg
                     /\ link.in = << >> /\ link.out = << >> /\ pending = << >>
  /\ ~link.open => server.session = NoSession

\* SASL can still succeed: it has to be decided before the server may register us.
Deciding == link.open /\ server.kind.accepts /\ ~server.session.loggedin

\* Until then registration is held up: by the request that comes before everything else,
\* and then by the negotiation that nothing on the wire can end.  A refused request is
\* repeated once, for SASL alone, which this server grants.
SaslGoesOn ==
  Deciding =>
    /\ neg.pending /\ ~neg.ended /\ ~server.session.registered
    /\ server.session.holding \/ (Len(link.out) > 0 /\ link.out[1].op = "REQ")
    /\ Lacks(link.out, "END") /\ Lacks(link.in, "SUCCESS") /\ Lacks(link.in, "FAILURE")
    /\ neg.retried =>
         /\ Lacks(link.in, "NAK")
         /\ \A i \in 1..Len(link.out) : link.out[i].op = "REQ" => link.out[i].arg = {"sasl"}
    /\ ~neg.retried =>
         /\ Lacks(link.out, "REQ") \/ Lacks(link.in, "NAK")
         /\ Once(link.out, "REQ") /\ Once(link.in, "NAK")

\* Only messages and joins wait for the rate limiter.
WaitingLines == \A i \in 1..Len(pending) : pending[i].op \in {"LINE", "JOIN"}

Negotiation == LinkIsUp /\ SaslGoesOn /\ WaitingLines

\* What leaves the outbound queue, or goes past it, does not touch negotiation.
LEMMA SayStep ==
  ASSUME TypeOK, Negotiation, phase = "up", phase' = "up", UNCHANGED <<neg, server>>,
         NEW lines \in Seq(ToServer),
         \A i \in 1..Len(lines) : lines[i].op \in {"LINE", "JOIN"},
         link' = [link EXCEPT !.out = @ \o lines]
  PROVE  LinkIsUp' /\ SaslGoesOn'
<1>1. link.out \in Seq(ToServer)
  BY DEF TypeOK
<1>2. /\ link'.in = link.in /\ link'.open = link.open /\ link'.out = link.out \o lines
  BY DEF TypeOK
<1>3. Lacks(lines, "END") /\ Lacks(lines, "REQ")
  BY DEF Lacks
<1>4. /\ Lacks(link.out, "END") => Lacks(link.out \o lines, "END")
      /\ Lacks(link.out, "REQ") => Lacks(link.out \o lines, "REQ")
      /\ Once(link.out, "REQ") => Once(link.out \o lines, "REQ")
  BY <1>1, <1>3, LacksPieces
<1>5. Len(link.out) > 0 => Len(link'.out) > 0 /\ link'.out[1] = link.out[1]
  <2>1. Len(link.out) > 0 => 1 \in 1..Len(link.out)
    BY <1>1, JoinOf
  <2> QED BY <1>1, <1>2, <2>1, JoinOf
<1>6. ASSUME \A i \in 1..Len(link.out) : link.out[i].op = "REQ" => link.out[i].arg = {"sasl"},
             NEW i \in 1..Len(link'.out), link'.out[i].op = "REQ"
      PROVE  link'.out[i].arg = {"sasl"}
  <2>1. /\ Len(link.out) \in Nat /\ Len(lines) \in Nat /\ Len(link'.out) = Len(link.out) + Len(lines)
        /\ \A k \in 1..Len(link.out) : link'.out[k] = link.out[k]
        /\ \A k \in 1..Len(lines) : link'.out[Len(link.out) + k] = lines[k]
    BY <1>1, <1>2, JoinOf
  <2>2. CASE i \in 1..Len(link.out)
    BY <1>6, <2>1, <2>2
  <2>3. CASE i \notin 1..Len(link.out)
    <3>1. i - Len(link.out) \in 1..Len(lines) /\ i = Len(link.out) + (i - Len(link.out))
      BY <2>1, <2>3
    <3>2. link'.out[i] = lines[i - Len(link.out)]
      BY <2>1, <3>1
    <3> QED BY <1>6, <3>1, <3>2
  <2> QED BY <2>2, <2>3
<1>7. LinkIsUp'
  BY <1>2 DEF Negotiation, LinkIsUp
<1>8. SaslGoesOn'
  <2> SUFFICES ASSUME Deciding'
               PROVE  (SaslGoesOn)'
    BY DEF SaslGoesOn
  <2>1. Deciding
    BY <1>2 DEF Deciding
  <2> QED BY <1>2, <1>4, <1>5, <1>6, <2>1 DEF Negotiation, SaslGoesOn
<1> QED BY <1>7, <1>8

\* A message, or a join, on its way through the rate limiter.
LEMMA SubmitStep ==
  ASSUME TypeOK, Negotiation, phase = "up", phase' = "up", UNCHANGED <<neg, server>>,
         NEW lines \in Seq(ToServer), Submit(lines),
         \A i \in 1..Len(lines) : lines[i].op \in {"LINE", "JOIN"}
  PROVE  Negotiation'
<1>1. PICK d, n \in 0..Len(lines) :
           /\ d <= n /\ (pending # << >> => d = 0)
           /\ link' = [link EXCEPT !.out = @ \o SubSeq(lines, 1, d)]
           /\ pending' = pending \o SubSeq(lines, d + 1, n)
           /\ Len(pending) + (n - d) <= MaxPending
           /\ tokens' \in 0..Burst
  BY SubmitShape
<1>2. Len(lines) \in Nat /\ d \in Nat /\ n \in Nat
  BY <1>1, LenProperties
<1> DEFINE first == SubSeq(lines, 1, d)
           rest == SubSeq(lines, d + 1, n)
<1>3. first \in Seq(ToServer) /\ \A i \in 1..Len(first) : first[i].op \in {"LINE", "JOIN"}
  BY <1>1, <1>2, FirstOf
<1>4. rest \in Seq(ToServer) /\ \A i \in 1..Len(rest) : rest[i].op \in {"LINE", "JOIN"}
  <2>1. d \in 0..n
    BY <1>1, <1>2
  <2>2. /\ rest \in Seq(ToServer) /\ Len(rest) = n - d
        /\ \A i \in 1..(n - d) : rest[i] = lines[d + i] /\ d + i \in 1..Len(lines)
    BY <2>1, CutOf
  <2> QED BY <2>2
<1> HIDE DEF first, rest
<1>5. link' = [link EXCEPT !.out = @ \o first] /\ pending' = pending \o rest
  BY <1>1 DEF first, rest
<1>6. LinkIsUp' /\ SaslGoesOn'
  BY <1>3, <1>5, SayStep
<1>7. WaitingLines'
  <2>1. pending \in Seq(ToServer)
    BY DEF TypeOK
  <2>2. /\ Len(pending) \in Nat /\ Len(rest) \in Nat /\ Len(pending') = Len(pending) + Len(rest)
        /\ \A i \in 1..Len(pending) : pending'[i] = pending[i]
        /\ \A i \in 1..Len(rest) : pending'[Len(pending) + i] = rest[i]
    BY <1>4, <1>5, <2>1, JoinOf
  <2> SUFFICES ASSUME NEW i \in 1..Len(pending') PROVE pending'[i].op \in {"LINE", "JOIN"}
    BY DEF WaitingLines
  <2>3. CASE i \in 1..Len(pending)
    BY <2>2, <2>3 DEF Negotiation, WaitingLines
  <2>4. CASE i \notin 1..Len(pending)
    <3>1. i - Len(pending) \in 1..Len(rest) /\ i = Len(pending) + (i - Len(pending))
      BY <2>2, <2>4
    <3> QED BY <1>4, <2>2, <3>1
  <2> QED BY <2>3, <2>4
<1> QED BY <1>6, <1>7 DEF Negotiation

LEMMA DrainShape ==
  ASSUME TypeOK, Drain
  PROVE  \E n \in 0..Len(pending) :
           /\ link' = [link EXCEPT !.out = @ \o SubSeq(pending, 1, n)]
           /\ pending' = SubSeq(pending, n + 1, Len(pending))
<1>1. PICK available \in 1..Burst :
          LET sent == Smaller(Len(pending), available)
          IN  /\ link' = [link EXCEPT !.out = @ \o SubSeq(pending, 1, sent)]
              /\ pending' = SubSeq(pending, sent + 1, Len(pending))
              /\ tokens' = available - sent
  BY DEF Drain
<1>2. Len(pending) \in Nat /\ Burst \in Nat
  BY LenProperties, BoundsAssumption DEF TypeOK
<1>3. Smaller(Len(pending), available) \in 0..Len(pending)
  BY <1>2 DEF Smaller
<1> QED BY <1>1, <1>3

LEMMA DrainStep == ASSUME TypeOK, Negotiation, Drain PROVE Negotiation'
<1>1. PICK n \in 0..Len(pending) :
        /\ link' = [link EXCEPT !.out = @ \o SubSeq(pending, 1, n)]
        /\ pending' = SubSeq(pending, n + 1, Len(pending))
  BY DrainShape
<1>2. pending \in Seq(ToServer) /\ Len(pending) \in Nat /\ n \in Nat
  BY <1>1, LenProperties DEF TypeOK
<1> DEFINE first == SubSeq(pending, 1, n)
<1>3. first \in Seq(ToServer) /\ \A i \in 1..Len(first) : first[i].op \in {"LINE", "JOIN"}
  BY <1>1, <1>2, FirstOf DEF Negotiation, WaitingLines
<1>4. WaitingLines'
  <2>1. /\ Len(pending') = Len(pending) - n
        /\ \A i \in 1..(Len(pending) - n) : pending'[i] = pending[n + i] /\ n + i \in 1..Len(pending)
    <3>1. Len(pending) \in 0..Len(pending)
      BY <1>2
    <3> QED BY <1>1, <1>2, <3>1, CutOf
  <2> QED BY <1>2, <2>1 DEF Negotiation, WaitingLines
<1>5. LinkIsUp' /\ SaslGoesOn'
  <2>1. phase = "up" /\ phase' = "up" /\ UNCHANGED <<neg, server>>
    BY DEF Drain
  <2> HIDE DEF first
  <2>2. link' = [link EXCEPT !.out = @ \o first]
    BY <1>1 DEF first
  <2> QED BY <1>3, <2>1, <2>2, SayStep
<1> QED BY <1>4, <1>5 DEF Negotiation

LEMMA ResetStep ==
  ASSUME TypeOK, NoConnection, phase' # "up"
  PROVE  Negotiation'
<1>1. server'.kind = server.kind /\ server'.session = NoSession
  BY DEF NoConnection, TypeOK
<1>2. LinkIsUp' /\ ~link'.open
  BY <1>1 DEF NoConnection, LinkIsUp, FreshNeg
<1>3. Len(pending') = 0
  BY EmptySeq DEF NoConnection
<1> QED BY <1>2, <1>3 DEF Negotiation, SaslGoesOn, Deciding, WaitingLines

LEMMA ConnectStep == ASSUME TypeOK, Negotiation, ConnectSucceeds PROVE Negotiation'
<1> DEFINE ask == Msg("REQ", IF server.kind.sasl THEN Caps ELSE {"account-tag"})
           user == Msg("USER", << >>)
<1>1. /\ phase' = "up" /\ link'.open /\ link'.in = << >> /\ link'.out = << ask, user >>
      /\ UNCHANGED <<neg, pending, server>> /\ phase = "connecting"
  BY DEF ConnectSucceeds
<1>2. ask.op = "REQ" /\ user.op = "USER"
  BY DEF Msg
<1> HIDE DEF ask, user
<1>3. Len(link'.out) = 2 /\ link'.out[1] = ask /\ link'.out[2] = user /\ Len(link'.in) = 0
  BY <1>1, EmptySeq
<1>4. /\ Lacks(link'.out, "END") /\ Once(link'.out, "REQ")
      /\ \A op : Lacks(link'.in, op) /\ Once(link'.in, op)
  BY <1>2, <1>3 DEF Lacks, Once
<1>5. neg = FreshNeg /\ server.session = NoSession
  BY <1>1 DEF Negotiation, LinkIsUp
<1>6. server.kind.accepts => server.kind.sasl
  BY KindTypes
<1>7. SaslGoesOn'
  BY <1>1, <1>2, <1>3, <1>4, <1>5, <1>6 DEF SaslGoesOn, Deciding, FreshNeg, NoSession
<1> QED BY <1>1, <1>7 DEF Negotiation, LinkIsUp, WaitingLines

\* A message of the server is read: only a refusal of the first request, or an
\* acknowledgement, moves negotiation on while SASL is undecided.
LEMMA ReadStep ==
  ASSUME TypeOK, Negotiation, NEW op, Reading(op),
         \/ ReadAck \/ ReadNak \/ ReadAuthenticate \/ ReadSuccess \/ ReadFailure
         \/ ReadWelcome \/ ReadMotd \/ ReadKick
  PROVE  Negotiation'
<1>1. PICK lines \in Seq(ToServer) : Reply(lines)
  BY ReadShape
<1>2. /\ link'.open = link.open /\ link'.in = Tail(link.in) /\ link'.out = link.out \o lines
      /\ link.in # << >> /\ link.in \in Seq(ToClient) /\ link.out \in Seq(ToServer)
  BY <1>1, ReplyShape
<1>3. phase = "up" /\ UNCHANGED <<phase, pending, server>>
  BY DEF Reading
<1>4. LinkIsUp' /\ WaitingLines'
  BY <1>2, <1>3 DEF Negotiation, LinkIsUp, WaitingLines
<1>5. SaslGoesOn'
  <2> SUFFICES ASSUME Deciding' PROVE SaslGoesOn'
    BY DEF SaslGoesOn
  <2>1. Deciding
    BY <1>2, <1>3 DEF Deciding
  <2>2. /\ neg.pending /\ ~neg.ended /\ ~server.session.registered
        /\ server.session.holding \/ (Len(link.out) > 0 /\ link.out[1].op = "REQ")
        /\ Lacks(link.out, "END") /\ Lacks(link.in, "SUCCESS") /\ Lacks(link.in, "FAILURE")
    BY <2>1 DEF Negotiation, SaslGoesOn
  <2>3. Lacks(link'.in, "SUCCESS") /\ Lacks(link'.in, "FAILURE")
        /\ Head(link.in).op # "SUCCESS" /\ Head(link.in).op # "FAILURE"
    BY <1>2, <2>2, LacksTail
  <2>4. (Len(link.out) > 0) => (Len(link'.out) > 0 /\ link'.out[1] = link.out[1])
    <3>1. Len(link.out) > 0 => 1 \in 1..Len(link.out)
      BY <1>2, JoinOf
    <3> QED BY <1>2, <3>1, JoinOf
  \* Whatever is said besides a request leaves the refusals and requests as they were.
  <2>5. ASSUME neg' = neg, NEW said \in Seq(ToServer), Reply(said),
               NEW x \in {"AUTHENTICATE", "PASSWORD", "JOIN"}, NEW a,
               said = << >> \/ said = << Msg(x, a) >>
        PROVE  SaslGoesOn'
    <3>0. link'.out = link.out \o said
      BY <2>5, ReplyShape
    <3>1. Lacks(said, "END") /\ Lacks(said, "REQ")
      <4>1. Len(<< >>) = 0 /\ Len(<< Msg(x, a) >>) = 1 /\ << Msg(x, a) >>[1].op = x
        BY EmptySeq DEF Msg
      <4> QED BY <2>5, <4>1 DEF Lacks
    <3>2. /\ Lacks(link'.out, "END")
          /\ Lacks(link.out, "REQ") => Lacks(link'.out, "REQ")
          /\ Once(link.out, "REQ") => Once(link'.out, "REQ")
          /\ Lacks(link.in, "NAK") => Lacks(link'.in, "NAK")
          /\ Once(link.in, "NAK") => Once(link'.in, "NAK")
      BY <1>2, <2>2, <3>0, <3>1, LacksPieces, LacksTail
    <3>3. ASSUME \A i \in 1..Len(link.out) : link.out[i].op = "REQ" => link.out[i].arg = {"sasl"}
          PROVE  \A i \in 1..Len(link'.out) : link'.out[i].op = "REQ" => link'.out[i].arg = {"sasl"}
      <4> SUFFICES ASSUME NEW i \in 1..Len(link'.out), link'.out[i].op = "REQ"
                   PROVE  link'.out[i].arg = {"sasl"}
        OBVIOUS
      <4>1. /\ Len(link.out) \in Nat /\ Len(said) \in Nat
            /\ Len(link'.out) = Len(link.out) + Len(said)
            /\ \A k \in 1..Len(link.out) : link'.out[k] = link.out[k]
            /\ \A k \in 1..Len(said) : link'.out[Len(link.out) + k] = said[k]
        BY <1>2, <3>0, JoinOf
      <4>2. i \in 1..Len(link.out)
        <5> SUFFICES ASSUME i \notin 1..Len(link.out) PROVE FALSE
          OBVIOUS
        <5>1. i - Len(link.out) \in 1..Len(said) /\ i = Len(link.out) + (i - Len(link.out))
          BY <4>1
        <5>2. said[i - Len(link.out)].op = "REQ"
          BY <4>1, <5>1
        <5> QED BY <3>1, <5>1, <5>2 DEF Lacks
      <4> QED BY <3>3, <4>1, <4>2
    <3>4. neg.retried =>
            /\ Lacks(link.in, "NAK")
            /\ \A i \in 1..Len(link.out) : link.out[i].op = "REQ" => link.out[i].arg = {"sasl"}
      BY <2>1 DEF Negotiation, SaslGoesOn
    <3>5. ~neg.retried =>
            /\ Lacks(link.out, "REQ") \/ Lacks(link.in, "NAK")
            /\ Once(link.out, "REQ") /\ Once(link.in, "NAK")
      BY <2>1 DEF Negotiation, SaslGoesOn
    <3> QED BY <1>3, <2>2, <2>3, <2>4, <2>5, <3>2, <3>3, <3>4, <3>5 DEF SaslGoesOn
  <2>6. CASE ReadAck \/ ReadAuthenticate \/ ReadWelcome \/ ReadMotd \/ ReadKick
    <3>1. neg' = neg
      BY <2>2, <2>6 DEF ReadAck, ReadAuthenticate, ReadWelcome, ReadMotd, ReadKick
    <3>2. \/ Reply(<< >>) \/ Reply(<< Msg("AUTHENTICATE", << >>) >>)
          \/ Reply(<< Msg("PASSWORD", << >>) >>) \/ Reply(<< Msg("JOIN", Channels) >>)
      BY <2>2, <2>6 DEF ReadAck, ReadAuthenticate, ReadWelcome, ReadMotd, ReadKick
    <3> QED BY <2>5, <3>1, <3>2, WireTypes
  <2>7. CASE ReadSuccess \/ ReadFailure
    BY <2>3, <2>7 DEF ReadSuccess, ReadFailure, Reading
  <2>8. CASE ReadNak
    <3> DEFINE retry == << Msg("REQ", {"sasl"}) >>
    <3>1. Head(link.in).op = "NAK" /\ ~Lacks(link.in, "NAK")
      BY <1>2, <2>8, LacksTail DEF ReadNak, Reading
    <3>2. ~neg.retried /\ Lacks(link.out, "REQ") /\ Once(link.in, "NAK")
      BY <2>1, <3>1 DEF Negotiation, SaslGoesOn
    <3>3. neg' = [neg EXCEPT !.retried = TRUE] /\ Reply(retry)
      BY <2>2, <2>8, <3>2 DEF ReadNak
    <3>4. retry \in Seq(ToServer) /\ Len(retry) = 1 /\ retry[1].op = "REQ" /\ retry[1].arg = {"sasl"}
      BY WireTypes DEF Msg
    <3> HIDE DEF retry
    <3>5. link'.out = link.out \o retry
      BY <2>8, <3>3, <3>4, ReplyShape
    <3>6. Lacks(retry, "END")
      BY <3>4 DEF Lacks
    <3>7. Lacks(link'.out, "END")
      BY <1>2, <2>2, <3>4, <3>5, <3>6, LacksPieces
    <3>8. Lacks(link'.in, "NAK")
      BY <1>2, <3>1, <3>2, LacksTail
    <3>9. ASSUME NEW i \in 1..Len(link'.out), link'.out[i].op = "REQ"
          PROVE  link'.out[i].arg = {"sasl"}
      <4>0. /\ Len(link.out) \in Nat /\ Len(link'.out) = Len(link.out) + Len(retry)
            /\ \A k \in 1..Len(link.out) : link'.out[k] = link.out[k]
            /\ \A k \in 1..Len(retry) : link'.out[Len(link.out) + k] = retry[k]
        <5>1. link.out \in Seq(ToServer) /\ retry \in Seq(ToServer)
          BY <1>2, <3>4
        <5>2. /\ Len(link.out) \in Nat /\ Len(link.out \o retry) = Len(link.out) + Len(retry)
              /\ \A k \in 1..Len(link.out) : (link.out \o retry)[k] = link.out[k]
              /\ \A k \in 1..Len(retry) : (link.out \o retry)[Len(link.out) + k] = retry[k]
          BY <5>1, JoinOf
        <5> QED BY ONLY <3>5, <5>2
      <4>1. /\ Len(link.out) \in Nat /\ Len(link'.out) = Len(link.out) + 1
            /\ \A k \in 1..Len(link.out) : link'.out[k] = link.out[k]
            /\ link'.out[Len(link.out) + 1] = retry[1]
        BY <3>4, <4>0
      <4>2. CASE i \in 1..Len(link.out)
        BY <3>2, <3>9, <4>1, <4>2 DEF Lacks
      <4>3. CASE i \notin 1..Len(link.out)
        <5>1. i = Len(link.out) + 1
          BY <4>1, <4>3
        <5> QED BY <3>4, <4>1, <5>1
      <4> QED BY <4>2, <4>3
    <3>10. neg'.pending /\ ~neg'.ended /\ neg'.retried
      BY <2>2, <3>3 DEF TypeOK
    <3> QED BY <1>3, <2>2, <2>3, <2>4, <3>7, <3>8, <3>9, <3>10 DEF SaslGoesOn
  <2> QED BY <2>6, <2>7, <2>8
<1> QED BY <1>4, <1>5 DEF Negotiation

\* The server answers a line of the bot: it registers the bot only when nothing holds it.
LEMMA ServeStep == ASSUME TypeOK, Negotiation, Server PROVE Negotiation'
<1>1. PICK s \in Session, messages \in Seq(ToClient), op \in {"REQ", "USER", "AUTHENTICATE",
             "PASSWORD", "END", "JOIN", "LINE"} : Serve(op) /\ Answer(s, messages)
  BY ServeShape
<1>2. /\ link'.open = link.open /\ link.open
      /\ link'.out = Tail(link.out) /\ server'.kind = server.kind
      /\ link.out # << >> /\ link.in \in Seq(ToClient) /\ link.out \in Seq(ToServer)
  BY <1>1, AnswerShape
<1>3. UNCHANGED <<phase, pending, neg>>
  BY <1>1 DEF Serve, actorVars
<1>4. LinkIsUp' /\ WaitingLines'
  BY <1>2, <1>3 DEF Negotiation, LinkIsUp, WaitingLines
<1>5. SaslGoesOn'
  <2> SUFFICES ASSUME Deciding' PROVE SaslGoesOn'
    BY DEF SaslGoesOn
  <2>1. /\ Len(Tail(link.out)) = Len(link.out) - 1 /\ Len(link.out) \in Nat \ {0}
        /\ Head(link.out) = link.out[1]
        /\ \A i \in 1..(Len(link.out) - 1) : Tail(link.out)[i] = link.out[i + 1]
    BY <1>2, TailOf
  <2>2. server.session \in Session /\ server.kind.accepts /\ server.kind.cap
        /\ "sasl" \in server.kind.offers
    <3>1. server.kind.accepts
      BY <1>2 DEF Deciding
    <3> QED BY <3>1, KindTypes DEF TypeOK
  \* Nobody is logged in yet, or there would be nothing to decide.
  <2>3. ASSUME NEW o, NEW k \in Session, NEW said \in Seq(ToClient), Serve(o), Answer(k, said)
        PROVE  ~k.loggedin
    <3>1. server'.session = Welcomed(k)
      BY <2>3, AnswerShape
    <3>2. server'.session.loggedin = k.loggedin
      BY <3>1 DEF Welcomed, Session
    <3> QED BY <3>2 DEF Deciding
  \* Who is held is not registered, whatever else the answer is.
  <2>4. ASSUME NEW o, NEW k \in Session, NEW said \in Seq(ToClient), Serve(o), Answer(k, said),
               k.holding
        PROVE  server'.session = k /\ link'.in = link.in \o said
    <3>1. Welcomed(k) = k /\ Greeting(k) = << >>
      BY <2>4 DEF Welcomed, Greeting
    <3>2. link.in \o said \in Seq(ToClient)
      BY <1>2, JoinOf
    <3> QED BY <2>4, <3>1, <3>2, AnswerShape, ConcatEmptySeq
  <2>5. ASSUME ~server.session.loggedin
        PROVE  /\ neg.pending /\ ~neg.ended /\ ~server.session.registered
               /\ server.session.holding \/ (Len(link.out) > 0 /\ link.out[1].op = "REQ")
               /\ Lacks(link.out, "END") /\ Lacks(link.in, "SUCCESS") /\ Lacks(link.in, "FAILURE")
               /\ neg.retried =>
                    /\ Lacks(link.in, "NAK")
                    /\ \A i \in 1..Len(link.out) : link.out[i].op = "REQ" => link.out[i].arg = {"sasl"}
               /\ ~neg.retried =>
                    /\ Lacks(link.out, "REQ") \/ Lacks(link.in, "NAK")
                    /\ Once(link.out, "REQ") /\ Once(link.in, "NAK")
    BY <1>2, <2>2, <2>5 DEF Negotiation, SaslGoesOn, Deciding
  <2>6. /\ Lacks(link.out, "END") => Lacks(link'.out, "END") /\ Head(link.out).op # "END"
        /\ Lacks(link.out, "REQ") => Lacks(link'.out, "REQ") /\ Head(link.out).op # "REQ"
        /\ Once(link.out, "REQ") => Once(link'.out, "REQ")
        /\ Once(link.out, "REQ") /\ Head(link.out).op = "REQ" => Lacks(link'.out, "REQ")
    BY <1>2, LacksTail
  <2>7. (\A i \in 1..Len(link.out) : link.out[i].op = "REQ" => link.out[i].arg = {"sasl"}) =>
          \A i \in 1..Len(link'.out) : link'.out[i].op = "REQ" => link'.out[i].arg = {"sasl"}
    <3>1. \A i \in 1..Len(link'.out) : i + 1 \in 1..Len(link.out) /\ link'.out[i] = link.out[i + 1]
      BY <1>2, <2>1
    <3> QED BY <3>1
  <2>8. CASE ServeRequest
    <3> DEFINE asked == Head(link.out).arg
               said == << Msg(IF asked \subseteq server.kind.offers THEN "ACK" ELSE "NAK", asked) >>
               k == [server.session EXCEPT !.holding = TRUE]
    <3>1. Head(link.out) \in ToServer /\ Head(link.out).op = "REQ" /\ link.out[1].op = "REQ"
          /\ link.out[1].arg = asked
      BY <1>2, <2>1, <2>8, TailOf DEF ServeRequest, Serve
    <3>2. asked \in SUBSET Caps
      BY <3>1 DEF ToServer, Plain
    <3>3. said \in Seq(ToClient) /\ Len(said) = 1 /\ said[1].op \in {"ACK", "NAK"}
          /\ (asked = {"sasl"} => said[1].op = "ACK")
      <4>1. Msg("ACK", asked) \in ToClient /\ Msg("NAK", asked) \in ToClient
        BY <3>2 DEF Msg, ToClient
      <4>2. asked = {"sasl"} => asked \subseteq server.kind.offers
        BY <2>2
      <4> QED BY <4>1, <4>2 DEF Msg
    <3>4. k \in Session /\ k.holding /\ k.loggedin = server.session.loggedin
          /\ k.registered = server.session.registered
      BY <2>2 DEF Session
    <3>5. Serve("REQ") /\ Answer(k, said)
      BY <2>2, <2>8 DEF ServeRequest
    <3> HIDE DEF k, said, asked
    <3>6. server'.session = k /\ link'.in = link.in \o said /\ ~server.session.loggedin
      BY <2>3, <2>4, <3>3, <3>4, <3>5
    <3>7. /\ Lacks(said, "SUCCESS") /\ Lacks(said, "FAILURE") /\ Once(said, "NAK")
          /\ asked = {"sasl"} => Lacks(said, "NAK")
      BY <3>3 DEF Lacks, Once
    <3>8. ~Lacks(link.out, "REQ")
      BY <2>6, <3>1
    <3>9. /\ Lacks(link'.in, "SUCCESS") /\ Lacks(link'.in, "FAILURE")
          /\ Lacks(link.in, "NAK") => Once(link'.in, "NAK")
          /\ Lacks(link.in, "NAK") /\ asked = {"sasl"} => Lacks(link'.in, "NAK")
      BY <1>2, <2>5, <3>3, <3>6, <3>7, LacksPieces
    <3>10. CASE neg.retried
      <4>1. asked = {"sasl"}
        BY <2>1, <2>5, <3>1, <3>6, <3>10
      <4> QED BY <1>3, <2>5, <2>6, <2>7, <3>4, <3>6, <3>9, <3>10, <4>1 DEF SaslGoesOn
    <3>11. CASE ~neg.retried
      BY <1>3, <2>5, <2>6, <3>1, <3>4, <3>6, <3>8, <3>9, <3>11 DEF SaslGoesOn
    <3> QED BY <3>10, <3>11
  \* Any other line is answered while the bot is held.
  <2>9. ASSUME NEW o, o \notin {"REQ", "END"}, Serve(o), NEW k \in Session, Answer(k, << >>)
                    \/ Answer(k, << Msg("AUTHENTICATE", << >>) >>),
               k.holding = server.session.holding, k.loggedin = server.session.loggedin,
               k.registered = server.session.registered
        PROVE  SaslGoesOn'
    <3>1. PICK said \in {<< >>, << Msg("AUTHENTICATE", << >>) >>} : Answer(k, said)
      BY <2>9
    <3>2. said \in Seq(ToClient) /\ \A i \in 1..Len(said) : said[i].op = "AUTHENTICATE"
      <4>1. CASE said = << >>
        BY <4>1, EmptySeq
      <4>2. CASE said = << Msg("AUTHENTICATE", << >>) >>
        <5>1. said \in Seq(ToClient)
          BY <4>2, WireTypes
        <5>2. Len(said) = 1 /\ said[1].op = "AUTHENTICATE"
          BY <4>2 DEF Msg
        <5> QED BY <5>1, <5>2
      <4> QED BY <4>1, <4>2
    <3>3. Lacks(said, "SUCCESS") /\ Lacks(said, "FAILURE") /\ Lacks(said, "NAK")
      BY <3>2 DEF Lacks
    <3>4. ~server.session.loggedin
      BY <2>3, <2>9, <3>1, <3>2
    <3>5. server.session.holding
      BY <2>1, <2>5, <2>9, <3>4 DEF Serve
    <3>6. server'.session = k /\ link'.in = link.in \o said
      BY <2>4, <2>9, <3>1, <3>2, <3>5
    <3>7. /\ Lacks(link'.in, "SUCCESS") /\ Lacks(link'.in, "FAILURE")
          /\ Lacks(link.in, "NAK") => Lacks(link'.in, "NAK")
          /\ Once(link.in, "NAK") => Once(link'.in, "NAK")
      BY <1>2, <2>5, <3>2, <3>3, <3>4, <3>6, LacksPieces
    <3> QED BY <1>3, <2>5, <2>6, <2>7, <2>9, <3>4, <3>5, <3>6, <3>7 DEF SaslGoesOn
  <2>10. CASE ServeUser
    <3> DEFINE k == [server.session EXCEPT !.user = TRUE]
    <3>1. /\ k \in Session /\ k.holding = server.session.holding
          /\ k.loggedin = server.session.loggedin /\ k.registered = server.session.registered
      BY <2>2 DEF Session
    <3>2. Serve("USER") /\ Answer(k, << >>)
      BY <2>10 DEF ServeUser
    <3> QED BY <2>9, <3>1, <3>2
  <2>11. CASE ServeAuthenticate \/ ServeLine
    BY <2>2, <2>9, <2>11 DEF ServeAuthenticate, ServeLine
  <2>12. CASE ServePassword
    <3> DEFINE k == [server.session EXCEPT !.loggedin = TRUE]
               said == << Msg("SUCCESS", << >>), Msg("SUCCESS", << >>) >>
    <3>1. k \in Session /\ k.loggedin /\ said \in Seq(ToClient)
      BY <2>2, WireTypes DEF Session
    <3>2. Serve("PASSWORD") /\ Answer(k, said)
      BY <2>2, <2>12 DEF ServePassword
    <3> HIDE DEF k, said
    <3> QED BY <2>3, <3>1, <3>2
  <2>13. CASE ServeEnd
    <3> DEFINE k == [server.session EXCEPT !.holding = FALSE]
    <3>1. k \in Session /\ k.loggedin = server.session.loggedin
      BY <2>2 DEF Session
    <3>2. Serve("END") /\ Answer(k, << >>)
      BY <2>13 DEF ServeEnd
    <3>3. ~server.session.loggedin
      BY <2>3, <3>1, <3>2, WireTypes
    <3> QED BY <2>5, <2>6, <3>2, <3>3 DEF Serve
  <2>14. CASE ServeJoin
    <3> DEFINE k == [server.session EXCEPT !.joined =
                       IF server.session.registered THEN @ \cup Head(link.out).arg ELSE @]
    <3>1. Head(link.out) \in ToServer /\ Head(link.out).op = "JOIN"
      BY <1>2, <2>1, <2>14, TailOf DEF ServeJoin, Serve
    <3>2. Head(link.out).arg \in SUBSET Channels
      BY <3>1 DEF ToServer, Plain
    <3>3. /\ k \in Session /\ k.holding = server.session.holding
          /\ k.loggedin = server.session.loggedin /\ k.registered = server.session.registered
      BY <2>2, <3>2 DEF Session
    <3>4. Serve("JOIN") /\ Answer(k, << >>)
      BY <2>14 DEF ServeJoin
    <3> QED BY <2>9, <3>3, <3>4
  <2> QED BY <2>8, <2>10, <2>11, <2>12, <2>13, <2>14 DEF Server
<1> QED BY <1>4, <1>5 DEF Negotiation

LEMMA KickStep ==
  ASSUME TypeOK, Negotiation, NEW ch \in Channels, Kick(ch)
  PROVE  Negotiation'
<1> DEFINE kick == << Msg("KICK", ch) >>
<1>1. kick \in Seq(ToClient) /\ Len(kick) = 1 /\ kick[1].op = "KICK"
  BY DEF Msg, ToClient
<1>2. link.in \in Seq(ToClient) /\ Append(link.in, Msg("KICK", ch)) = link.in \o kick
  <2>1. Msg("KICK", ch) \in ToClient
    BY DEF Msg, ToClient
  <2> QED BY <2>1, AppendIsConcat DEF TypeOK
<1> HIDE DEF kick
<1>3. link'.open = link.open /\ link.open /\ link'.out = link.out /\ link'.in = link.in \o kick
  BY <1>2 DEF Kick, TypeOK
<1>4. UNCHANGED <<phase, pending, neg>> /\ phase = "up"
  BY <1>3 DEF Kick, actorVars, Negotiation, LinkIsUp
<1>5. /\ server'.kind = server.kind /\ server'.session.loggedin = server.session.loggedin
      /\ server'.session.registered = server.session.registered
      /\ server'.session.holding = server.session.holding
  BY DEF Kick, TypeOK, Session
<1>6. Lacks(kick, "SUCCESS") /\ Lacks(kick, "FAILURE") /\ Lacks(kick, "NAK")
  BY <1>1 DEF Lacks
<1>7. /\ Lacks(link.in, "SUCCESS") => Lacks(link'.in, "SUCCESS")
      /\ Lacks(link.in, "FAILURE") => Lacks(link'.in, "FAILURE")
      /\ Lacks(link.in, "NAK") => Lacks(link'.in, "NAK")
      /\ Once(link.in, "NAK") => Once(link'.in, "NAK")
  BY <1>1, <1>2, <1>3, <1>6, LacksPieces
<1>8. SaslGoesOn'
  BY <1>3, <1>4, <1>5, <1>7 DEF Negotiation, SaslGoesOn, Deciding
<1> QED BY <1>3, <1>4, <1>8 DEF Negotiation, LinkIsUp, WaitingLines

LEMMA NegotiationStep == TypeOK /\ Negotiation /\ [Next]_vars => Negotiation'
<1> SUFFICES ASSUME TypeOK, Negotiation, [Next]_vars PROVE Negotiation'
  OBVIOUS
\* Steps beside the connection.
<1>1. ASSUME UNCHANGED <<neg, pending, link, server>>, (phase' = "up") <=> (phase = "up")
      PROVE  Negotiation'
  <2>1. FreshNeg' = FreshNeg
    BY <1>1 DEF FreshNeg
  <2>2. LinkIsUp'
    BY <1>1, <2>1 DEF Negotiation, LinkIsUp
  <2>3. SaslGoesOn'
    BY <1>1 DEF Negotiation, SaslGoesOn, Deciding
  <2>4. WaitingLines'
    BY <1>1 DEF Negotiation, WaitingLines
  <2> QED BY <2>2, <2>3, <2>4 DEF Negotiation
<1>2. CASE \/ \E n \in 1..MaxLines : Send(n)
           \/ Reconnect \/ Shutdown \/ ForwardEvent \/ EmitEvent
           \/ BackoffExpires \/ BackoffReceives \/ UNCHANGED vars
  BY <1>1, <1>2 DEF Send, Reconnect, Shutdown, RequestQuit, ForwardEvent, EmitEvent, BackoffExpires,
     BackoffReceives, vars, coreVars, actorVars, wireVars, permsVars
<1>3. CASE QuitInTime \/ QuitAborted
  BY <1>3, ResetStep DEF QuitInTime, QuitAborted, AllQuit, ConnectAll
<1>4. CASE ConnectFails \/ ConnectionEnds
  BY <1>4, ResetStep DEF ConnectFails, ConnectionEnds, RunEnds
<1>5. CASE ReceiveQuit
  BY <1>5, ResetStep DEF ReceiveQuit
<1>6. CASE ConnectSucceeds
  BY <1>6, ConnectStep
<1>7. CASE ReceiveMessage
  <2> DEFINE id == Head(inbox).arg[1]
             n == Head(inbox).arg[2]
  <2>1. Head(inbox) \in Order /\ Head(inbox).op = "MESSAGE"
    BY <1>7, TailOf DEF ReceiveMessage, TypeOK
  <2>2. id \in Nat /\ n \in Nat
    BY <2>1 DEF Order, Plain
  <2>3. Submit(Lines(id, n)) /\ phase = "up" /\ phase' = "up" /\ UNCHANGED <<neg, server>>
    BY <1>7 DEF ReceiveMessage
  <2> HIDE DEF id, n
  <2>4. Lines(id, n) \in Seq(ToServer) /\ Len(Lines(id, n)) = n
    BY <2>2, LineTypes
  <2>5. \A k \in 1..n : Lines(id, n)[k] = Msg("LINE", << id, k >>)
    BY <2>2, LineTypes
  <2>6. \A k \in 1..Len(Lines(id, n)) : Lines(id, n)[k].op = "LINE"
    BY <2>4, <2>5 DEF Msg
  <2> QED BY <2>3, <2>4, <2>6, SubmitStep
<1>8. CASE Drain
  BY <1>8, DrainStep
<1>9. ASSUME NEW ch \in Channels, RejoinTick(ch) PROVE Negotiation'
  <2> DEFINE join == << Msg("JOIN", {ch}) >>
  <2>1. Submit(join) /\ join \in Seq(ToServer) /\ phase = "up" /\ phase' = "up"
        /\ UNCHANGED <<neg, server>>
    BY <1>9, WireTypes DEF RejoinTick
  <2>2. Len(join) = 1 /\ join[1].op = "JOIN"
    BY DEF Msg
  <2> HIDE DEF join
  <2> QED BY <2>1, <2>2, SubmitStep
<1>10. CASE Stream /\ ~ConnectionEnds
  BY <1>10, ReadStep DEF Stream, ReadAck, ReadNak, ReadAuthenticate, ReadSuccess, ReadFailure,
     ReadWelcome, ReadMotd, ReadKick
<1>11. CASE Server
  BY <1>11, ServeStep
<1>12. CASE \E ch \in Channels : Kick(ch)
  BY <1>12, KickStep
<1>13. CASE DropLink
  <2>1. /\ UNCHANGED <<phase, pending, neg>> /\ link.open /\ ~link'.open
        /\ server'.session = NoSession
    BY <1>13 DEF DropLink, actorVars, TypeOK
  <2> QED BY <2>1 DEF Negotiation, LinkIsUp, SaslGoesOn, Deciding, WaitingLines
<1> QED BY <1>2, <1>3, <1>4, <1>5, <1>6, <1>7, <1>8, <1>9, <1>10, <1>11, <1>12, <1>13
        DEF Next, Runtime, Actions, Stream

-----------------------------------------------------------------------------
(* The order of messages.                                                  *)

Before(a, b) == a[1] < b[1] \/ (a[1] = b[1] /\ a[2] < b[2])

LineAt(s, i) == s[i].op = "LINE"

\* The lines of messages among those of s.
LinesOf(s) == {s[i].arg : i \in {k \in 1..Len(s) : LineAt(s, k)}}

Increasing(s) ==
  \A i, j \in 1..Len(s) : i < j /\ LineAt(s, i) /\ LineAt(s, j) => Before(s[i].arg, s[j].arg)

AllBefore(A, B) == \A a \in A, b \in B : Before(a, b)
Older(A, n) == \A a \in A : a[1] < n

\* No line of message n or of a later one has been said or waits to be said.
Unused(n) == relayed[1] < n /\ Older(LinesOf(link.out), n) /\ Older(LinesOf(pending), n)

\* Message number i of the inbox.
MessageAt(i) == inbox[i].op = "MESSAGE"

\* What was relayed comes before what is on the wire, that before what waits for the rate
\* limiter, that before the messages of the inbox, and those before messages not yet sent.
WireOrdered ==
  /\ Increasing(link.out) /\ Increasing(pending)
  /\ AllBefore(LinesOf(link.out), LinesOf(pending))
  /\ AllBefore({relayed}, LinesOf(link.out)) /\ AllBefore({relayed}, LinesOf(pending))

InboxOrdered ==
  /\ Unused(spent.messages + 1)
  /\ \A i \in 1..Len(inbox) : MessageAt(i) =>
        inbox[i].arg[1] <= spent.messages /\ Unused(inbox[i].arg[1])
  /\ \A i, j \in 1..Len(inbox) : i < j /\ MessageAt(i) /\ MessageAt(j) =>
        inbox[i].arg[1] < inbox[j].arg[1]

Ordered == WireOrdered /\ InboxOrdered

LEMMA LineArgs ==
  ASSUME NEW s \in Seq(ToServer)
  PROVE  /\ LinesOf(s) \subseteq Nat \X Nat
         /\ \A i \in 1..Len(s) : LineAt(s, i) => s[i].arg \in LinesOf(s)
<1>1. \A i \in 1..Len(s) : s[i] \in ToServer
  BY ElementOfSeq
<1>2. \A m \in ToServer : m.op = "LINE" => m.arg \in Nat \X Nat
  BY DEF ToServer, Plain
<1> QED BY <1>1, <1>2 DEF LinesOf, LineAt

LEMMA LinesOfJoin ==
  ASSUME NEW s \in Seq(ToServer), NEW t \in Seq(ToServer)
  PROVE  /\ LinesOf(s \o t) = LinesOf(s) \cup LinesOf(t)
         /\ Increasing(s) /\ Increasing(t) /\ AllBefore(LinesOf(s), LinesOf(t))
              => Increasing(s \o t)
<1> DEFINE q == s \o t
<1>1. /\ Len(s) \in Nat /\ Len(t) \in Nat /\ Len(q) = Len(s) + Len(t)
      /\ \A i \in 1..Len(s) : q[i] = s[i]
      /\ \A i \in 1..Len(t) : q[Len(s) + i] = t[i]
  BY JoinOf
<1> HIDE DEF q
<1>2. \A i \in 1..Len(q) : i \in 1..Len(s) \/ i - Len(s) \in 1..Len(t)
  BY <1>1
<1>3. \A i \in 1..Len(q) : i - Len(s) \in 1..Len(t) => q[i] = t[i - Len(s)]
  <2> SUFFICES ASSUME NEW i \in 1..Len(q), i - Len(s) \in 1..Len(t) PROVE q[i] = t[i - Len(s)]
    OBVIOUS
  <2>1. i = Len(s) + (i - Len(s))
    BY <1>1
  <2> QED BY <1>1, <2>1
<1>4. LinesOf(q) \subseteq LinesOf(s) \cup LinesOf(t)
  <2> SUFFICES ASSUME NEW i \in 1..Len(q), LineAt(q, i)
               PROVE  q[i].arg \in LinesOf(s) \cup LinesOf(t)
    BY DEF LinesOf
  <2>1. CASE i \in 1..Len(s)
    <3>1. q[i] = s[i]
      BY <1>1, <2>1
    <3> QED BY <2>1, <3>1 DEF LinesOf, LineAt
  <2>2. CASE i - Len(s) \in 1..Len(t)
    <3>1. q[i] = t[i - Len(s)]
      BY <1>3, <2>2
    <3> QED BY <2>2, <3>1 DEF LinesOf, LineAt
  <2> QED BY <1>2, <2>1, <2>2
<1>5. LinesOf(s) \subseteq LinesOf(q)
  <2>1. \A i \in 1..Len(s) : i \in 1..Len(q)
    BY <1>1
  <2> QED BY <1>1, <2>1 DEF LinesOf, LineAt
<1>6. LinesOf(t) \subseteq LinesOf(q)
  <2>1. \A i \in 1..Len(t) : Len(s) + i \in 1..Len(q)
    BY <1>1
  <2> QED BY <1>1, <2>1 DEF LinesOf, LineAt
<1>7. ASSUME Increasing(s), Increasing(t), AllBefore(LinesOf(s), LinesOf(t)),
             NEW i \in 1..Len(q), NEW j \in 1..Len(q), i < j, LineAt(q, i), LineAt(q, j)
      PROVE  Before(q[i].arg, q[j].arg)
  <2>1. CASE i \in 1..Len(s) /\ j \in 1..Len(s)
    BY <1>1, <1>7, <2>1 DEF Increasing, LineAt
  <2>2. CASE i \in 1..Len(s) /\ j - Len(s) \in 1..Len(t)
    <3>1. q[i] = s[i] /\ q[j] = t[j - Len(s)]
      BY <1>1, <1>3, <2>2
    <3>2. q[i].arg \in LinesOf(s) /\ q[j].arg \in LinesOf(t)
      BY <1>7, <2>2, <3>1 DEF LinesOf, LineAt
    <3> QED BY <1>7, <3>2 DEF AllBefore
  <2>3. CASE i - Len(s) \in 1..Len(t) /\ j - Len(s) \in 1..Len(t)
    <3>1. q[i] = t[i - Len(s)] /\ q[j] = t[j - Len(s)] /\ i - Len(s) < j - Len(s)
      BY <1>1, <1>3, <1>7, <2>3
    <3> QED BY <1>7, <2>3, <3>1 DEF Increasing, LineAt
  <2>4. ~(i - Len(s) \in 1..Len(t) /\ j \in 1..Len(s))
    BY <1>1, <1>7
  <2> QED BY <1>2, <2>1, <2>2, <2>3, <2>4
<1>8. Increasing(s) /\ Increasing(t) /\ AllBefore(LinesOf(s), LinesOf(t)) => Increasing(q)
  BY <1>7 DEF Increasing
<1> QED BY <1>4, <1>5, <1>6, <1>8 DEF q

LEMMA LinesOfCut ==
  ASSUME NEW s \in Seq(ToServer), NEW n \in 0..Len(s), NEW d \in 0..n
  PROVE  /\ LinesOf(SubSeq(s, d + 1, n)) \subseteq LinesOf(s)
         /\ LinesOf(SubSeq(s, 1, d)) \subseteq LinesOf(s)
         /\ Increasing(s) => /\ Increasing(SubSeq(s, d + 1, n)) /\ Increasing(SubSeq(s, 1, d))
                             /\ AllBefore(LinesOf(SubSeq(s, 1, d)), LinesOf(SubSeq(s, d + 1, n)))
<1> DEFINE u == SubSeq(s, 1, d)
           v == SubSeq(s, d + 1, n)
<1>1. Len(s) \in Nat /\ n \in Nat /\ d \in Nat /\ d \in 0..Len(s)
  BY LenProperties
<1>2. Len(u) = d /\ \A i \in 1..d : u[i] = s[i] /\ i \in 1..Len(s)
  BY <1>1, FirstOf
<1>3. Len(v) = n - d /\ \A i \in 1..(n - d) : v[i] = s[d + i] /\ d + i \in 1..Len(s)
  BY CutOf
<1> HIDE DEF u, v
<1>4. LinesOf(u) \subseteq LinesOf(s) /\ LinesOf(v) \subseteq LinesOf(s)
  BY <1>2, <1>3 DEF LinesOf, LineAt
<1>5. ASSUME Increasing(s) PROVE Increasing(u)
  BY <1>2, <1>5 DEF Increasing, LineAt
<1>6. ASSUME Increasing(s) PROVE Increasing(v)
  <2> SUFFICES ASSUME NEW i \in 1..Len(v), NEW j \in 1..Len(v), i < j, LineAt(v, i), LineAt(v, j)
               PROVE  Before(v[i].arg, v[j].arg)
    BY DEF Increasing
  <2>1. d + i < d + j /\ v[i] = s[d + i] /\ v[j] = s[d + j]
        /\ d + i \in 1..Len(s) /\ d + j \in 1..Len(s)
    BY <1>1, <1>3
  <2> QED BY <1>6, <2>1 DEF Increasing, LineAt
<1>7. ASSUME Increasing(s), NEW a \in LinesOf(u), NEW b \in LinesOf(v) PROVE Before(a, b)
  <2>1. PICK i \in 1..d : LineAt(u, i) /\ a = u[i].arg
    BY <1>2 DEF LinesOf
  <2>2. PICK j \in 1..(n - d) : LineAt(v, j) /\ b = v[j].arg
    BY <1>3 DEF LinesOf
  <2>3. i < d + j /\ i \in 1..Len(s) /\ d + j \in 1..Len(s) /\ u[i] = s[i] /\ v[j] = s[d + j]
    BY <1>1, <1>2, <1>3
  <2> QED BY <1>7, <2>1, <2>2, <2>3 DEF Increasing, LineAt
<1> QED BY <1>4, <1>5, <1>6, <1>7 DEF u, v, AllBefore

LEMMA LinesOfTail ==
  ASSUME NEW s \in Seq(ToServer), s # << >>
  PROVE  /\ LinesOf(Tail(s)) \subseteq LinesOf(s)
         /\ Increasing(s) => Increasing(Tail(s))
         /\ Increasing(s) /\ Head(s).op = "LINE" =>
              AllBefore({Head(s).arg}, LinesOf(Tail(s))) /\ Head(s).arg \in LinesOf(s)
<1>1. /\ Len(Tail(s)) = Len(s) - 1 /\ Len(s) \in Nat \ {0} /\ Head(s) = s[1]
      /\ \A i \in 1..(Len(s) - 1) : Tail(s)[i] = s[i + 1]
  BY TailOf
<1>2. \A i \in 1..Len(Tail(s)) : i + 1 \in 1..Len(s) /\ 1 < i + 1 /\ Tail(s)[i] = s[i + 1]
  BY <1>1
<1>3. 1 \in 1..Len(s)
  BY <1>1
<1>4. LinesOf(Tail(s)) \subseteq LinesOf(s)
  BY <1>2 DEF LinesOf, LineAt
<1>5. ASSUME Increasing(s) PROVE Increasing(Tail(s))
  <2> SUFFICES ASSUME NEW i \in 1..Len(Tail(s)), NEW j \in 1..Len(Tail(s)), i < j,
                      LineAt(Tail(s), i), LineAt(Tail(s), j)
               PROVE  Before(Tail(s)[i].arg, Tail(s)[j].arg)
    BY DEF Increasing
  <2>1. i + 1 < j + 1
    BY <1>1
  <2> QED BY <1>2, <1>5, <2>1 DEF Increasing, LineAt
<1>6. ASSUME Increasing(s), Head(s).op = "LINE", NEW b \in LinesOf(Tail(s))
      PROVE  Before(Head(s).arg, b)
  <2>1. PICK i \in 1..Len(Tail(s)) : LineAt(Tail(s), i) /\ b = Tail(s)[i].arg
    BY DEF LinesOf
  <2> QED BY <1>1, <1>2, <1>3, <1>6, <2>1 DEF Increasing, LineAt
<1>7. Head(s).op = "LINE" => Head(s).arg \in LinesOf(s)
  BY <1>1, <1>3 DEF LinesOf, LineAt
<1> QED BY <1>4, <1>5, <1>6, <1>7 DEF AllBefore

\* Without a line of a message there is no order to keep.
LEMMA NoLines ==
  ASSUME NEW s, Len(s) = 0 \/ \A i \in 1..Len(s) : s[i].op # "LINE"
  PROVE  LinesOf(s) = {} /\ Increasing(s)
  BY DEF LinesOf, LineAt, Increasing

\* The lines of one message.
LEMMA LinesOfMessage ==
  ASSUME NEW id \in Nat, NEW n \in Nat
  PROVE  Increasing(Lines(id, n)) /\ \A a \in LinesOf(Lines(id, n)) : a[1] = id
<1>1. Len(Lines(id, n)) = n /\ \A k \in 1..n : Lines(id, n)[k] = Msg("LINE", << id, k >>)
  BY LineTypes
<1>2. \A k \in 1..n : Lines(id, n)[k].arg = << id, k >>
  BY <1>1 DEF Msg
<1>3. Increasing(Lines(id, n))
  BY <1>1, <1>2 DEF Increasing, Before
<1>4. \A a \in LinesOf(Lines(id, n)) : a[1] = id
  BY <1>1, <1>2 DEF LinesOf
<1> QED BY <1>3, <1>4

LEMMA BeforeTransitive ==
  ASSUME NEW a \in Nat \X Nat, NEW b \in Nat \X Nat, NEW c \in Nat \X Nat,
         Before(a, b), Before(b, c)
  PROVE  Before(a, c)
<1>1. a[1] \in Nat /\ a[2] \in Nat /\ b[1] \in Nat /\ b[2] \in Nat /\ c[1] \in Nat /\ c[2] \in Nat
  OBVIOUS
<1> QED BY <1>1 DEF Before

\* What goes on the wire and into the outbound queue keeps its place.
LEMMA SubmitOrder ==
  ASSUME TypeOK, WireOrdered, NEW lines \in Seq(ToServer), Submit(lines), Increasing(lines),
         AllBefore(LinesOf(link.out), LinesOf(lines)), AllBefore(LinesOf(pending), LinesOf(lines))
  PROVE  /\ Increasing(link'.out) /\ Increasing(pending')
         /\ AllBefore(LinesOf(link'.out), LinesOf(pending'))
         /\ LinesOf(link'.out) \subseteq LinesOf(link.out) \cup LinesOf(lines)
         /\ LinesOf(pending') \subseteq LinesOf(pending) \cup LinesOf(lines)
<1>1. PICK d, n \in 0..Len(lines) :
           /\ d <= n /\ (pending # << >> => d = 0)
           /\ link' = [link EXCEPT !.out = @ \o SubSeq(lines, 1, d)]
           /\ pending' = pending \o SubSeq(lines, d + 1, n)
           /\ Len(pending) + (n - d) <= MaxPending
           /\ tokens' \in 0..Burst
  BY SubmitShape
<1>2. Len(lines) \in Nat /\ d \in Nat /\ n \in Nat /\ d \in 0..n
  BY <1>1, LenProperties
<1> DEFINE first == SubSeq(lines, 1, d)
           rest == SubSeq(lines, d + 1, n)
<1>3. /\ first \in Seq(ToServer) /\ rest \in Seq(ToServer) /\ Len(first) = d
  BY <1>1, <1>2, FirstOf, CutOf
<1>4. /\ LinesOf(first) \subseteq LinesOf(lines) /\ LinesOf(rest) \subseteq LinesOf(lines)
      /\ Increasing(first) /\ Increasing(rest) /\ AllBefore(LinesOf(first), LinesOf(rest))
  BY <1>2, LinesOfCut
<1>5. link'.out = link.out \o first /\ pending' = pending \o rest
  BY <1>1 DEF TypeOK
<1>6. pending # << >> => LinesOf(first) = {}
  <2>1. pending # << >> => Len(first) = 0
    BY <1>1, <1>3
  <2> HIDE DEF first
  <2> QED BY <2>1, NoLines
<1>7. pending = << >> => LinesOf(pending) = {}
  BY EmptySeq, NoLines
<1> HIDE DEF first, rest
<1>8. link.out \in Seq(ToServer) /\ pending \in Seq(ToServer)
  BY DEF TypeOK
<1>9. /\ LinesOf(link'.out) = LinesOf(link.out) \cup LinesOf(first)
      /\ LinesOf(pending') = LinesOf(pending) \cup LinesOf(rest)
  BY <1>3, <1>5, <1>8, LinesOfJoin
<1>10. /\ AllBefore(LinesOf(link.out), LinesOf(first)) /\ AllBefore(LinesOf(pending), LinesOf(rest))
       /\ AllBefore(LinesOf(link.out), LinesOf(rest))
  BY <1>4 DEF AllBefore
<1>11. Increasing(link'.out) /\ Increasing(pending')
  BY <1>3, <1>4, <1>5, <1>8, <1>10, LinesOfJoin DEF WireOrdered
<1>12. AllBefore(LinesOf(link'.out), LinesOf(pending'))
  BY <1>4, <1>6, <1>7, <1>9, <1>10 DEF AllBefore, WireOrdered
<1> QED BY <1>4, <1>9, <1>11, <1>12

\* A step that adds no line to what the link and the queue hold.
LEMMA NothingNew ==
  ASSUME TypeOK, Ordered, relayed' = relayed,
         Increasing(link'.out), Increasing(pending'),
         AllBefore(LinesOf(link'.out), LinesOf(pending')),
         LinesOf(link'.out) \subseteq LinesOf(link.out) \cup LinesOf(pending),
         LinesOf(pending') \subseteq LinesOf(link.out) \cup LinesOf(pending),
         \/ inbox' = inbox \/ inbox' = << >>
         \/ inbox # << >> /\ inbox' = Tail(inbox)
         \/ \E order \in Order : /\ inbox' = Append(inbox, order)
                                 /\ order.op = "MESSAGE" => order.arg[1] = spent.messages + 1
                                                            /\ spent'.messages = spent.messages + 1,
         spent'.messages \in {spent.messages, spent.messages + 1}
  PROVE  Ordered'
<1>1. AllBefore({relayed}, LinesOf(link.out) \cup LinesOf(pending))
  BY DEF Ordered, WireOrdered, AllBefore
<1>2. WireOrdered'
  <2>1. AllBefore({relayed'}, LinesOf(link'.out)) /\ AllBefore({relayed'}, LinesOf(pending'))
    BY <1>1 DEF AllBefore
  <2> QED BY <2>1 DEF WireOrdered
<1>3. ASSUME NEW n, Unused(n) PROVE Unused(n)'
  BY <1>3 DEF Unused, Older
<1>4. ASSUME NEW n \in Nat, NEW m \in Nat, n <= m, Unused(n) PROVE Unused(m)
  <2>1. LinesOf(link.out) \subseteq Nat \X Nat /\ LinesOf(pending) \subseteq Nat \X Nat
        /\ relayed \in Nat \X Nat
    BY LineArgs DEF TypeOK
  <2>2. \A a \in Nat \X Nat : a[1] < n => a[1] < m
    BY <1>4
  <2> QED BY <1>4, <2>1, <2>2 DEF Unused, Older
<1>5. spent.messages \in Nat /\ inbox \in Seq(Order) /\ Len(inbox) \in Nat
  BY LenProperties DEF TypeOK
<1>6. /\ relayed'[1] < spent'.messages + 1 /\ Older(LinesOf(link'.out), spent'.messages + 1)
      /\ Older(LinesOf(pending'), spent'.messages + 1)
  <2>1. Unused(spent.messages + 1)
    BY DEF Ordered, InboxOrdered
  <2>2. Unused(spent'.messages + 1)
    BY <1>4, <1>5, <2>1
  <2> QED BY <2>2 DEF Unused, Older
<1>7. /\ \A i \in 1..Len(inbox) : MessageAt(i) =>
            inbox[i].arg[1] <= spent.messages /\ Unused(inbox[i].arg[1])
      /\ \A i, j \in 1..Len(inbox) : i < j /\ MessageAt(i) /\ MessageAt(j) =>
            inbox[i].arg[1] < inbox[j].arg[1]
  BY DEF Ordered, InboxOrdered
<1>8. \A i \in 1..Len(inbox) : MessageAt(i) => inbox[i].arg[1] \in Nat
  BY <1>5, ElementOfSeq DEF MessageAt, Order, Plain
<1>9. \A i \in 1..Len(inbox) : MessageAt(i) =>
          inbox[i].arg[1] <= spent'.messages
  BY <1>5, <1>7, <1>8
<1>10. \A i \in 1..Len(inbox') : MessageAt(i)' =>
            inbox'[i].arg[1] <= spent'.messages /\ Unused(inbox'[i].arg[1])
  <2>1. CASE inbox' = inbox
    BY <1>7, <1>9, <2>1 DEF MessageAt
  <2>2. CASE inbox' = << >>
    BY <2>2, EmptySeq
  <2>3. CASE inbox # << >> /\ inbox' = Tail(inbox)
    <3>1. \A i \in 1..Len(inbox') : i + 1 \in 1..Len(inbox) /\ inbox'[i] = inbox[i + 1]
      BY <1>5, <2>3, TailOf
    <3> QED BY <1>7, <1>9, <3>1 DEF MessageAt
  <2>4. CASE \E order \in Order : /\ inbox' = Append(inbox, order)
                                  /\ order.op = "MESSAGE" => order.arg[1] = spent.messages + 1
                                                             /\ spent'.messages = spent.messages + 1
    <3>1. PICK order \in Order : /\ inbox' = Append(inbox, order)
                                 /\ order.op = "MESSAGE" => order.arg[1] = spent.messages + 1
                                                            /\ spent'.messages = spent.messages + 1
      BY <2>4
    <3>2. /\ Len(inbox') = Len(inbox) + 1 /\ inbox'[Len(inbox) + 1] = order
          /\ \A i \in 1..Len(inbox) : inbox'[i] = inbox[i]
      BY <1>5, <3>1, AppendProperties
    <3>3. \A i \in 1..Len(inbox') : i \in 1..Len(inbox) \/ i = Len(inbox) + 1
      BY <1>5, <3>2
    <3>4. Unused(spent.messages + 1)
      BY DEF Ordered, InboxOrdered
    <3> QED BY <1>5, <1>7, <1>9, <3>1, <3>2, <3>3, <3>4 DEF MessageAt
  <2> QED BY <2>1, <2>2, <2>3, <2>4
<1>11. ASSUME NEW i \in 1..Len(inbox'), NEW j \in 1..Len(inbox'), i < j, MessageAt(i)', MessageAt(j)'
       PROVE  inbox'[i].arg[1] < inbox'[j].arg[1]
  <2>1. CASE inbox' = inbox
    BY <1>7, <1>11, <2>1 DEF MessageAt
  <2>2. CASE inbox' = << >>
    BY <1>11, <2>2, EmptySeq
  <2>3. CASE inbox # << >> /\ inbox' = Tail(inbox)
    <3>1. /\ i + 1 \in 1..Len(inbox) /\ j + 1 \in 1..Len(inbox) /\ i + 1 < j + 1
          /\ inbox'[i] = inbox[i + 1] /\ inbox'[j] = inbox[j + 1]
      BY <1>5, <1>11, <2>3, TailOf
    <3> QED BY <1>7, <1>11, <3>1 DEF MessageAt
  <2>4. CASE \E order \in Order : /\ inbox' = Append(inbox, order)
                                  /\ order.op = "MESSAGE" => order.arg[1] = spent.messages + 1
                                                             /\ spent'.messages = spent.messages + 1
    <3>1. PICK order \in Order : /\ inbox' = Append(inbox, order)
                                 /\ order.op = "MESSAGE" => order.arg[1] = spent.messages + 1
                                                            /\ spent'.messages = spent.messages + 1
      BY <2>4
    <3>2. /\ Len(inbox') = Len(inbox) + 1 /\ inbox'[Len(inbox) + 1] = order
          /\ \A k \in 1..Len(inbox) : inbox'[k] = inbox[k]
      BY <1>5, <3>1, AppendProperties
    <3>3. i \in 1..Len(inbox) /\ (j \in 1..Len(inbox) \/ j = Len(inbox) + 1)
      BY <1>5, <1>11, <3>2
    <3>4. MessageAt(i) /\ inbox[i].arg[1] <= spent.messages /\ inbox[i].arg[1] \in Nat
      BY <1>7, <1>8, <1>11, <3>2, <3>3 DEF MessageAt
    <3>5. CASE j \in 1..Len(inbox)
      BY <1>7, <1>11, <3>2, <3>3, <3>5 DEF MessageAt
    <3>6. CASE j = Len(inbox) + 1
      <4>1. inbox'[j].arg[1] = spent.messages + 1
        BY <1>11, <3>1, <3>2, <3>6 DEF MessageAt
      <4> QED BY <1>5, <3>2, <3>3, <3>4, <4>1
    <3> QED BY <3>3, <3>5, <3>6
  <2> QED BY <2>1, <2>2, <2>3, <2>4
<1>12. \A i \in 1..Len(inbox') : MessageAt(i)' =>
          /\ relayed'[1] < inbox'[i].arg[1] /\ Older(LinesOf(link'.out), inbox'[i].arg[1])
          /\ Older(LinesOf(pending'), inbox'[i].arg[1])
  <2>1. \A n : Unused(n) => /\ relayed'[1] < n /\ Older(LinesOf(link'.out), n)
                            /\ Older(LinesOf(pending'), n)
    BY DEF Unused, Older
  <2> QED BY <1>10, <2>1
<1>13. Unused(spent.messages + 1)'
  BY <1>6 DEF Unused
<1>14. \A i \in 1..Len(inbox') : MessageAt(i)' => Unused(inbox[i].arg[1])'
  BY <1>12 DEF Unused
<1>15. InboxOrdered'
  BY <1>10, <1>11, <1>13, <1>14 DEF InboxOrdered
<1> QED BY <1>2, <1>15 DEF Ordered

\* The actor takes a message out of its channel: its lines come after everything said so
\* far, and before the messages that still wait.
LEMMA MessageOrder == ASSUME TypeOK, Ordered, ReceiveMessage PROVE Ordered'
<1> DEFINE id == Head(inbox).arg[1]
           n == Head(inbox).arg[2]
           lines == Lines(id, n)
<1>1. /\ inbox # << >> /\ Head(inbox).op = "MESSAGE" /\ inbox' = Tail(inbox)
      /\ UNCHANGED <<relayed, spent>>
  BY DEF ReceiveMessage
<1>2. /\ Len(Tail(inbox)) = Len(inbox) - 1 /\ Len(inbox) \in Nat \ {0} /\ inbox[1] \in Order
      /\ Head(inbox) = inbox[1] /\ \A i \in 1..(Len(inbox) - 1) : Tail(inbox)[i] = inbox[i + 1]
  BY <1>1, TailOf DEF TypeOK
<1>3. id \in Nat /\ n \in Nat
  BY <1>1, <1>2 DEF Order, Plain
<1>4. 1 \in 1..Len(inbox) /\ MessageAt(1) /\ inbox[1].arg[1] = id
  BY <1>1, <1>2 DEF MessageAt
<1>5. id <= spent.messages /\ Unused(id)
  BY <1>4 DEF Ordered, InboxOrdered
<1>6. lines \in Seq(ToServer)
  BY <1>3, LineTypes
<1>7. Increasing(lines) /\ \A a \in LinesOf(lines) : a[1] = id
  BY <1>3, LinesOfMessage
<1>8. Submit(lines)
  BY DEF ReceiveMessage
<1> HIDE DEF id, n, lines
<1>9. AllBefore(LinesOf(link.out), LinesOf(lines)) /\ AllBefore(LinesOf(pending), LinesOf(lines))
      /\ AllBefore({relayed}, LinesOf(lines))
  BY <1>5, <1>7 DEF AllBefore, Before, Unused, Older
<1>10. /\ Increasing(link'.out) /\ Increasing(pending')
       /\ AllBefore(LinesOf(link'.out), LinesOf(pending'))
       /\ LinesOf(link'.out) \subseteq LinesOf(link.out) \cup LinesOf(lines)
       /\ LinesOf(pending') \subseteq LinesOf(pending) \cup LinesOf(lines)
  BY <1>6, <1>7, <1>8, <1>9, SubmitOrder DEF Ordered
<1>11. WireOrdered'
  BY <1>1, <1>9, <1>10 DEF Ordered, WireOrdered, AllBefore
<1>12. ASSUME NEW m \in Nat, id < m
       PROVE  /\ relayed'[1] < m /\ Older(LinesOf(link'.out), m) /\ Older(LinesOf(pending'), m)
  <2>1. /\ LinesOf(link.out) \subseteq Nat \X Nat /\ LinesOf(pending) \subseteq Nat \X Nat
        /\ relayed \in Nat \X Nat
    BY LineArgs DEF TypeOK
  <2>2. \A a \in Nat \X Nat : a[1] < id => a[1] < m
    BY <1>3, <1>12
  <2>3. relayed'[1] < m
    BY <1>1, <1>5, <2>1, <2>2 DEF Unused
  <2>4. \A a \in LinesOf(link.out) \cup LinesOf(pending) \cup LinesOf(lines) : a[1] < m
    BY <1>5, <1>7, <1>12, <2>1, <2>2 DEF Unused, Older
  <2> QED BY <1>10, <2>3, <2>4 DEF Older
<1>13. spent'.messages \in Nat /\ id < spent'.messages + 1
  BY <1>1, <1>3, <1>5 DEF TypeOK
<1>14. Unused(spent.messages + 1)'
  BY <1>12, <1>13 DEF Unused
<1>15. \A i \in 1..Len(inbox') : /\ i + 1 \in 1..Len(inbox) /\ 1 < i + 1
                                 /\ inbox'[i] = inbox[i + 1]
  BY <1>1, <1>2
<1>16. \A i \in 1..Len(inbox) : MessageAt(i) => inbox[i].arg[1] \in Nat
  <2>1. inbox \in Seq(Order)
    BY DEF TypeOK
  <2> QED BY <2>1, ElementOfSeq DEF MessageAt, Order, Plain
<1>17. /\ \A i \in 1..Len(inbox) : MessageAt(i) => inbox[i].arg[1] <= spent.messages
       /\ \A i, j \in 1..Len(inbox) : i < j /\ MessageAt(i) /\ MessageAt(j) =>
            inbox[i].arg[1] < inbox[j].arg[1]
  BY DEF Ordered, InboxOrdered
<1>18. \A i \in 1..Len(inbox') : MessageAt(i)' =>
          /\ inbox'[i].arg[1] <= spent'.messages /\ inbox'[i].arg[1] \in Nat
          /\ id < inbox'[i].arg[1]
  BY <1>1, <1>4, <1>15, <1>16, <1>17 DEF MessageAt
<1>19. \A i \in 1..Len(inbox') : MessageAt(i)' => Unused(inbox[i].arg[1])'
  BY <1>12, <1>18 DEF Unused
<1>20. ASSUME NEW i \in 1..Len(inbox'), NEW j \in 1..Len(inbox'), i < j, MessageAt(i)', MessageAt(j)'
       PROVE  inbox'[i].arg[1] < inbox'[j].arg[1]
  <2>1. i \in Nat /\ j \in Nat /\ i + 1 < j + 1
    BY <1>20
  <2> QED BY <1>15, <1>17, <1>20, <2>1 DEF MessageAt
<1>21. InboxOrdered'
  BY <1>14, <1>18, <1>19, <1>20 DEF InboxOrdered
<1> QED BY <1>11, <1>21 DEF Ordered

\* What the actor writes when it reads a message of the server is no line of a message.
LEMMA ReadSays ==
  ASSUME TypeOK,
         \/ ReadAck \/ ReadNak \/ ReadAuthenticate \/ ReadSuccess \/ ReadFailure
         \/ ReadWelcome \/ ReadMotd \/ ReadKick
  PROVE  \E lines \in Seq(ToServer) : Reply(lines) /\ LinesOf(lines) = {} /\ Increasing(lines)
<1>1. ASSUME NEW x \in {"AUTHENTICATE", "PASSWORD", "REQ", "END", "JOIN"}, NEW a
      PROVE  LinesOf(<< Msg(x, a) >>) = {} /\ Increasing(<< Msg(x, a) >>)
  <2> DEFINE said == << Msg(x, a) >>
  <2>1. Len(said) = 1 /\ said[1].op = x
    BY DEF Msg
  <2> HIDE DEF said
  <2>2. \A i \in 1..Len(said) : said[i].op # "LINE"
    BY <2>1
  <2>3. LinesOf(said) = {} /\ Increasing(said)
    BY <2>2, NoLines
  <2> QED BY <2>3 DEF said
<1>2. LinesOf(<< >>) = {} /\ Increasing(<< >>)
  BY EmptySeq, NoLines
<1>3. \/ Reply(<< >>) \/ Reply(<< Msg("AUTHENTICATE", << >>) >>) \/ Reply(<< Msg("END", << >>) >>)
      \/ Reply(<< Msg("PASSWORD", << >>) >>) \/ Reply(<< Msg("JOIN", Channels) >>)
      \/ Reply(<< Msg("REQ", {"sasl"}) >>)
  BY DEF ReadAck, ReadNak, ReadAuthenticate, ReadSuccess, ReadFailure, ReadWelcome, ReadMotd,
         ReadKick, EndCaps
<1> QED BY <1>1, <1>2, <1>3, WireTypes

\* The actor's channel loses messages from its front, or all of them.
InboxShrinks == inbox' = inbox \/ inbox' = << >> \/ (inbox # << >> /\ inbox' = Tail(inbox))

LEMMA OrderStep == TypeOK /\ Ordered /\ [Next]_vars => Ordered'
<1> SUFFICES ASSUME TypeOK, Ordered, [Next]_vars PROVE Ordered'
  OBVIOUS
<1>1. /\ link.out \in Seq(ToServer) /\ pending \in Seq(ToServer)
      /\ Increasing(link.out) /\ Increasing(pending)
      /\ AllBefore(LinesOf(link.out), LinesOf(pending))
  BY DEF TypeOK, Ordered, WireOrdered
\* Neither the wire to the server nor the queue changes.
<1>2. ASSUME UNCHANGED <<link, pending, relayed, spent>>, InboxShrinks PROVE Ordered'
  BY <1>1, <1>2, NothingNew DEF InboxShrinks
\* Both are emptied, or only the wire.
<1>3. ASSUME LinesOf(link'.out) = {}, Increasing(link'.out), Increasing(pending'),
             LinesOf(pending') \subseteq LinesOf(pending), relayed' = relayed,
             InboxShrinks, spent'.messages = spent.messages
      PROVE  Ordered'
  <2>1. AllBefore(LinesOf(link'.out), LinesOf(pending'))
    BY <1>3 DEF AllBefore
  <2>2. spent'.messages \in {spent.messages, spent.messages + 1}
    BY <1>3
  <2> QED BY <1>3, <2>1, <2>2, NothingNew DEF InboxShrinks
\* The queue stays, and what goes on the wire is no line of a message.
<1>4. ASSUME NEW said \in Seq(ToServer), LinesOf(said) = {}, Increasing(said),
             link'.out = link.out \o said, UNCHANGED <<pending, relayed, inbox, spent>>
      PROVE  Ordered'
  <2>1. AllBefore(LinesOf(link.out), LinesOf(said))
    BY <1>4 DEF AllBefore
  <2>2. LinesOf(link'.out) = LinesOf(link.out) \cup LinesOf(said)
    BY <1>1, <1>4, LinesOfJoin
  <2>3. Increasing(link'.out)
    BY <1>1, <1>4, <2>1, LinesOfJoin
  <2>4. LinesOf(link'.out) = LinesOf(link.out)
    BY <1>4, <2>2
  <2> QED BY <1>1, <1>4, <2>3, <2>4, NothingNew
<1>5. Trouble => spent'.messages = spent.messages
  BY DEF Trouble, TypeOK
<1>6. ASSUME NoConnection
      PROVE  /\ LinesOf(link'.out) = {} /\ Increasing(link'.out) /\ Increasing(pending')
             /\ LinesOf(pending') \subseteq LinesOf(pending)
  <2>1. Len(link'.out) = 0 /\ Len(pending') = 0
    BY <1>6, EmptySeq DEF NoConnection
  <2> QED BY <2>1, NoLines
<1>7. ASSUME NEW n \in 1..MaxLines, Send(n) PROVE Ordered'
  <2>1. Msg("MESSAGE", << spent.messages + 1, n >>) \in Order
    <3>1. n \in Nat /\ spent.messages \in Nat
      BY DEF TypeOK
    <3> QED BY <3>1 DEF Msg, Order
  <2>2. spent'.messages = spent.messages + 1 /\ UNCHANGED <<link, pending, relayed>>
    BY <1>7 DEF Send, TypeOK, actorVars, wireVars
  <2>3. \/ inbox' = inbox
        \/ \E order \in Order : /\ inbox' = Append(inbox, order)
                                /\ order.op = "MESSAGE" => order.arg[1] = spent.messages + 1
                                                           /\ spent'.messages = spent.messages + 1
    <3>1. inbox' = inbox \/ inbox' = Append(inbox, Msg("MESSAGE", << spent.messages + 1, n >>))
      BY <1>7 DEF Send
    <3>2. Msg("MESSAGE", << spent.messages + 1, n >>).arg[1] = spent.messages + 1
      BY DEF Msg
    <3> QED BY <2>1, <2>2, <3>1, <3>2
  <2> QED BY <1>1, <2>2, <2>3, NothingNew
<1>8. CASE Reconnect \/ Shutdown
  <2>1. Msg("QUIT", << >>) \in Order /\ Msg("QUIT", << >>).op # "MESSAGE"
    BY DEF Msg, Order, Plain
  <2>2. inbox' = inbox \/ inbox' = Append(inbox, Msg("QUIT", << >>))
    BY <1>8 DEF Reconnect, Shutdown, RequestQuit
  <2>3. UNCHANGED <<link, pending, relayed>> /\ spent'.messages = spent.messages
    BY <1>5, <1>8 DEF Reconnect, Shutdown, RequestQuit, actorVars, wireVars
  <2> QED BY <1>1, <2>1, <2>2, <2>3, NothingNew
<1>9. CASE QuitInTime \/ QuitAborted
  <2>1. InboxShrinks /\ NoConnection /\ relayed' = relayed /\ spent'.messages = spent.messages
    BY <1>5, <1>9 DEF QuitInTime, QuitAborted, AllQuit, ConnectAll, InboxShrinks
  <2> QED BY <1>3, <1>6, <2>1
<1>10. CASE ConnectFails \/ ConnectionEnds
  <2>1. InboxShrinks /\ NoConnection /\ relayed' = relayed /\ spent'.messages = spent.messages
    BY <1>5, <1>10 DEF ConnectFails, ConnectionEnds, RunEnds, InboxShrinks
  <2> QED BY <1>3, <1>6, <2>1
<1>11. CASE ReceiveQuit
  <2>1. InboxShrinks /\ NoConnection /\ relayed' = relayed /\ spent'.messages = spent.messages
    BY <1>11 DEF ReceiveQuit, InboxShrinks
  <2> QED BY <1>3, <1>6, <2>1
<1>12. CASE ForwardEvent \/ EmitEvent \/ BackoffExpires \/ BackoffReceives \/ UNCHANGED vars
  BY <1>2, <1>12 DEF ForwardEvent, EmitEvent, BackoffExpires, BackoffReceives, vars, actorVars,
     wireVars, InboxShrinks
<1>13. CASE ConnectSucceeds
  <2> DEFINE ask == Msg("REQ", IF server.kind.sasl THEN Caps ELSE {"account-tag"})
             user == Msg("USER", << >>)
  <2>1. /\ link'.out = << ask, user >> /\ UNCHANGED <<pending, relayed, inbox, spent>>
    BY <1>13 DEF ConnectSucceeds
  <2>2. ask.op = "REQ" /\ user.op = "USER"
    BY DEF Msg
  <2> HIDE DEF ask, user
  <2>3. \A i \in 1..Len(<< ask, user >>) : << ask, user >>[i].op # "LINE"
    BY <2>2
  <2>4. LinesOf(link'.out) = {} /\ Increasing(link'.out)
    BY <2>1, <2>3, NoLines
  <2>5. AllBefore(LinesOf(link'.out), LinesOf(pending'))
    BY <2>4 DEF AllBefore
  <2> QED BY <1>1, <2>1, <2>4, <2>5, NothingNew
<1>14. CASE ReceiveMessage
  BY <1>14, MessageOrder
<1>15. CASE Drain
  <2>1. PICK n \in 0..Len(pending) :
          /\ link' = [link EXCEPT !.out = @ \o SubSeq(pending, 1, n)]
          /\ pending' = SubSeq(pending, n + 1, Len(pending))
    BY <1>15, DrainShape
  <2>2. Len(pending) \in 0..Len(pending) /\ n \in 0..Len(pending)
    BY <1>1, LenProperties
  <2> DEFINE first == SubSeq(pending, 1, n)
  <2>3. /\ LinesOf(pending') \subseteq LinesOf(pending) /\ LinesOf(first) \subseteq LinesOf(pending)
        /\ Increasing(pending') /\ Increasing(first) /\ AllBefore(LinesOf(first), LinesOf(pending'))
    BY <1>1, <2>1, <2>2, LinesOfCut
  <2>4. first \in Seq(ToServer)
    BY <1>1, <2>2, FirstOf
  <2>5. link'.out = link.out \o first
    BY <2>1 DEF TypeOK
  <2> HIDE DEF first
  <2>6. AllBefore(LinesOf(link.out), LinesOf(first))
    BY <1>1, <2>3 DEF AllBefore
  <2>7. LinesOf(link'.out) = LinesOf(link.out) \cup LinesOf(first) /\ Increasing(link'.out)
    BY <1>1, <2>3, <2>4, <2>5, <2>6, LinesOfJoin
  <2>8. AllBefore(LinesOf(link'.out), LinesOf(pending'))
    BY <1>1, <2>3, <2>7 DEF AllBefore
  <2>9. UNCHANGED <<relayed, inbox, spent>>
    BY <1>15 DEF Drain
  <2> QED BY <2>3, <2>7, <2>8, <2>9, NothingNew
<1>16. ASSUME NEW ch \in Channels, RejoinTick(ch) PROVE Ordered'
  <2> DEFINE join == << Msg("JOIN", {ch}) >>
  <2>1. Submit(join) /\ join \in Seq(ToServer) /\ UNCHANGED <<relayed, inbox, spent>>
    BY <1>16, WireTypes DEF RejoinTick
  <2>2. Len(join) = 1 /\ join[1].op = "JOIN"
    BY DEF Msg
  <2> HIDE DEF join
  <2>3. LinesOf(join) = {} /\ Increasing(join)
    BY <2>2, NoLines
  <2>4. AllBefore(LinesOf(link.out), LinesOf(join)) /\ AllBefore(LinesOf(pending), LinesOf(join))
    BY <2>3 DEF AllBefore
  <2>5. /\ Increasing(link'.out) /\ Increasing(pending')
        /\ AllBefore(LinesOf(link'.out), LinesOf(pending'))
        /\ LinesOf(link'.out) \subseteq LinesOf(link.out) \cup LinesOf(join)
        /\ LinesOf(pending') \subseteq LinesOf(pending) \cup LinesOf(join)
    BY <2>1, <2>3, <2>4, SubmitOrder DEF Ordered
  <2> QED BY <2>1, <2>3, <2>5, NothingNew
<1>17. CASE Stream /\ ~ConnectionEnds
  <2>1. PICK said \in Seq(ToServer) : Reply(said) /\ LinesOf(said) = {} /\ Increasing(said)
    BY <1>17, ReadSays DEF Stream
  <2>2. \E op : Reading(op)
    BY <1>17 DEF Stream, ReadAck, ReadNak, ReadAuthenticate, ReadSuccess, ReadFailure,
       ReadWelcome, ReadMotd, ReadKick
  <2>3. UNCHANGED <<pending, relayed, inbox, spent>>
    BY <2>2 DEF Reading
  <2>4. link'.out = link.out \o said
    BY <2>1 DEF Reply, TypeOK
  <2> QED BY <1>4, <2>1, <2>3, <2>4
<1>18. CASE Server
  <2>1. PICK s \in Session, messages \in Seq(ToClient), op \in {"REQ", "USER", "AUTHENTICATE",
               "PASSWORD", "END", "JOIN", "LINE"} : Serve(op) /\ Answer(s, messages)
    BY <1>18, ServeShape
  <2>2. /\ link'.out = Tail(link.out) /\ link.out # << >> /\ UNCHANGED <<pending, inbox, spent>>
    BY <2>1, AnswerShape DEF Serve, actorVars
  <2>3. LinesOf(link'.out) \subseteq LinesOf(link.out) /\ Increasing(link'.out)
    BY <1>1, <2>2, LinesOfTail
  <2>4. AllBefore(LinesOf(link'.out), LinesOf(pending'))
    BY <1>1, <2>2, <2>3 DEF AllBefore
  <2>5. CASE relayed' = relayed
    BY <2>2, <2>3, <2>4, <2>5, NothingNew, <1>1
  <2>6. CASE relayed' # relayed
    <3>1. Head(link.out).op = "LINE" /\ relayed' = Head(link.out).arg
      BY <1>18, <2>6 DEF Server, ServeLine, ServeRequest, ServeUser, ServeAuthenticate,
         ServePassword, ServeEnd, ServeJoin, Serve
    <3>2. /\ AllBefore({relayed'}, LinesOf(link'.out)) /\ relayed' \in LinesOf(link.out)
      BY <1>1, <2>2, <3>1, LinesOfTail
    <3>3. AllBefore({relayed'}, LinesOf(pending'))
      BY <1>1, <2>2, <3>2 DEF AllBefore
    <3>4. WireOrdered'
      BY <1>1, <2>2, <2>3, <2>4, <3>2, <3>3 DEF WireOrdered
    <3>5. \A n : Unused(n) => /\ relayed'[1] < n /\ Older(LinesOf(link'.out), n)
                              /\ Older(LinesOf(pending'), n)
      BY <2>2, <2>3, <3>2 DEF Unused, Older
    <3>6. InboxOrdered
      BY DEF Ordered
    <3>7. Unused(spent.messages + 1)'
      BY <2>2, <3>5, <3>6 DEF InboxOrdered, Unused
    <3>8. \A i \in 1..Len(inbox') : MessageAt(i)' => Unused(inbox[i].arg[1])'
      BY <2>2, <3>5, <3>6 DEF InboxOrdered, Unused, MessageAt
    <3>9. InboxOrdered'
      BY <2>2, <3>6, <3>7, <3>8 DEF InboxOrdered, MessageAt
    <3> QED BY <3>4, <3>9 DEF Ordered
  <2> QED BY <2>5, <2>6
<1>19. ASSUME NEW ch \in Channels, Kick(ch) PROVE Ordered'
  <2>1. /\ link'.out = link.out /\ UNCHANGED <<pending, relayed, inbox>>
        /\ spent'.messages = spent.messages
    BY <1>5, <1>19 DEF Kick, TypeOK, actorVars
  <2> QED BY <1>1, <2>1, NothingNew
<1>20. CASE DropLink
  <2>1. /\ Len(link'.out) = 0 /\ UNCHANGED <<pending, relayed>> /\ InboxShrinks
        /\ spent'.messages = spent.messages
    BY <1>5, <1>20, EmptySeq DEF DropLink, TypeOK, actorVars, InboxShrinks
  <2>2. LinesOf(link'.out) = {} /\ Increasing(link'.out)
    BY <2>1, NoLines
  <2> QED BY <1>1, <1>3, <2>1, <2>2
<1> QED BY <1>7, <1>8, <1>9, <1>10, <1>11, <1>12, <1>13, <1>14, <1>15, <1>16, <1>17, <1>18,
           <1>19, <1>20 DEF Next, Runtime, Actions, Stream

-----------------------------------------------------------------------------
(* What connected_networks is told.                                        *)

Word(v) == IF v THEN "Connected" ELSE "Disconnected"

\* The last word on the connection among the events of s, or none at all.
Says(s, v) == \E k \in 1..Len(s) : s[k] = Word(v) /\ \A l \in (k + 1)..Len(s) : s[l] = "Parted"
Silent(s) == \A l \in 1..Len(s) : s[l] = "Parted"

\* The last word still on its way, or told already.
Told(v) == Says(events, v) \/ (Silent(events) /\ connected = v)
EndsIn(v) == Says(emitting, v) \/ (Silent(emitting) /\ Told(v))

StatusComing ==
  /\ phase = "backoff" => EndsIn(FALSE)
  /\ server.session.registered => EndsIn(TRUE) \/ ~Lacks(link.in, "WELCOME")

LEMMA TailSays ==
  ASSUME NEW s \in Seq(EventNames), s # << >>, NEW v \in BOOLEAN
  PROVE  /\ Says(s, v) => Says(Tail(s), v) \/ (Silent(Tail(s)) /\ Head(s) = Word(v))
         /\ Silent(s) => Silent(Tail(s)) /\ Head(s) = "Parted"
<1>1. /\ Len(Tail(s)) = Len(s) - 1 /\ Len(s) \in Nat \ {0} /\ Head(s) = s[1]
      /\ \A i \in 1..(Len(s) - 1) : Tail(s)[i] = s[i + 1]
  BY TailOf
<1>2. \A i \in 1..Len(Tail(s)) : i + 1 \in 2..Len(s) /\ Tail(s)[i] = s[i + 1]
  BY <1>1
<1>3. ASSUME Silent(s) PROVE Silent(Tail(s)) /\ Head(s) = "Parted"
  BY <1>1, <1>2, <1>3 DEF Silent
<1>4. ASSUME Says(s, v) PROVE Says(Tail(s), v) \/ (Silent(Tail(s)) /\ Head(s) = Word(v))
  <2>1. PICK k \in 1..Len(s) : s[k] = Word(v) /\ \A l \in (k + 1)..Len(s) : s[l] = "Parted"
    BY <1>4 DEF Says
  <2>2. CASE k = 1
    <3>1. \A l \in 1..Len(Tail(s)) : Tail(s)[l] = "Parted"
      BY <1>2, <2>1, <2>2
    <3> QED BY <1>1, <2>1, <2>2, <3>1 DEF Silent
  <2>3. CASE k # 1
    <3>1. k - 1 \in 1..Len(Tail(s)) /\ (k - 1) + 1 = k
      BY <1>1, <2>1, <2>3
    <3>2. Tail(s)[k - 1] = Word(v)
      BY <1>2, <2>1, <3>1
    <3>3. \A l \in ((k - 1) + 1)..Len(Tail(s)) : Tail(s)[l] = "Parted"
      <4> SUFFICES ASSUME NEW l \in ((k - 1) + 1)..Len(Tail(s)) PROVE Tail(s)[l] = "Parted"
        OBVIOUS
      <4>1. l \in 1..Len(Tail(s)) /\ l + 1 \in (k + 1)..Len(s)
        BY <1>1, <2>1, <3>1
      <4> QED BY <1>2, <2>1, <4>1
    <3> QED BY <3>1, <3>2, <3>3 DEF Says
  <2> QED BY <2>2, <2>3
<1> QED BY <1>3, <1>4

LEMMA AppendSays ==
  ASSUME NEW s \in Seq(EventNames), NEW e \in EventNames, NEW v \in BOOLEAN
  PROVE  /\ e = Word(v) => Says(Append(s, e), v)
         /\ e = "Parted" => /\ Says(s, v) => Says(Append(s, e), v)
                            /\ Silent(s) => Silent(Append(s, e))
<1> DEFINE t == Append(s, e)
<1>1. /\ Len(s) \in Nat /\ Len(t) = Len(s) + 1 /\ t[Len(s) + 1] = e
      /\ \A i \in 1..Len(s) : t[i] = s[i]
  BY LenProperties, AppendProperties
<1> HIDE DEF t
<1>2. \A i \in 1..Len(t) : i \in 1..Len(s) \/ i = Len(s) + 1
  BY <1>1
<1>3. ASSUME e = Word(v) PROVE Says(t, v)
  <2>1. Len(t) \in 1..Len(t) /\ t[Len(t)] = Word(v) /\ (Len(t) + 1)..Len(t) = {}
    BY <1>1, <1>3
  <2> QED BY <2>1 DEF Says
<1>4. ASSUME e = "Parted", Silent(s) PROVE Silent(t)
  BY <1>1, <1>2, <1>4 DEF Silent
<1>5. ASSUME e = "Parted", Says(s, v) PROVE Says(t, v)
  <2>1. PICK k \in 1..Len(s) : s[k] = Word(v) /\ \A l \in (k + 1)..Len(s) : s[l] = "Parted"
    BY <1>5 DEF Says
  <2>2. k \in 1..Len(t) /\ t[k] = Word(v)
    BY <1>1, <2>1
  <2>3. \A l \in (k + 1)..Len(t) : t[l] = "Parted"
    <3> SUFFICES ASSUME NEW l \in (k + 1)..Len(t) PROVE t[l] = "Parted"
      OBVIOUS
    <3>1. \/ l \in (k + 1)..Len(s) /\ l \in 1..Len(s)
         \/ l = Len(s) + 1
      BY <1>1
    <3> QED BY <1>1, <1>5, <2>1, <3>1
  <2> QED BY <2>2, <2>3 DEF Says
<1> QED BY <1>3, <1>4, <1>5 DEF t

LEMMA ForwardTold ==
  ASSUME TypeOK, ForwardEvent, NEW v \in BOOLEAN, Told(v)
  PROVE  Told(v)'
<1>1. events \in Seq(EventNames) /\ events # << >> /\ events' = Tail(events)
      /\ (Head(events) = "Connected" => connected' = TRUE)
      /\ (Head(events) = "Disconnected" => connected' = FALSE)
      /\ (Head(events) = "Parted" => connected' = connected)
  BY DEF ForwardEvent, TypeOK
<1>2. v = TRUE \/ v = FALSE
  OBVIOUS
<1>3. Head(events) = Word(v) => connected' = v
  <2>1. CASE v = TRUE
    <3>1. Word(v) = "Connected"
      BY <2>1 DEF Word
    <3> QED BY <1>1, <2>1, <3>1
  <2>2. CASE v = FALSE
    <3>1. Word(v) = "Disconnected"
      BY <2>2 DEF Word
    <3> QED BY <1>1, <2>2, <3>1
  <2> QED BY <1>2, <2>1, <2>2
<1> QED BY <1>1, <1>3, TailSays DEF Told

LEMMA EmitTold ==
  ASSUME TypeOK, EmitEvent, NEW v \in BOOLEAN, EndsIn(v)
  PROVE  EndsIn(v)'
<1>1. /\ emitting \in Seq(EventNames) /\ Len(emitting) = 1 /\ emitting[1] \in EventNames
      /\ Head(emitting) = emitting[1] /\ Len(Tail(emitting)) = 0
  <2>1. emitting \in Seq(EventNames) /\ emitting # << >> /\ Len(emitting) <= 1
    BY DEF EmitEvent, TypeOK
  <2>2. /\ Len(Tail(emitting)) = Len(emitting) - 1 /\ Len(emitting) \in Nat \ {0}
        /\ emitting[1] \in EventNames /\ Head(emitting) = emitting[1]
    BY <2>1, TailOf
  <2> QED BY <2>1, <2>2
<1>2. events' = Append(events, emitting[1]) /\ connected' = connected /\ Len(emitting') = 0
  BY <1>1 DEF EmitEvent
<1>3. Silent(emitting')
  BY <1>2 DEF Silent
<1>4. events \in Seq(EventNames)
  BY DEF TypeOK
<1>5. CASE Says(emitting, v)
  <2>1. emitting[1] = Word(v)
    BY <1>1, <1>5 DEF Says
  <2>2. Says(events', v)
    BY <1>1, <1>2, <1>4, <2>1, AppendSays
  <2> QED BY <1>3, <2>2 DEF EndsIn, Told
<1>6. CASE Silent(emitting) /\ Told(v)
  <2>1. emitting[1] = "Parted"
    BY <1>1, <1>6 DEF Silent
  <2>2. Told(v)'
    BY <1>1, <1>2, <1>4, <1>6, <2>1, AppendSays DEF Told
  <2> QED BY <1>3, <2>2 DEF EndsIn
<1> QED BY <1>5, <1>6 DEF EndsIn

\* An actor that says it last is believed.
LEMMA SaysLast ==
  /\ Says(<< "Connected" >>, TRUE) /\ Says(<< "Disconnected" >>, FALSE)
  /\ Silent(<< "Parted" >>) /\ Silent(<< >>)
<1>1. ASSUME NEW e PROVE Len(<< e >>) = 1 /\ << e >>[1] = e
  OBVIOUS
<1>2. ASSUME NEW e, NEW v \in BOOLEAN, e = Word(v) PROVE Says(<< e >>, v)
  <2> DEFINE s == << e >>
  <2>1. Len(s) = 1 /\ s[1] = e
    OBVIOUS
  <2> HIDE DEF s
  <2>2. 1 \in 1..Len(s) /\ s[1] = Word(v) /\ (1 + 1)..Len(s) = {}
    BY <1>2, <2>1
  <2>3. Says(s, v)
    BY <2>2 DEF Says
  <2> QED BY <2>3 DEF s
<1>3. Says(<< "Connected" >>, TRUE) /\ Says(<< "Disconnected" >>, FALSE)
  BY <1>2 DEF Word
<1>4. Silent(<< "Parted" >>)
  BY DEF Silent
<1>5. Silent(<< >>)
  BY EmptySeq DEF Silent
<1> QED BY <1>3, <1>4, <1>5

LEMMA StatusStep == TypeOK /\ Negotiation /\ StatusComing /\ [Next]_vars => StatusComing'
<1> SUFFICES ASSUME TypeOK, Negotiation, StatusComing, [Next]_vars PROVE StatusComing'
  OBVIOUS
<1>1. link.in \in Seq(ToClient)
  BY DEF TypeOK
\* Neither the events nor the greeting change.
<1>2. ASSUME UNCHANGED <<emitting, events, connected>>, phase' = "backoff" => phase = "backoff",
             server'.session.registered =>
                server.session.registered /\ (~Lacks(link.in, "WELCOME") => ~Lacks(link'.in, "WELCOME"))
      PROVE  StatusComing'
  <2>1. \A v : EndsIn(v) => EndsIn(v)'
    BY <1>2 DEF EndsIn, Told
  <2> QED BY <1>2, <2>1 DEF StatusComing
\* The connection ends.
<1>3. ASSUME NoConnection, phase' = "backoff" => emitting' = << "Disconnected" >>
      PROVE  StatusComing'
  <2>1. ~server'.session.registered
    BY <1>3 DEF NoConnection, TypeOK, NoSession
  <2>2. phase' = "backoff" => Says(emitting', FALSE)
    BY <1>3, SaysLast
  <2> QED BY <2>1, <2>2 DEF StatusComing, EndsIn
<1>4. CASE QuitInTime \/ QuitAborted
  BY <1>3, <1>4 DEF QuitInTime, QuitAborted, AllQuit, ConnectAll
<1>5. CASE ConnectFails \/ ConnectionEnds
  BY <1>3, <1>5 DEF ConnectFails, ConnectionEnds, RunEnds
<1>6. CASE ReceiveQuit
  BY <1>3, <1>6 DEF ReceiveQuit
<1>7. CASE ForwardEvent
  <2>1. UNCHANGED <<emitting, phase, server, link>>
    BY <1>7 DEF ForwardEvent, actorVars, wireVars
  <2>2. \A v \in BOOLEAN : EndsIn(v) => EndsIn(v)'
    BY <1>7, <2>1, ForwardTold DEF EndsIn
  <2> QED BY <2>1, <2>2 DEF StatusComing
<1>8. CASE EmitEvent
  <2>1. UNCHANGED <<phase, server, link>>
    BY <1>8 DEF EmitEvent, wireVars
  <2>2. \A v \in BOOLEAN : EndsIn(v) => EndsIn(v)'
    BY <1>8, EmitTold
  <2> QED BY <2>1, <2>2 DEF StatusComing
<1>9. CASE \/ \E n \in 1..MaxLines : Send(n)
           \/ Reconnect \/ Shutdown \/ BackoffExpires \/ BackoffReceives \/ UNCHANGED vars
  <2>1. /\ UNCHANGED <<emitting, events, connected, server, link>>
        /\ phase' = "backoff" => phase = "backoff"
    BY <1>9 DEF Send, Reconnect, Shutdown, RequestQuit, BackoffExpires, BackoffReceives, vars,
       coreVars, actorVars, wireVars, permsVars
  <2> QED BY <1>2, <2>1
<1>10. CASE ConnectSucceeds
  <2>1. /\ UNCHANGED <<emitting, events, connected, server>> /\ phase' = "up" /\ phase = "connecting"
    BY <1>10 DEF ConnectSucceeds, permsVars
  <2>2. ~server.session.registered
    BY <2>1 DEF Negotiation, LinkIsUp, NoSession
  <2> QED BY <1>2, <2>1, <2>2
<1>11. CASE ReceiveMessage
  <2>1. PICK n \in Nat, id \in Nat : Submit(Lines(id, n))
    <3>1. Head(inbox) \in Order /\ Head(inbox).op = "MESSAGE"
      BY <1>11, TailOf DEF ReceiveMessage, TypeOK
    <3> QED BY <1>11, <3>1 DEF ReceiveMessage, Order, Plain
  <2>2. link'.in = link.in
    BY <2>1, LineTypes, SubmitTypes
  <2> QED BY <1>2, <1>11, <2>2 DEF ReceiveMessage, permsVars
<1>12. CASE Drain
  <2>1. link'.in = link.in
    BY <1>12, DrainShape DEF TypeOK
  <2> QED BY <1>2, <1>12, <2>1 DEF Drain, permsVars
<1>13. ASSUME NEW ch \in Channels, RejoinTick(ch) PROVE StatusComing'
  <2>1. link'.in = link.in
    BY <1>13, WireTypes, SubmitTypes DEF RejoinTick
  <2> QED BY <1>2, <1>13, <2>1 DEF RejoinTick, permsVars
<1>14. CASE DropLink
  <2>1. /\ UNCHANGED <<emitting, events, connected, phase>> /\ ~server'.session.registered
    BY <1>14 DEF DropLink, TypeOK, NoSession, actorVars, permsVars
  <2> QED BY <1>2, <2>1
<1>15. ASSUME NEW ch \in Channels, Kick(ch) PROVE StatusComing'
  <2> DEFINE kick == << Msg("KICK", ch) >>
  <2>1. kick \in Seq(ToClient)
    BY DEF Msg, ToClient
  <2>2. link'.in = link.in \o kick
    <3>1. Msg("KICK", ch) \in ToClient
      BY DEF Msg, ToClient
    <3>2. Append(link.in, Msg("KICK", ch)) = link.in \o kick
      BY <1>1, <3>1, AppendIsConcat
    <3>3. link'.in = Append(link.in, Msg("KICK", ch))
      BY <1>15 DEF Kick, TypeOK
    <3> QED BY <3>2, <3>3
  <2> HIDE DEF kick
  <2>3. ~Lacks(link.in, "WELCOME") => ~Lacks(link'.in, "WELCOME")
    BY <1>1, <2>1, <2>2, JoinOf DEF Lacks
  <2>4. /\ UNCHANGED <<emitting, events, connected, phase>>
        /\ server'.session.registered = server.session.registered
    BY <1>15 DEF Kick, TypeOK, Session, actorVars, permsVars
  <2> QED BY <1>2, <2>3, <2>4
<1>16. ASSUME NEW op, Reading(op),
             \/ ReadAck \/ ReadNak \/ ReadAuthenticate \/ ReadSuccess \/ ReadFailure
             \/ ReadWelcome \/ ReadMotd \/ ReadKick
       PROVE  StatusComing'
  <2>1. PICK lines \in Seq(ToServer) : Reply(lines)
    BY <1>16, ReadShape
  <2>2. /\ link'.in = Tail(link.in) /\ link.in # << >>
        /\ UNCHANGED <<phase, server, events, connected>> /\ emitting = << >>
        /\ phase = "up"
    BY <1>16, <2>1, ReplyShape DEF Reading, permsVars, Free
  <2>3. CASE ReadWelcome
    <3>1. Says(emitting', TRUE)
      BY <2>3, SaysLast DEF ReadWelcome
    <3> QED BY <2>2, <3>1 DEF StatusComing, EndsIn
  <2>4. CASE ~ReadWelcome
    <3>1. Head(link.in).op # "WELCOME" /\ emitting' \in {<< >>, << "Parted" >>}
      BY <1>16, <2>2, <2>4 DEF ReadAck, ReadNak, ReadAuthenticate, ReadSuccess, ReadFailure, ReadMotd,
         ReadKick, Reading
    <3>2. ~Lacks(link.in, "WELCOME") => ~Lacks(link'.in, "WELCOME")
      <4>1. /\ Len(Tail(link.in)) = Len(link.in) - 1 /\ Len(link.in) \in Nat \ {0}
            /\ Head(link.in) = link.in[1]
            /\ \A i \in 1..(Len(link.in) - 1) : Tail(link.in)[i] = link.in[i + 1]
        BY <1>1, <2>2, TailOf
      <4> SUFFICES ASSUME NEW i \in 1..Len(link.in), link.in[i].op = "WELCOME"
                   PROVE  ~Lacks(link'.in, "WELCOME")
        BY DEF Lacks
      <4>2. i # 1
        BY <3>1, <4>1
      <4>3. i - 1 \in 1..Len(link'.in) /\ (i - 1) + 1 = i
        BY <2>2, <4>1, <4>2
      <4>4. link'.in[i - 1] = link.in[i]
        BY <2>2, <4>1, <4>3
      <4> QED BY <4>3, <4>4 DEF Lacks
    <3>3. Silent(emitting) /\ Silent(emitting')
      BY <2>2, <3>1, SaysLast
    <3>4. ~Says(emitting, TRUE)
      BY <2>2, EmptySeq DEF Says
    <3>5. EndsIn(TRUE) => EndsIn(TRUE)'
      BY <2>2, <3>3, <3>4 DEF EndsIn, Told
    <3> QED BY <2>2, <3>2, <3>5 DEF StatusComing
  <2> QED BY <2>3, <2>4
<1>17. CASE Server
  <2>1. PICK s \in Session, messages \in Seq(ToClient), op \in {"REQ", "USER", "AUTHENTICATE",
               "PASSWORD", "END", "JOIN", "LINE"} :
             Serve(op) /\ Answer(s, messages) /\ s.registered = server.session.registered
    BY <1>17, ServeShape
  <2>2. /\ link'.in = (link.in \o messages) \o Greeting(s) /\ server'.session = Welcomed(s)
        /\ UNCHANGED <<phase, emitting, events, connected>>
    BY <2>1, AnswerShape DEF Serve, actorVars, permsVars
  <2>3. /\ link.in \o messages \in Seq(ToClient) /\ Greeting(s) \in Seq(ToClient)
        /\ \A i \in 1..Len(link.in) : (link.in \o messages)[i] = link.in[i]
        /\ Len(link.in) \in Nat /\ Len(messages) \in Nat
        /\ Len(link.in \o messages) = Len(link.in) + Len(messages)
    BY <1>1, JoinOf, GreetingTypes
  <2>4. /\ Len(Greeting(s)) \in Nat /\ Len(link'.in) = Len(link.in \o messages) + Len(Greeting(s))
        /\ \A i \in 1..Len(link.in \o messages) : link'.in[i] = (link.in \o messages)[i]
        /\ \A i \in 1..Len(Greeting(s)) : link'.in[Len(link.in \o messages) + i] = Greeting(s)[i]
    BY <2>2, <2>3, JoinOf
  <2>5. CASE s.registered
    <3>1. server'.session = s /\ server.session.registered
      BY <2>1, <2>2, <2>5 DEF Welcomed
    <3>2. \A i \in 1..Len(link.in) : i \in 1..Len(link'.in) /\ link'.in[i] = link.in[i]
      <4>1. Len(link'.in) = (Len(link.in) + Len(messages)) + Len(Greeting(s))
        BY <2>3, <2>4
      <4>2. \A i \in 1..Len(link.in) : i \in 1..Len(link.in \o messages) /\ i \in 1..Len(link'.in)
        BY <2>3, <2>4, <4>1
      <4> QED BY <2>3, <2>4, <4>2
    <3>3. ~Lacks(link.in, "WELCOME") => ~Lacks(link'.in, "WELCOME")
      BY <3>2 DEF Lacks
    <3> QED BY <1>2, <2>2, <3>1, <3>3
  <2>6. CASE ~s.registered /\ s.user /\ ~s.holding
    <3> DEFINE n == Len(link.in \o messages)
    <3>1. Greeting(s) = << Msg("WELCOME", << >>), Msg("MOTD", << >>) >>
      BY <2>6 DEF Greeting
    <3>2. Len(Greeting(s)) = 2 /\ Greeting(s)[1].op = "WELCOME"
      BY <3>1 DEF Msg
    <3>3. n \in Nat /\ n + 1 \in 1..Len(link'.in) /\ link'.in[n + 1] = Greeting(s)[1]
      BY <2>3, <2>4, <3>2
    <3>4. ~Lacks(link'.in, "WELCOME")
      BY <3>2, <3>3 DEF Lacks
    <3>5. \A v : EndsIn(v) => EndsIn(v)'
      BY <2>2 DEF EndsIn, Told
    <3> QED BY <2>2, <3>4, <3>5 DEF StatusComing
  <2>7. CASE ~s.registered /\ ~(s.user /\ ~s.holding)
    <3>1. ~server'.session.registered
      BY <2>2, <2>7 DEF Welcomed
    <3> QED BY <1>2, <2>2, <3>1
  <2> QED BY <2>5, <2>6, <2>7
<1> QED BY <1>4, <1>5, <1>6, <1>7, <1>8, <1>9, <1>10, <1>11, <1>12, <1>13, <1>14, <1>15, <1>16,
           <1>17 DEF Next, Runtime, Actions, Stream, ReadAck, ReadNak, ReadAuthenticate, ReadSuccess, ReadFailure,
     ReadWelcome, ReadMotd, ReadKick

LEMMA StartsRight == Init => TypeOK /\ Negotiation /\ Ordered /\ StatusComing
<1> SUFFICES ASSUME Init PROVE TypeOK /\ Negotiation /\ Ordered /\ StatusComing
  OBVIOUS
<1>1. PICK kind \in Kinds : /\ server = [kind |-> kind, session |-> NoSession]
                            /\ neg = [pending |-> kind.sasl, retried |-> FALSE, ended |-> FALSE]
  BY DEF Init
<1>2. kind \in ServerKinds /\ kind.sasl \in BOOLEAN
  BY KindsAssumption DEF ServerKinds
<1>3. /\ << >> \in Seq(Order) /\ << >> \in Seq(EventNames) /\ << >> \in Seq(ToServer)
      /\ Len(<< >>) = 0
  BY EmptySeq
<1>4. /\ neg \in [pending : BOOLEAN, retried : BOOLEAN, ended : BOOLEAN]
      /\ server \in [kind : Kinds, session : Session]
  BY <1>1, <1>2, ConstantTypes
<1>5. link \in LinkState
  BY ConstantTypes DEF Init
<1>6. /\ inbox \in Seq(Order) /\ Len(inbox) <= InboxSize /\ events \in Seq(EventNames)
      /\ Len(events) <= EventCap /\ emitting \in Seq(EventNames) /\ Len(emitting) <= 1
      /\ pending \in Seq(ToServer) /\ Len(pending) <= MaxPending /\ tokens \in 0..Burst
  BY <1>3, BoundsAssumption DEF Init
<1>7. relayed \in Nat \X Nat /\ spent \in [messages : Nat, troubles : Nat]
  BY DEF Init
<1>8. TypeOK
  BY <1>4, <1>5, <1>6, <1>7 DEF Init, TypeOK, LinkState
<1>9. neg = FreshNeg /\ server.session = NoSession
  BY <1>1 DEF FreshNeg
<1>10. Negotiation
  BY <1>3, <1>9 DEF Init, Negotiation, LinkIsUp, SaslGoesOn, Deciding, WaitingLines
<1>11. Len(link.out) = 0 /\ Len(pending) = 0 /\ Len(inbox) = 0
  BY <1>3 DEF Init
<1>12. /\ LinesOf(link.out) = {} /\ Increasing(link.out)
       /\ LinesOf(pending) = {} /\ Increasing(pending)
  BY <1>11, NoLines
<1>13. relayed[1] = 0 /\ spent.messages = 0
  BY DEF Init
<1>14. Ordered
  BY <1>11, <1>12, <1>13 DEF Ordered, WireOrdered, InboxOrdered, AllBefore, Unused, Older
<1>15. StatusComing
  <2>1. phase # "backoff" /\ ~server.session.registered
    BY <1>9 DEF Init, NoSession
  <2> QED BY <2>1 DEF StatusComing
<1> QED BY <1>8, <1>10, <1>14, <1>15

LEMMA Invariance == Spec => [](TypeOK /\ Negotiation /\ Ordered /\ StatusComing)
<1>1. TypeOK /\ Negotiation /\ Ordered /\ StatusComing /\ [Next]_vars
        => (TypeOK /\ Negotiation /\ Ordered /\ StatusComing)'
  BY TypeStep, NegotiationStep, OrderStep, StatusStep
<1> QED BY <1>1, StartsRight, PTL DEF Spec

\* Every queue keeps its capacity and every variable its type, whatever is sent, lost,
\* refused and restarted.
THEOREM TypeCorrect == Spec => []TypeOK
BY Invariance, PTL

\* Where the server takes the configured password, nobody is registered without it: CAP END
\* is held back through the refused combined request and its retry (irc/mod.rs).
THEOREM SaslSucceedsIfPossible == Spec => []LoggedInIfPossible
<1>1. TypeOK /\ Negotiation => LoggedInIfPossible
  <2> SUFFICES ASSUME TypeOK, Negotiation, server.session.registered, server.kind.accepts
               PROVE  server.session.loggedin
    BY DEF LoggedInIfPossible
  <2>1. link.open
    BY DEF Negotiation, LinkIsUp, NoSession
  <2> QED BY <2>1 DEF Negotiation, SaslGoesOn, Deciding
<1> QED BY <1>1, Invariance, PTL

\* Messages leave in the order they were submitted, and none leaves twice, through the
\* outbound queue, the token bucket and every reconnection (irc/mod.rs submit_action, drain).
THEOREM MessagesStayInOrder == Spec => LinesInOrder
<1>1. ASSUME TypeOK, Ordered, ServeLine, server.session.registered
      PROVE  \/ relayed[1] < relayed'[1]
             \/ relayed[1] = relayed'[1] /\ relayed[2] < relayed'[2]
  <2>1. /\ link.out \in Seq(ToServer) /\ link.out # << >> /\ Head(link.out).op = "LINE"
        /\ relayed' = Head(link.out).arg
    BY <1>1 DEF ServeLine, Serve, TypeOK
  <2>2. Head(link.out).arg \in LinesOf(link.out)
    BY <1>1, <2>1, LinesOfTail DEF Ordered, WireOrdered
  <2>3. Before(relayed, relayed')
    BY <1>1, <2>1, <2>2 DEF Ordered, WireOrdered, AllBefore
  <2> QED BY <2>3 DEF Before
<1>2. TypeOK /\ Ordered =>
        (ServeLine /\ server.session.registered =>
          \/ relayed[1] < relayed'[1]
          \/ relayed[1] = relayed'[1] /\ relayed[2] < relayed'[2])
  BY <1>1
<1> QED BY <1>2, Invariance, PTL DEF LinesInOrder

\* Whatever an actor had still to say when it was stopped or aborted, connected_networks
\* ends up with what its last word was (perms.rs, runtime.rs quit_all).
THEOREM StatusIsTrue == Spec => []StatusFollowsActor
<1>1. TypeOK /\ Negotiation /\ StatusComing => StatusFollowsActor
  <2> SUFFICES ASSUME TypeOK, Negotiation, StatusComing, StatusIsSettled
               PROVE  /\ phase = "backoff" => ~connected
                      /\ server.session.registered => connected
    BY DEF StatusFollowsActor
  <2>1. Len(events) = 0 /\ Len(emitting) = 0
    BY EmptySeq DEF StatusIsSettled
  <2>2. ASSUME NEW v \in BOOLEAN, EndsIn(v) PROVE connected = v
    BY <2>1, <2>2 DEF EndsIn, Told, Says
  <2>3. Lacks(link.in, "WELCOME")
    <3>1. DOMAIN link.in = 1..Len(link.in)
      BY LenProperties DEF TypeOK
    <3> QED BY <3>1 DEF StatusIsSettled, Lacks
  <2> QED BY <2>2, <2>3 DEF StatusComing
<1> QED BY <1>1, Invariance, PTL

=============================================================================

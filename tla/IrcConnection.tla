--------------------------- MODULE IrcConnection ---------------------------
(***************************************************************************)
(* One network of the bot: the runtime that starts, reconnects and stops   *)
(* its IRC actor (runtime.rs), the actor itself with capability            *)
(* negotiation, the rate-limited outbound queue and the rejoin timers      *)
(* (irc/mod.rs), the permission stage that records which networks are      *)
(* connected (perms.rs), and the server at the other end of the link.      *)
(*                                                                         *)
(* A module's message is a number and the lines the actor splits it into;  *)
(* texts and targets are left out.  Casemapping and channel membership     *)
(* belong to other modules.  Replies to CTCP requests use the outbound     *)
(* queue exactly as messages do and are not told apart from them.          *)
(***************************************************************************)
EXTENDS Naturals, Sequences, FiniteSets

CONSTANTS
    Channels,          \* the network's configured channels
    Kinds,             \* the servers and SASL settings to consider
    InboxSize,         \* capacity of the action channel (64 in the code)
    MaxPending,        \* MAX_PENDING: capacity of the outbound queue (64)
    Burst,             \* RATE_BURST: tokens of a full bucket (4)
    EventCap,          \* capacity of the event channel (256)
    MaxLines,          \* bound: lines of one message
    MaxMessages,       \* bound: messages the modules send
    MaxTroubles        \* bound: lost and failed connections, kicks, failures to
                       \* load the configuration, requests to reconnect or stop

\* What the server supports and whether it accepts the configured password;
\* sasl says whether the network is configured for SASL.
Caps == {"account-tag", "sasl"}
ServerKinds == [sasl : BOOLEAN, cap : BOOLEAN, offers : SUBSET Caps, accepts : BOOLEAN]

ASSUME KindsAssumption ==
    /\ Kinds \subseteq ServerKinds
    /\ \A kind \in Kinds :
          /\ kind.offers # {} => kind.cap
          /\ kind.accepts => kind.sasl /\ "sasl" \in kind.offers

ASSUME BoundsAssumption ==
    /\ InboxSize \in Nat \ {0} /\ MaxPending \in Nat \ {0}
    /\ Burst \in Nat \ {0} /\ EventCap \in Nat \ {0} /\ MaxLines \in Nat \ {0}
    /\ MaxMessages \in Nat /\ MaxTroubles \in Nat

VARIABLES
    core,        \* the runtime: running, waiting for the actor to quit, stopped
    registry,    \* whether modules find an action sender for the network
    inbox,       \* actions sent to the actor and not yet received
    phase,       \* where the actor is
    emitting,    \* events the actor is waiting to send
    neg,         \* Neg: capability negotiation of this connection
    pending,     \* lines waiting for the rate limiter
    tokens,      \* whole tokens in the bucket
    rejoins,     \* channels with a rejoin timer
    link,        \* the TCP connection: [open, in, out]
    server,      \* what the server knows of this session
    relayed,     \* the last line the server relayed, over all sessions
    events,      \* the event channel to the permission stage
    connected,   \* whether the network is in connected_networks
    spent        \* how much of each bound is used

actorVars == <<phase, emitting, neg, pending, tokens, rejoins>>
wireVars  == <<link, server, relayed>>
coreVars  == <<core, registry>>
permsVars == <<events, connected>>
vars == <<coreVars, inbox, actorVars, wireVars, permsVars, spent>>

----------------------------------------------------------------------------
(* The data the parts exchange.                                            *)

Msg(op, arg) == [op |-> op, arg |-> arg]

Lines(id, n) == [k \in 1..n |-> Msg("LINE", <<id, k>>)]

NoSession == [user |-> FALSE, holding |-> FALSE, registered |-> FALSE,
              loggedin |-> FALSE, joined |-> {}]

\* What can be on the wire in each direction, in the actor's channel, and in the session.
Plain(ops) == [op : ops, arg : {<< >>}]

ToServer == [op : {"REQ"}, arg : SUBSET Caps] \cup [op : {"JOIN"}, arg : SUBSET Channels]
            \cup [op : {"LINE"}, arg : Nat \X Nat]
            \cup Plain({"USER", "AUTHENTICATE", "PASSWORD", "END"})

ToClient == [op : {"ACK", "NAK"}, arg : SUBSET Caps] \cup [op : {"KICK"}, arg : Channels]
            \cup Plain({"AUTHENTICATE", "SUCCESS", "FAILURE", "WELCOME", "MOTD"})

Order == [op : {"MESSAGE"}, arg : Nat \X Nat] \cup Plain({"QUIT"})

EventNames == {"Connected", "Disconnected", "Parted"}

Session == [user : BOOLEAN, holding : BOOLEAN, registered : BOOLEAN, loggedin : BOOLEAN,
            joined : SUBSET Channels]

\* A token bucket hands out whole tokens.
Smaller(a, b) == IF a < b THEN a ELSE b

\* Neg of a new connection.
FreshNeg == [pending |-> server.kind.sasl, retried |-> FALSE, ended |-> FALSE]

----------------------------------------------------------------------------
Init ==
    /\ core = "running" /\ registry = TRUE
    /\ inbox = << >>
    /\ phase = "connecting" /\ emitting = << >>
    /\ \E kind \in Kinds :
          /\ server = [kind |-> kind, session |-> NoSession]
          /\ neg = [pending |-> kind.sasl, retried |-> FALSE, ended |-> FALSE]
    /\ pending = << >> /\ tokens = Burst /\ rejoins = {}
    /\ link = [open |-> FALSE, in |-> << >>, out |-> << >>]
    /\ relayed = <<0, 0>>
    /\ events = << >> /\ connected = FALSE
    /\ spent = [messages |-> 0, troubles |-> 0]

Trouble ==
    /\ spent.troubles < MaxTroubles
    /\ spent' = [spent EXCEPT !.troubles = @ + 1]

\* What belongs to one connection starts afresh with the next.
NoConnection ==
    /\ neg' = FreshNeg /\ pending' = << >> /\ tokens' = Burst /\ rejoins' = {}
    /\ link' = [open |-> FALSE, in |-> << >>, out |-> << >>]
    /\ server' = [server EXCEPT !.session = NoSession]

----------------------------------------------------------------------------
(* The runtime.                                                            *)

\* A module's message, or an operator's: try_send into the actor's channel,
\* dropped when that is full or the actor is gone.
Send(n) ==
    /\ registry
    /\ spent.messages < MaxMessages
    /\ spent' = [spent EXCEPT !.messages = @ + 1]
    /\ inbox' = IF Len(inbox) < InboxSize /\ phase # "none"
                THEN Append(inbox, Msg("MESSAGE", <<spent.messages + 1, n>>))
                ELSE inbox
    /\ UNCHANGED <<coreVars, actorVars, wireVars, permsVars>>

\* quit_all: QUIT is sent without waiting, then the actor gets two seconds.
RequestQuit(why) ==
    /\ core = "running"
    /\ Trouble
    /\ core' = why
    /\ inbox' = IF registry /\ Len(inbox) < InboxSize /\ phase # "none"
                THEN Append(inbox, Msg("QUIT", << >>))
                ELSE inbox
    /\ UNCHANGED <<registry, actorVars, wireVars, permsVars>>

Reconnect == RequestQuit("reconnecting")
Shutdown == RequestQuit("stopping")

\* connect_all: a new actor with a new channel, unless the configuration
\* cannot be loaded; then the network stays without an actor.
ConnectAll ==
    \/ /\ core' = "running" /\ registry' = TRUE
       /\ phase' = "connecting"
       /\ UNCHANGED spent
    \/ /\ Trouble
       /\ core' = "running" /\ registry' = FALSE
       /\ phase' = "none"

\* The end of quit_all, once the actor is gone: the registry and the set of
\* connected networks are cleared, and a reconnect goes on to connect_all.
AllQuit ==
    /\ inbox' = << >> /\ connected' = FALSE
    /\ emitting' = << >> /\ NoConnection
    /\ IF core = "reconnecting"
       THEN ConnectAll
       ELSE core' = "stopped" /\ registry' = FALSE /\ phase' = "none" /\ UNCHANGED spent
    /\ UNCHANGED <<relayed, events>>

ActorGone == phase = "none" /\ emitting = << >>

QuitInTime == core \in {"reconnecting", "stopping"} /\ ActorGone /\ AllQuit

\* The grace period is over: the task is aborted wherever it waits, and an
\* event it had not yet sent is lost.
QuitAborted == core \in {"reconnecting", "stopping"} /\ ~ActorGone /\ AllQuit

----------------------------------------------------------------------------
(* The permission stage.                                                   *)

ForwardEvent ==
    /\ events # << >>
    /\ events' = Tail(events)
    /\ connected' = CASE Head(events) = "Connected" -> TRUE
                      [] Head(events) = "Disconnected" -> FALSE
                      [] OTHER -> connected
    /\ UNCHANGED <<coreVars, inbox, actorVars, wireVars, spent>>

----------------------------------------------------------------------------
(* The actor.  While it waits to send an event it does nothing else.       *)

Free == emitting = << >>

EmitEvent ==
    /\ emitting # << >> /\ Len(events) < EventCap
    /\ events' = Append(events, Head(emitting))
    /\ emitting' = Tail(emitting)
    /\ UNCHANGED <<coreVars, inbox, phase, neg, pending, tokens, rejoins,
                   wireVars, connected, spent>>

\* The connection is up, and registration begins with our capability request.
ConnectSucceeds ==
    /\ phase = "connecting" /\ Free
    /\ phase' = "up"
    /\ link' = [open |-> TRUE, in |-> << >>,
                out |-> << Msg("REQ", IF server.kind.sasl THEN Caps ELSE {"account-tag"}),
                           Msg("USER", << >>) >>]
    /\ UNCHANGED <<coreVars, inbox, emitting, neg, pending, tokens, rejoins,
                   server, relayed, permsVars, spent>>

\* Mutant: the supervisor reconnects without reporting the loss.
RunEndsSilently ==
    /\ phase' = "backoff" /\ emitting' = << >>
    /\ NoConnection
    /\ UNCHANGED <<coreVars, inbox, relayed, permsVars>>

\* run() returned without a request to stop: the supervisor reports it and
\* waits for the backoff delay.
RunEnds ==
    /\ phase' = "backoff" /\ emitting' = << "Disconnected" >>
    /\ NoConnection
    /\ UNCHANGED <<coreVars, inbox, relayed, permsVars>>

ConnectFails ==
    /\ phase = "connecting" /\ Free
    /\ Trouble
    /\ RunEnds

\* The stream ends, or fails with messages still unread.
ConnectionEnds ==
    /\ phase = "up" /\ Free /\ ~link.open
    /\ RunEnds /\ UNCHANGED spent

BackoffExpires ==
    /\ phase = "backoff" /\ Free
    /\ phase' = "connecting"
    /\ UNCHANGED <<coreVars, inbox, emitting, neg, pending, tokens, rejoins,
                   wireVars, permsVars, spent>>

\* Actions that arrive while disconnected are dropped; QUIT ends the actor.
BackoffReceives ==
    /\ phase = "backoff" /\ Free /\ inbox # << >>
    /\ inbox' = Tail(inbox)
    /\ phase' = IF Head(inbox).op = "QUIT" THEN "none" ELSE phase
    /\ UNCHANGED <<coreVars, emitting, neg, pending, tokens, rejoins,
                   wireVars, permsVars, spent>>

\* Mutant: a new line takes a fresh token ahead of the queue.
SubmitEagerly(lines) ==
  \E available \in tokens..Burst :
    LET direct == Smaller(Len(lines), available)
        room   == MaxPending - Len(pending)
        queued == Smaller(Len(lines) - direct, room)
    IN  /\ link' = [link EXCEPT !.out = @ \o SubSeq(lines, 1, direct)]
        /\ pending' = pending \o SubSeq(lines, direct + 1, direct + queued)
        /\ tokens' = IF pending = << >> THEN available - direct ELSE tokens

\* Mutant: the queue is checked once per message instead of once per line.
SubmitWhole(lines) ==
  \E available \in tokens..Burst :
    LET direct == IF pending = << >> THEN Smaller(Len(lines), available) ELSE 0
        queued == IF Len(pending) < MaxPending THEN Len(lines) ELSE direct
    IN  /\ link' = [link EXCEPT !.out = @ \o SubSeq(lines, 1, direct)]
        /\ pending' = pending \o SubSeq(lines, direct + 1, queued)
        /\ tokens' = IF pending = << >> THEN available - direct ELSE tokens

\* submit_action: lines go straight to the wire only while nothing is queued
\* and there is a token; the rest is queued up to MAX_PENDING and then dropped.
\* The bucket is refilled when it is asked for a token, by any number since.
Submit(lines) ==
  \E available \in tokens..Burst :
    LET direct == IF pending = << >> THEN Smaller(Len(lines), available) ELSE 0
        room   == MaxPending - Len(pending)
        queued == Smaller(Len(lines) - direct, room)
    IN  /\ link' = [link EXCEPT !.out = @ \o SubSeq(lines, 1, direct)]
        /\ pending' = pending \o SubSeq(lines, direct + 1, direct + queued)
        /\ tokens' = IF pending = << >> THEN available - direct ELSE tokens

ReceiveMessage ==
    /\ phase = "up" /\ Free /\ inbox # << >> /\ Head(inbox).op = "MESSAGE"
    /\ inbox' = Tail(inbox)
    /\ Submit(Lines(Head(inbox).arg[1], Head(inbox).arg[2]))
    /\ UNCHANGED <<coreVars, phase, emitting, neg, rejoins, server, relayed,
                   permsVars, spent>>

\* QUIT goes past the queue, and the actor reports the end and stops.
ReceiveQuit ==
    /\ phase = "up" /\ Free /\ inbox # << >> /\ Head(inbox).op = "QUIT"
    /\ inbox' = Tail(inbox)
    /\ phase' = "none" /\ emitting' = << "Disconnected" >>
    /\ NoConnection
    /\ UNCHANGED <<coreVars, relayed, permsVars, spent>>

\* Lines wait only for an empty bucket; the queue sends as many as there are
\* tokens again.
Drain ==
    /\ phase = "up" /\ Free /\ pending # << >>
    /\ \E available \in 1..Burst :
          LET sent == Smaller(Len(pending), available)
          IN  /\ link' = [link EXCEPT !.out = @ \o SubSeq(pending, 1, sent)]
              /\ pending' = SubSeq(pending, sent + 1, Len(pending))
              /\ tokens' = available - sent
    /\ UNCHANGED <<coreVars, inbox, phase, emitting, neg, rejoins, server, relayed,
                   permsVars, spent>>

\* Mutant: the timer is spent on a JOIN only if nothing is queued.
RejoinIfIdle(ch) ==
    /\ phase = "up" /\ Free /\ ch \in rejoins
    /\ rejoins' = rejoins \ {ch}
    /\ Submit(IF pending = << >> THEN << Msg("JOIN", {ch}) >> ELSE << >>)
    /\ UNCHANGED <<coreVars, inbox, phase, emitting, neg, server, relayed,
                   permsVars, spent>>

\* A rejoin timer is due: JOIN takes its turn in the outbound queue, and the
\* timer is gone whether or not there was room for it.
RejoinTick(ch) ==
    /\ phase = "up" /\ Free /\ ch \in rejoins
    /\ rejoins' = rejoins \ {ch}
    /\ Submit(<< Msg("JOIN", {ch}) >>)
    /\ UNCHANGED <<coreVars, inbox, phase, emitting, neg, server, relayed,
                   permsVars, spent>>
----------------------------------------------------------------------------
(* The actor reads the next message of the server.                         *)

Reading(op) ==
    /\ phase = "up" /\ Free
    /\ link.in # << >> /\ Head(link.in).op = op
    /\ UNCHANGED <<coreVars, inbox, phase, pending, tokens, server, relayed,
                   permsVars, spent>>

Reply(lines) == link' = [link EXCEPT !.in = Tail(@), !.out = @ \o lines]

\* end_caps: CAP END goes out once.
EndCaps ==
    /\ neg' = [neg EXCEPT !.pending = FALSE, !.ended = TRUE]
    /\ Reply(IF neg.ended THEN << >> ELSE << Msg("END", << >>) >>)

ReadAck ==
    /\ Reading("ACK")
    /\ IF neg.pending
       THEN /\ Reply(IF "sasl" \in Head(link.in).arg
                     THEN << Msg("AUTHENTICATE", << >>) >> ELSE << >>)
            /\ UNCHANGED neg
       ELSE EndCaps
    /\ UNCHANGED <<emitting, rejoins>>

\* Mutant: a rejected request ends negotiation without the retry.
ReadNakAtOnce == Reading("NAK") /\ EndCaps /\ UNCHANGED <<emitting, rejoins>>

\* The combined request is retried for SASL alone, once.
ReadNak ==
    /\ Reading("NAK")
    /\ IF neg.pending /\ ~neg.retried
       THEN /\ neg' = [neg EXCEPT !.retried = TRUE]
            /\ Reply(<< Msg("REQ", {"sasl"}) >>)
       ELSE EndCaps
    /\ UNCHANGED <<emitting, rejoins>>

ReadAuthenticate ==
    /\ Reading("AUTHENTICATE")
    /\ Reply(IF neg.pending THEN << Msg("PASSWORD", << >>) >> ELSE << >>)
    /\ UNCHANGED <<neg, emitting, rejoins>>

\* RPL_LOGGEDIN and RPL_SASLSUCCESS: the server sends both.
ReadSuccess ==
    /\ Reading("SUCCESS")
    /\ IF neg.pending THEN EndCaps ELSE Reply(<< >>) /\ UNCHANGED neg
    /\ UNCHANGED <<emitting, rejoins>>

\* Mutant: the failure is logged and negotiation left open.
ReadFailureOnly == Reading("FAILURE") /\ Reply(<< >>) /\ UNCHANGED <<neg, emitting, rejoins>>

ReadFailure ==
    /\ Reading("FAILURE")
    /\ EndCaps
    /\ UNCHANGED <<emitting, rejoins>>

ReadWelcome ==
    /\ Reading("WELCOME")
    /\ emitting' = << "Connected" >>
    /\ Reply(<< >>) /\ UNCHANGED <<neg, rejoins>>

\* The irc crate joins the configured channels at the end of the MOTD.
ReadMotd ==
    /\ Reading("MOTD")
    /\ Reply(<< Msg("JOIN", Channels) >>)
    /\ UNCHANGED <<neg, emitting, rejoins>>

\* A kick of the bot itself: a second one replaces the timer of the first.
ReadKick ==
    /\ Reading("KICK")
    /\ emitting' = << "Parted" >>
    /\ rejoins' = rejoins \cup {Head(link.in).arg}
    /\ Reply(<< >>) /\ UNCHANGED neg

----------------------------------------------------------------------------
(* The server.                                                             *)

\* The session after the server has what registration needs.
Welcomed(s) == IF s.user /\ ~s.holding /\ ~s.registered
               THEN [s EXCEPT !.registered = TRUE] ELSE s

Greeting(s) == IF s.user /\ ~s.holding /\ ~s.registered
               THEN << Msg("WELCOME", << >>), Msg("MOTD", << >>) >> ELSE << >>

\* The server reads the bot's next line, and answers.
Serve(op) ==
    /\ link.open /\ link.out # << >> /\ Head(link.out).op = op
    /\ UNCHANGED <<coreVars, inbox, actorVars, permsVars, spent>>

Answer(s, messages) ==
    /\ server' = [server EXCEPT !.session = Welcomed(s)]
    /\ link' = [link EXCEPT !.out = Tail(@), !.in = @ \o messages \o Greeting(s)]

ServeRequest ==
    /\ Serve("REQ") /\ UNCHANGED relayed
    /\ LET asked == Head(link.out).arg
       IN  IF ~server.kind.cap
           THEN Answer(server.session, << >>)
           ELSE Answer([server.session EXCEPT !.holding = TRUE],
                       << Msg(IF asked \subseteq server.kind.offers THEN "ACK" ELSE "NAK",
                              asked) >>)

ServeUser ==
    /\ Serve("USER") /\ UNCHANGED relayed
    /\ Answer([server.session EXCEPT !.user = TRUE], << >>)

ServeAuthenticate ==
    /\ Serve("AUTHENTICATE") /\ UNCHANGED relayed
    /\ Answer(server.session, << Msg("AUTHENTICATE", << >>) >>)

ServePassword ==
    /\ Serve("PASSWORD") /\ UNCHANGED relayed
    /\ IF server.kind.accepts
       THEN Answer([server.session EXCEPT !.loggedin = TRUE],
                   << Msg("SUCCESS", << >>), Msg("SUCCESS", << >>) >>)
       ELSE Answer(server.session, << Msg("FAILURE", << >>) >>)

ServeEnd ==
    /\ Serve("END") /\ UNCHANGED relayed
    /\ Answer([server.session EXCEPT !.holding = FALSE], << >>)

ServeJoin ==
    /\ Serve("JOIN") /\ UNCHANGED relayed
    /\ Answer([server.session EXCEPT !.joined =
                   IF server.session.registered THEN @ \cup Head(link.out).arg ELSE @],
              << >>)

\* Before registration the server refuses a message.
ServeLine ==
    /\ Serve("LINE")
    /\ Answer(server.session, << >>)
    /\ relayed' = IF server.session.registered THEN Head(link.out).arg ELSE relayed

Kick(ch) ==
    /\ link.open /\ ch \in server.session.joined
    /\ Trouble
    /\ server' = [server EXCEPT !.session.joined = @ \ {ch}]
    /\ link' = [link EXCEPT !.in = Append(@, Msg("KICK", ch))]
    /\ UNCHANGED <<coreVars, inbox, actorVars, relayed, permsVars>>

DropLink ==
    /\ link.open
    /\ Trouble
    /\ link' = [link EXCEPT !.open = FALSE, !.out = << >>]
    /\ server' = [server EXCEPT !.session = NoSession]
    /\ UNCHANGED <<coreVars, inbox, actorVars, relayed, permsVars>>

----------------------------------------------------------------------------
Runtime == Reconnect \/ Shutdown \/ QuitInTime \/ QuitAborted

\* The branches of the actor's select!.
Stream ==
    \/ ReadAck \/ ReadNak \/ ReadAuthenticate \/ ReadSuccess \/ ReadFailure
    \/ ReadWelcome \/ ReadMotd \/ ReadKick \/ ConnectionEnds

Actions == ReceiveMessage \/ ReceiveQuit

Server ==
    \/ ServeRequest \/ ServeUser \/ ServeAuthenticate \/ ServePassword
    \/ ServeEnd \/ ServeJoin \/ ServeLine

Next ==
    \/ \E n \in 1..MaxLines : Send(n)
    \/ Runtime \/ ForwardEvent \/ EmitEvent
    \/ ConnectSucceeds \/ ConnectFails \/ BackoffExpires \/ BackoffReceives
    \/ Actions \/ Drain \/ Stream \/ Server \/ DropLink
    \/ \E ch \in Channels : RejoinTick(ch) \/ Kick(ch)

\* select! picks among the branches that are ready at random, so a branch that
\* stays ready is taken; timers expire; the server answers what reaches it.
Fairness ==
    /\ WF_vars(QuitInTime \/ QuitAborted)
    /\ WF_vars(ForwardEvent) /\ WF_vars(EmitEvent)
    /\ WF_vars(ConnectSucceeds) /\ WF_vars(BackoffExpires)
    /\ WF_vars(Actions) /\ WF_vars(Drain) /\ WF_vars(Stream)
    /\ \A ch \in Channels : WF_vars(RejoinTick(ch))
    /\ WF_vars(Server)

Spec == Init /\ [][Next]_vars

FairSpec == Spec /\ Fairness

----------------------------------------------------------------------------
(* Properties.                                                             *)

\* What the variables hold, and the capacities of the queues.
TypeOK ==
    /\ core \in {"running", "reconnecting", "stopping", "stopped"}
    /\ registry \in BOOLEAN /\ connected \in BOOLEAN
    /\ phase \in {"none", "connecting", "up", "backoff"}
    /\ inbox \in Seq(Order) /\ Len(inbox) <= InboxSize
    /\ events \in Seq(EventNames) /\ Len(events) <= EventCap
    /\ emitting \in Seq(EventNames) /\ Len(emitting) <= 1
    /\ pending \in Seq(ToServer) /\ Len(pending) <= MaxPending
    /\ tokens \in 0..Burst /\ rejoins \subseteq Channels
    /\ neg \in [pending : BOOLEAN, retried : BOOLEAN, ended : BOOLEAN]
    /\ link \in [open : BOOLEAN, in : Seq(ToClient), out : Seq(ToServer)]
    /\ server \in [kind : Kinds, session : Session]
    /\ relayed \in Nat \X Nat
    /\ spent \in [messages : Nat, troubles : Nat]

\* Messages leave in the order they were submitted and none twice, however
\* the token bucket, the outbound queue, splitting and reconnects interleave
\* (submit_action preserves FIFO order once anything is queued).
LinesInOrder ==
    [][ServeLine /\ server.session.registered =>
          \/ relayed[1] < relayed'[1]
          \/ relayed[1] = relayed'[1] /\ relayed[2] < relayed'[2]]_vars

\* Negotiation does not end before SASL is decided: where the server offers
\* SASL and takes the password, the bot is logged in once it is registered,
\* also when the server rejects the combined capability request.
LoggedInIfPossible ==
    server.session.registered /\ server.kind.accepts => server.session.loggedin

\* An enabled network whose actor runs gets registered, whatever capabilities
\* the server has and however often the connection fails or is lost, unless
\* the runtime is asked to quit first.
EnabledNetworkRegisters ==
    (core = "running" /\ registry) ~> (server.session.registered \/ core # "running")

\* A rejoin timer brings the bot back into the channel that kicked it, behind
\* whatever waits for the rate limiter, while the connection lasts and unless
\* the outbound queue is full.
RejoinsAreTried ==
    \A ch \in Channels :
        (phase = "up" /\ ch \in rejoins)
            ~> (\/ ch \in server.session.joined \/ ~server.session.registered
                \/ Len(pending) = MaxPending)

\* What a server or the supervisor interrupts is taken up again: registration, and the
\* way back into a channel.
InterruptedWorkResumes == EnabledNetworkRegisters /\ RejoinsAreTried

\* Nothing about the connection is still on its way to connected_networks.
StatusIsSettled ==
    /\ events = << >> /\ emitting = << >>
    /\ phase = "up" => link.open
    /\ \A k \in DOMAIN link.in : link.in[k].op # "WELCOME"

\* Once the permission stage has caught up, a network that waits to reconnect
\* is not in connected_networks and a registered one is, whatever was still
\* queued when an earlier actor quit or was aborted.
StatusFollowsActor ==
    StatusIsSettled =>
        /\ phase = "backoff" => ~connected
        /\ server.session.registered => connected
=============================================================================

----------------------------- MODULE WsSession -----------------------------
(***************************************************************************)
(* One connection to /ws/telemetry (api/websocket.py): the reader task     *)
(* turns the client's requests into Redis commands, the forwarder task     *)
(* moves what Redis pushes into a bounded queue, the sender task empties   *)
(* the queue into the socket.  The handler waits for the first of the      *)
(* three to end, cancels the others and closes the subscription.           *)
(*                                                                         *)
(* Every message Redis pushes on the connection has a number, 1, 2, ...;   *)
(* 0 stands for the confirmation of an unsubscribe.  The payload of a      *)
(* message is left out, as are messages that are not JSON (the forwarder   *)
(* skips them; the ingest service publishes none).                         *)
(***************************************************************************)
EXTENDS Naturals, FiniteSets, Sequences

CONSTANTS
  Equipment,     \* equipment ids, each with its channel telemetry:<id>
  All,           \* the pattern telemetry:*
  QueueMax,      \* SEND_QUEUE_MAX
  MaxRequests,   \* bound on the requests of the client
  MaxPushed      \* bound on the messages Redis pushes

ASSUME SessionAssumption ==
  /\ All \notin Equipment
  /\ QueueMax \in Nat \ {0}
  /\ MaxRequests \in Nat
  /\ MaxPushed \in Nat

VARIABLES
  phase,       \* of ws_telemetry: "open", "closing" (pubsub.close), "closed"
  gauge,       \* websocket_connections_active
  running,     \* the tasks that have not ended
  gone,        \* the client has disconnected
  redisUp,     \* the connection to Redis stands
  request,     \* the request the reader works on, and the channels left of it
  subscribed,  \* subscribed
  allMode,     \* all_mode: psubscribe has been called
  commands,    \* commands sent to Redis and not yet executed there
  remote,      \* what Redis holds for this connection
  arrived,     \* pushed by Redis, not yet read by the forwarder
  queue,       \* send_queue
  sending,     \* the message send_text is awaiting, at most one
  sent,        \* history: the messages sent
  dropped,     \* websocket_client_dropped_total{reason="queue_full"}
  pushed,      \* history: the number of messages pushed
  wanted,      \* history: what the requests taken so far ask for
  requests     \* history: the number of requests taken

vars == <<phase, gauge, running, gone, redisUp, request, subscribed, allMode,
          commands, remote, arrived, queue, sending, sent, dropped, pushed,
          wanted, requests>>

readerVars == <<request, subscribed, allMode, commands, wanted, requests>>
streamVars == <<queue, sending, sent, dropped>>

Tasks == {"reader", "forwarder", "sender"}

Channels == Equipment \cup {All}

NoRequest == [op |-> "none", rest |-> <<>>]

(* What a client can send.  "invalid" is text that is not JSON or names an *)
(* unknown action; its answer is the error message.  "malformed" is JSON   *)
(* that is no object, or whose equipment_ids are no list: parsing it, or   *)
(* the loop over the ids, raises what the reader does not catch.           *)
Lists == UNION {[1..n -> Equipment] : n \in 0..2}

Requests ==
  [op : {"subscribe", "unsubscribe"}, rest : Lists]
    \cup {[op |-> "subscribe_all", rest |-> <<All>>],
          [op |-> "invalid", rest |-> <<>>],
          [op |-> "malformed", rest |-> <<>>]}

Init ==
  /\ phase = "open"
  /\ gauge = 1
  /\ running = Tasks
  /\ gone = FALSE
  /\ redisUp = TRUE
  /\ request = NoRequest
  /\ subscribed = {}
  /\ allMode = FALSE
  /\ commands = <<>>
  /\ remote = {}
  /\ arrived = <<>>
  /\ queue = <<>>
  /\ sending = <<>>
  /\ sent = <<>>
  /\ dropped = 0
  /\ pushed = 0
  /\ wanted = {}
  /\ requests = 0
-----------------------------------------------------------------------------
(* The set of channels held after r, with the channels chs added or taken  *)
(* away.                                                                   *)
After(op, held, chs) ==
  IF op = "unsubscribe" THEN held \ chs
  ELSE IF op \in {"invalid", "malformed"} THEN held ELSE held \cup chs

(* reader: receive_text returns and the text is parsed. *)
Receive(r) ==
  /\ "reader" \in running
  /\ request = NoRequest
  /\ requests < MaxRequests
  /\ ~gone
  /\ request' = r
  /\ wanted' = After(r.op, wanted, {r.rest[i] : i \in DOMAIN r.rest})
  /\ requests' = requests + 1
  /\ UNCHANGED <<phase, gauge, running, gone, redisUp, subscribed, allMode,
                 commands, remote, arrived, pushed, streamVars>>

(* Mutant of NowSubscribed: subscribed.discard is forgotten. *)
NeverDiscarded(op, ch) == subscribed \cup ({ch} \cap Equipment)

(* subscribed.add and subscribed.discard; it holds no pattern. *)
NowSubscribed(op, ch) == After(op, subscribed, {ch} \cap Equipment)

(* One turn of the reader's loop over equipment_ids, or the psubscribe.  A *)
(* command is sent, not awaited to its execution, and only if it changes   *)
(* subscribed; psubscribe is always sent.                                  *)
Command ==
  LET ch == Head(request.rest)
      op == request.op
  IN  /\ "reader" \in running
      /\ redisUp
      /\ request.rest # <<>>
      /\ request' = [request EXCEPT !.rest = Tail(@)]
      /\ commands' = IF ch \in subscribed <=> op = "unsubscribe"
                     THEN Append(commands, [op |-> op, ch |-> ch])
                     ELSE commands
      /\ subscribed' = NowSubscribed(op, ch)
      /\ allMode' = (allMode \/ op = "subscribe_all")
      /\ UNCHANGED <<phase, gauge, running, gone, redisUp, remote, arrived,
                     pushed, wanted, requests, streamVars>>

(* The ack or the error message has been sent. *)
Answer ==
  /\ "reader" \in running
  /\ request.op \notin {"none", "malformed"}
  /\ request.rest = <<>>
  /\ request' = NoRequest
  /\ UNCHANGED <<phase, gauge, running, gone, redisUp, subscribed, allMode,
                 commands, remote, arrived, pushed, wanted, requests,
                 streamVars>>

Ends(task) ==
  /\ task \in running
  /\ running' = running \ {task}
  /\ UNCHANGED <<phase, gauge, gone, redisUp, remote, arrived, pushed,
                 readerVars, streamVars>>

(* receive_text or the answer raises WebSocketDisconnect, or a command     *)
(* finds no connection or the request is malformed, errors the reader does *)
(* not catch.                                                              *)
ReaderEnds ==
  /\ \/ gone /\ request.rest = <<>>
     \/ request.op = "malformed"
     \/ ~redisUp /\ request.rest # <<>>
  /\ Ends("reader")
-----------------------------------------------------------------------------
(* pubsub.subscribed: a channel or the pattern, or a channel whose         *)
(* unsubscribe has not been confirmed.                                     *)
Listening ==
  \/ subscribed # {}
  \/ allMode
  \/ \E i \in 1..Len(commands) : commands[i].op = "unsubscribe"
  \/ \E i \in 1..Len(arrived) : arrived[i] = 0

(* put_nowait; on QueueFull the queue becomes q, and a drop is counted. *)
PutOr(m, q) ==
  IF Len(queue) < QueueMax
  THEN queue' = Append(queue, m) /\ UNCHANGED dropped
  ELSE queue' = q /\ dropped' = dropped + 1

(* Mutants of Enqueue: nothing is dropped; the new message is; all but the *)
(* new one are; the new one takes the place of the oldest.                 *)
EnqueueUnbounded(m) == queue' = Append(queue, m) /\ UNCHANGED dropped

EnqueueDropsNewest(m) == PutOr(m, queue)

EnqueueClears(m) == PutOr(m, <<m>>)

EnqueueFront(m) == PutOr(m, <<m>> \o Tail(queue))

(* On QueueFull the oldest message is dropped. *)
Enqueue(m) == PutOr(m, Append(Tail(queue), m))

(* forwarder: get_message returns; a confirmation is ignored. *)
Forward ==
  /\ "forwarder" \in running
  /\ arrived # <<>>
  /\ arrived' = Tail(arrived)
  /\ IF Head(arrived) = 0 THEN UNCHANGED <<queue, dropped>>
     ELSE Enqueue(Head(arrived))
  /\ UNCHANGED <<phase, gauge, running, gone, redisUp, remote, pushed,
                 sending, sent, readerVars>>

(* get_message raises, the error is logged; a forwarder that listens to    *)
(* nothing sleeps and does not notice.                                     *)
ForwarderEnds ==
  /\ ~redisUp
  /\ Listening
  /\ Ends("forwarder")

(* sender: send_queue.get, then send_text, which returns or raises. *)
Take ==
  /\ "sender" \in running
  /\ sending = <<>>
  /\ queue # <<>>
  /\ sending' = <<Head(queue)>>
  /\ queue' = Tail(queue)
  /\ UNCHANGED <<phase, gauge, running, gone, redisUp, remote, arrived,
                 pushed, sent, dropped, readerVars>>

Sent ==
  /\ "sender" \in running
  /\ sending # <<>>
  /\ sent' = sent \o sending
  /\ sending' = <<>>
  /\ UNCHANGED <<phase, gauge, running, gone, redisUp, remote, arrived,
                 pushed, queue, dropped, readerVars>>

SenderEnds ==
  /\ gone
  /\ sending # <<>>
  /\ Ends("sender")
-----------------------------------------------------------------------------
(* Mutant of FirstCompleted: asyncio.wait returns when all tasks ended. *)
AllCompleted == running = {}

FirstCompleted == running # Tasks

(* The handler goes on: the other tasks are cancelled, the gauge goes down. *)
Cancel ==
  /\ phase = "open"
  /\ FirstCompleted
  /\ phase' = "closing"
  /\ running' = {}
  /\ gauge' = gauge - 1
  /\ UNCHANGED <<gone, redisUp, remote, arrived, pushed, readerVars,
                 streamVars>>

(* pubsub.close has dropped the connection to Redis, or raised. *)
Close ==
  /\ phase = "closing"
  /\ phase' = "closed"
  /\ remote' = {}
  /\ UNCHANGED <<gauge, running, gone, redisUp, arrived, pushed, readerVars,
                 streamVars>>
-----------------------------------------------------------------------------
(* Redis executes the commands of the connection in order, and pushes a    *)
(* message published for e once for the channel and once for the pattern.  *)
Execute ==
  LET c == Head(commands)
  IN  /\ redisUp
      /\ phase # "closed"
      /\ commands # <<>>
      /\ commands' = Tail(commands)
      /\ remote' = After(c.op, remote, {c.ch})
      /\ arrived' = IF c.op = "unsubscribe" THEN Append(arrived, 0)
                    ELSE arrived
      /\ UNCHANGED <<phase, gauge, running, gone, redisUp, request,
                     subscribed, allMode, pushed, wanted, requests,
                     streamVars>>

Publish(e) ==
  LET copies == Cardinality({e, All} \cap remote)
  IN  /\ redisUp
      /\ copies > 0
      /\ pushed + copies <= MaxPushed
      /\ pushed' = pushed + copies
      /\ arrived' = arrived \o [i \in 1..copies |-> pushed + i]
      /\ UNCHANGED <<phase, gauge, running, gone, redisUp, remote, readerVars,
                     streamVars>>

ClientLeaves ==
  /\ ~gone
  /\ gone' = TRUE
  /\ UNCHANGED <<phase, gauge, running, redisUp, remote, arrived, pushed,
                 readerVars, streamVars>>

(* Redis stops or the connection breaks; its side forgets the connection.  *)
RedisLost ==
  /\ redisUp
  /\ redisUp' = FALSE
  /\ remote' = {}
  /\ UNCHANGED <<phase, gauge, running, gone, arrived, pushed, readerVars,
                 streamVars>>

Next ==
  \/ \E r \in Requests : Receive(r)
  \/ Command
  \/ Answer
  \/ ReaderEnds
  \/ Forward
  \/ ForwarderEnds
  \/ Take
  \/ Sent
  \/ SenderEnds
  \/ Cancel
  \/ Close
  \/ Execute
  \/ \E e \in Equipment : Publish(e)
  \/ ClientLeaves
  \/ RedisLost

Spec == Init /\ [][Next]_vars

(* The event loop runs every task that can go on, and a call on a broken   *)
(* connection raises.  Nothing is assumed of the client, of the network    *)
(* behind send_text while the client is there, or of Redis.                *)
FairSpec ==
  /\ Spec
  /\ WF_vars(Command)
  /\ WF_vars(ReaderEnds)
  /\ WF_vars(ForwarderEnds)
  /\ WF_vars(Cancel)
  /\ WF_vars(Close)
-----------------------------------------------------------------------------
(* What the forwarder took and did not drop, and how much it took. *)
Taken == sent \o sending \o queue

Forwarded == Len(Taken) + dropped

(* The messages it has still to read, without the confirmations. *)
Waiting == {arrived[i] : i \in 1..Len(arrived)} \ {0}

(* Every variable has its type; send_queue never holds more than           *)
(* SEND_QUEUE_MAX messages.                                                *)
TypeOK ==
  /\ phase \in {"open", "closing", "closed"}
  /\ gauge \in {0, 1}
  /\ running \subseteq Tasks
  /\ gone \in BOOLEAN
  /\ redisUp \in BOOLEAN
  /\ request.op \in {"none", "subscribe", "unsubscribe", "subscribe_all",
                     "invalid", "malformed"}
  /\ request.rest \in Seq(Channels)
  /\ subscribed \subseteq Equipment
  /\ allMode \in BOOLEAN
  /\ commands \in Seq([op : {"subscribe", "unsubscribe", "subscribe_all"},
                       ch : Channels])
  /\ remote \subseteq Channels
  /\ arrived \in Seq(0..pushed)
  /\ queue \in Seq(1..pushed) /\ Len(queue) <= QueueMax
  /\ sending \in Seq(1..pushed) /\ Len(sending) <= 1
  /\ sent \in Seq(1..pushed)
  /\ dropped \in 0..pushed
  /\ pushed \in Nat
  /\ wanted \subseteq Channels
  /\ requests \in 0..MaxRequests

(* The client sees the messages in the order Redis pushed them and none of *)
(* them twice, however the three tasks interleave and whatever the full    *)
(* queue drops; and none that comes is older than one it has seen.         *)
InOrder ==
  /\ \A i, j \in 1..Len(Taken) : i < j => Taken[i] < Taken[j]
  /\ \A i \in 1..Len(Taken), m \in Waiting : Taken[i] < m
  /\ \A i, j \in 1..Len(arrived) :
       i < j /\ arrived[i] # 0 /\ arrived[j] # 0 => arrived[i] < arrived[j]

(* A slow client misses old messages, never the newest: the last message   *)
(* the forwarder took is the last of the queue, or it has been taken out   *)
(* by the sender.                                                          *)
NewestKept ==
  Forwarded > 0 => Taken # <<>> /\ Taken[Len(Taken)] = Forwarded

(* The drop counter tells exactly how many messages the client missed      *)
(* ("WebSocket messages dropped due to slow consumer"): what was dropped,  *)
(* what was taken and what is waiting make up all that was pushed.         *)
DropsCounted == Waiting = (Forwarded + 1)..pushed

(* When the reader has answered and Redis has executed the commands, the   *)
(* connection holds exactly what the requests ask for; subscribed never    *)
(* makes the reader skip a command that was needed.                        *)
SubscriptionsFollow ==
  (request = NoRequest /\ commands = <<>> /\ redisUp /\ phase # "closed")
    => remote = wanted

(* The gauge counts the sessions whose tasks still run, and no session     *)
(* outlives its client, a request that its reader fails on, or its Redis   *)
(* connection while it is subscribed: whichever task fails first, the      *)
(* others stop, the gauge comes down and Redis forgets the connection.     *)
SessionEnds ==
  (\/ gone
   \/ request.op = "malformed"
   \/ ~redisUp /\ (subscribed # {} \/ allMode))
    ~> (phase = "closed" /\ running = {} /\ gauge = 0 /\ remote = {})
=============================================================================

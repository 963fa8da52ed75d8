------------------------------- MODULE LogHub -------------------------------
(***************************************************************************)
(* The in-memory log hub (internal/ws/hub.go) and the WebSocket handlers   *)
(* in front of it (internal/ws/logs.go, domain_logs.go).  A publisher      *)
(* appends numbered lines to a topic; every viewer of the topic has a      *)
(* bounded channel.  The hub keeps a bounded replay buffer per topic, with *)
(* which a new subscriber's channel is seeded, and forgets it when the     *)
(* last subscriber leaves.                                                 *)
(*                                                                         *)
(* Each hub method holds the hub's mutex throughout, so it is one operator *)
(* on the hub's state.  A connection is identified by its topic and its    *)
(* viewer: a viewer never holds two connections to one topic.              *)
(***************************************************************************)
EXTENDS Naturals, Sequences

CONSTANTS
    Topics,       \* deployments and "domain:<id>" topics
    Viewers,      \* browser pages and MCP calls
    MaxBuffered,  \* maxBufferedLines
    Headroom      \* free places of a channel beyond its replay

ASSUME HubAssumption == MaxBuffered \in Nat \ {0} /\ Headroom \in Nat \ {0}

VARIABLES
    subscribers,  \* subscribers[t] : the viewers with a channel on topic t
    buffer,       \* buffer[t] : the replay buffer of topic t
    channel,      \* channel[t][v] : the lines waiting to be written to v
    capacity,     \* capacity[t][v] : cap(channel)
    conn,         \* conn[t][v] : the WebSocket of v on t
    published,    \* history: the lines published on topic t in this session
    forgotten,    \* history: those that have left the replay buffer
    withheld      \* history: those that v's channel did not get

hubVars == <<subscribers, buffer, channel, capacity, conn, published, forgotten, withheld>>
hubHistory == <<published, forgotten, withheld>>

(* A connection is dialled by the viewer, accepted by the handler (which   *)
(* subscribes), and closing from the moment it is given up until the       *)
(* handler has unsubscribed.  A dial given up before the answer is         *)
(* abandoned: the handler may still accept it.                             *)
ConnStates == {"none", "dialling", "abandoned", "open", "closing"}

\* Mutant: one element too many is kept.
NewestOffByOne(s, k) == IF Len(s) > k + 1 THEN SubSeq(s, Len(s) - k, Len(s)) ELSE s

\* The newest k elements of s.
Newest(s, k) == IF Len(s) > k THEN SubSeq(s, Len(s) - k + 1, Len(s)) ELSE s

HubInit ==
    /\ subscribers = [t \in Topics |-> {}]
    /\ buffer = [t \in Topics |-> <<>>]
    /\ channel = [t \in Topics |-> [v \in Viewers |-> <<>>]]
    /\ capacity = [t \in Topics |-> [v \in Viewers |-> 0]]
    /\ conn = [t \in Topics |-> [v \in Viewers |-> "none"]]
    /\ published = [t \in Topics |-> {}]
    /\ forgotten = [t \in Topics |-> {}]
    /\ withheld = [t \in Topics |-> [v \in Viewers |-> {}]]

-----------------------------------------------------------------------------
Lines(s) == {s[i] : i \in DOMAIN s}
HasRoom(t, v) == Len(channel[t][v]) < capacity[t][v]

(* Hub.Publish: the line enters the replay buffer and every channel that   *)
(* has room; a slow subscriber loses it.                                   *)
Publish(t, line) ==
    /\ buffer' = [buffer EXCEPT ![t] = Newest(Append(@, line), MaxBuffered)]
    /\ channel' = [channel EXCEPT ![t] = [v \in Viewers |->
           IF v \in subscribers[t] /\ HasRoom(t, v) THEN Append(@[v], line) ELSE @[v]]]
    /\ published' = [published EXCEPT ![t] = @ \union {line}]
    /\ forgotten' = [forgotten EXCEPT ![t] = @ \union
           (Lines(Append(buffer[t], line)) \ Lines(Newest(Append(buffer[t], line), MaxBuffered)))]
    /\ withheld' = [withheld EXCEPT ![t] = [v \in Viewers |->
           IF v \in subscribers[t] /\ ~HasRoom(t, v) THEN @[v] \union {line} ELSE @[v]]]
    /\ UNCHANGED <<subscribers, capacity, conn>>

\* Hub.ResetBuffer: a new session starts with an empty replay.
ResetBuffer(t) ==
    /\ buffer' = [buffer EXCEPT ![t] = <<>>]
    /\ published' = [published EXCEPT ![t] = {}]
    /\ forgotten' = [forgotten EXCEPT ![t] = {}]
    /\ UNCHANGED <<subscribers, channel, capacity, conn, withheld>>

(* The handler accepts the WebSocket and subscribes: the channel is seeded *)
(* with the replay under the same lock that Publish takes.                 *)
Subscribe(t, v) ==
    /\ conn[t][v] \in {"dialling", "abandoned"}
    /\ conn' = [conn EXCEPT ![t][v] = IF @ = "dialling" THEN "open" ELSE "closing"]
    /\ subscribers' = [subscribers EXCEPT ![t] = @ \union {v}]
    /\ channel' = [channel EXCEPT ![t][v] = buffer[t]]
    /\ capacity' = [capacity EXCEPT ![t][v] = Len(buffer[t]) + Headroom]
    /\ withheld' = [withheld EXCEPT ![t][v] = forgotten[t]]
    /\ UNCHANGED <<buffer, published, forgotten>>

\* Mutant: the channel is removed and the replay is dropped whoever is left.
UnsubscribeDropsReplay(t, v) ==
    /\ conn[t][v] = "closing"
    /\ conn' = [conn EXCEPT ![t][v] = "none"]
    /\ subscribers' = [subscribers EXCEPT ![t] = @ \ {v}]
    /\ buffer' = [buffer EXCEPT ![t] = <<>>]
    /\ channel' = [channel EXCEPT ![t][v] = <<>>]
    /\ capacity' = [capacity EXCEPT ![t][v] = 0]
    /\ withheld' = [withheld EXCEPT ![t][v] = {}]
    /\ forgotten' = [forgotten EXCEPT ![t] =
           IF subscribers[t] = {v} THEN @ \union Lines(buffer[t]) ELSE @]
    /\ UNCHANGED published

(* The handler returns (its viewer is gone) and its deferred Unsubscribe   *)
(* removes the channel, and the topic's replay with the last one.          *)
Unsubscribe(t, v) ==
    /\ conn[t][v] = "closing"
    /\ conn' = [conn EXCEPT ![t][v] = "none"]
    /\ subscribers' = [subscribers EXCEPT ![t] = @ \ {v}]
    /\ buffer' = [buffer EXCEPT ![t] = IF subscribers[t] = {v} THEN <<>> ELSE @]
    /\ channel' = [channel EXCEPT ![t][v] = <<>>]
    /\ capacity' = [capacity EXCEPT ![t][v] = 0]
    /\ withheld' = [withheld EXCEPT ![t][v] = {}]
    /\ forgotten' = [forgotten EXCEPT ![t] =
           IF subscribers[t] = {v} THEN @ \union Lines(buffer[t]) ELSE @]
    /\ UNCHANGED published

\* The handshake fails, or the server drops a dial that was given up.
Refuse(t, v) ==
    /\ conn[t][v] \in {"dialling", "abandoned"}
    /\ conn' = [conn EXCEPT ![t][v] = "none"]
    /\ UNCHANGED <<subscribers, buffer, channel, capacity, hubHistory>>

\* ws.close(): the viewer gives up a connection in whatever state it is.
HungUp(c) ==
    CASE c = "open" -> "closing" [] c = "dialling" -> "abandoned" [] OTHER -> c

-----------------------------------------------------------------------------
\* The hub's part of the topics ts, whose lines are of the set Line.
HubTypeOK(ts, Line) ==
    /\ subscribers \in [Topics -> SUBSET Viewers]
    /\ capacity \in [Topics -> [Viewers -> Nat]]
    /\ conn \in [Topics -> [Viewers -> ConnStates]]
    /\ \A t \in ts : buffer[t] \in Seq(Line) /\ Len(buffer[t]) <= MaxBuffered
    /\ \A t \in ts, v \in Viewers :
         /\ channel[t][v] \in Seq(Line)
         /\ Len(channel[t][v]) <= capacity[t][v]
         /\ (conn[t][v] \in {"open", "closing"}) = (v \in subscribers[t])
=============================================================================

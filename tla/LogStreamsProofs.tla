-------------------------- MODULE LogStreamsProofs --------------------------
(***************************************************************************)
(* Theorems of LogStreams.                                                 *)
(***************************************************************************)
EXTENDS LogStreams, FiniteSetTheorems, SequenceTheorems, TLAPS

USE HubAssumption, BuildLogAssumption

-----------------------------------------------------------------------------
(* Sequences of lines.                                                     *)

LEMMA LinesType ==
    ASSUME NEW S, NEW s \in Seq(S)
    PROVE  Lines(s) \subseteq S
BY LenProperties DEF Lines

LEMMA LinesOfEmpty == Lines(<<>>) = {}
BY DEF Lines

LEMMA LinesOfAppend ==
    ASSUME NEW S, NEW s \in Seq(S), NEW e \in S
    PROVE  Lines(Append(s, e)) = Lines(s) \union {e}
<1>1. /\ DOMAIN s = 1..Len(s) /\ Len(s) \in Nat
      /\ DOMAIN Append(s, e) = 1..(Len(s) + 1)
      /\ \A i \in 1..(Len(s) + 1) : Append(s, e)[i] = IF i = Len(s) + 1 THEN e ELSE s[i]
  BY LenProperties, AppendProperties
<1>2. Lines(Append(s, e)) \subseteq Lines(s) \union {e}  BY <1>1 DEF Lines
<1>3. e \in Lines(Append(s, e))  BY <1>1 DEF Lines
<1>4. ASSUME NEW i \in 1..Len(s)
      PROVE  s[i] \in Lines(Append(s, e))
  <2>1. i \in 1..(Len(s) + 1) /\ i # Len(s) + 1  BY <1>1
  <2>2. Append(s, e)[i] = s[i]  BY <1>1, <2>1
  <2> QED  BY <1>1, <2>1, <2>2 DEF Lines
<1> QED  BY <1>1, <1>2, <1>3, <1>4 DEF Lines

LEMMA LinesOfTail ==
    ASSUME NEW S, NEW s \in Seq(S), s # <<>>
    PROVE  /\ Head(s) \in S /\ Tail(s) \in Seq(S) /\ Len(Tail(s)) = Len(s) - 1
           /\ Lines(s) = {Head(s)} \union Lines(Tail(s))
<1>1. /\ Head(s) \in S /\ Tail(s) \in Seq(S) /\ Len(Tail(s)) = Len(s) - 1
      /\ Len(s) \in Nat \ {0} /\ Head(s) = s[1]
      /\ \A i \in 1..Len(Tail(s)) : Tail(s)[i] = s[i + 1]
  BY HeadTailProperties, EmptySeq
<1>2. DOMAIN s = 1..Len(s) /\ DOMAIN Tail(s) = 1..(Len(s) - 1)  BY <1>1, LenProperties
<1>3. ASSUME NEW i \in 1..Len(s)
      PROVE  s[i] \in {Head(s)} \union Lines(Tail(s))
  <2>1. CASE i = 1  BY <1>1, <2>1
  <2>2. CASE i # 1
    <3>1. i - 1 \in 1..(Len(s) - 1) /\ (i - 1) + 1 = i  BY <1>1, <2>2
    <3>2. Tail(s)[i - 1] = s[i]  BY <1>1, <3>1
    <3> QED  BY <1>2, <3>1, <3>2 DEF Lines
  <2> QED  BY <2>1, <2>2
<1>4. ASSUME NEW i \in 1..(Len(s) - 1)
      PROVE  Tail(s)[i] \in Lines(s)
  <2>1. i + 1 \in 1..Len(s)  BY <1>1
  <2> QED  BY <1>1, <1>2, <2>1 DEF Lines
<1>5. Head(s) \in Lines(s)
  <2>1. 1 \in 1..Len(s)  BY <1>1
  <2> QED  BY <1>1, <1>2, <2>1 DEF Lines
<1> QED  BY <1>1, <1>2, <1>3, <1>4, <1>5 DEF Lines

LEMMA NewestOf ==
    ASSUME NEW S, NEW s \in Seq(S), NEW k \in Nat \ {0}
    PROVE  Newest(s, k) \in Seq(S) /\ Len(Newest(s, k)) <= k
<1>1. Len(s) \in Nat /\ DOMAIN s = 1..Len(s) /\ \A i \in 1..Len(s) : s[i] \in S
  BY LenProperties
<1>2. CASE Len(s) > k
  <2>1. Newest(s, k) = SubSeq(s, Len(s) - k + 1, Len(s))  BY <1>2 DEF Newest
  <2>2. \A i \in (Len(s) - k + 1)..Len(s) : s[i] \in S  BY <1>1, <1>2
  <2>3. Len(s) - k + 1 \in Int /\ Len(s) \in Int  BY <1>1
  <2>4. /\ SubSeq(s, Len(s) - k + 1, Len(s)) \in Seq(S)
        /\ Len(SubSeq(s, Len(s) - k + 1, Len(s))) =
             IF Len(s) - k + 1 <= Len(s) THEN Len(s) - (Len(s) - k + 1) + 1 ELSE 0
    BY <2>2, <2>3, SubSeqProperties
  <2> QED  BY <1>1, <2>1, <2>4
<1>3. CASE ~(Len(s) > k)  BY <1>1, <1>3 DEF Newest
<1> QED  BY <1>2, <1>3

-----------------------------------------------------------------------------
(* The hub.  A message is a line of a build or an event of a verification. *)

Message == Line \union Event

HubShape ==
    /\ subscribers \in [Topics -> SUBSET Viewers]
    /\ capacity \in [Topics -> [Viewers -> Nat]]
    /\ conn \in [Topics -> [Viewers -> ConnStates]]
    /\ buffer \in [Topics -> Seq(Message)]
    /\ channel \in [Topics -> [Viewers -> Seq(Message)]]
    /\ published \in [Topics -> SUBSET Message]
    /\ forgotten \in [Topics -> SUBSET Message]
    /\ withheld \in [Topics -> [Viewers -> SUBSET Message]]

\* The bounds, and who is subscribed.
Bounded(t) == Len(buffer[t]) <= MaxBuffered
Subscribed(t, v) ==
    /\ Len(channel[t][v]) <= capacity[t][v]
    /\ conn[t][v] \in {"open", "closing"} <=> v \in subscribers[t]

\* What was published is still replayed, or was forgotten.
Replayed(t) == published[t] \subseteq Lines(buffer[t]) \union forgotten[t]

HubOK ==
    /\ HubShape
    /\ \A t \in Topics : Bounded(t) /\ Replayed(t)
    /\ \A t \in Topics, v \in Viewers : Subscribed(t, v)

\* All that passes through topic t is of the set L.
Carries(t, L) ==
    /\ buffer[t] \in Seq(L) /\ published[t] \subseteq L
    /\ \A v \in Viewers : channel[t][v] \in Seq(L)

\* What of the session v has taken out of its channel.
Taken(t, v) == published[t] \ (Lines(channel[t][v]) \union withheld[t][v])

LEMMA PublishHub ==
    ASSUME HubOK, NEW t \in Topics, NEW line \in Message, Publish(t, line)
    PROVE  HubOK'
<1>1. HubShape  BY DEF HubOK
<1>2. buffer[t] \in Seq(Message)  BY <1>1 DEF HubShape
<1>3. /\ Append(buffer[t], line) \in Seq(Message)
      /\ Newest(Append(buffer[t], line), MaxBuffered) \in Seq(Message)
      /\ Len(Newest(Append(buffer[t], line), MaxBuffered)) <= MaxBuffered
  BY <1>2, NewestOf, AppendProperties
<1>4. Lines(Append(buffer[t], line)) = Lines(buffer[t]) \union {line}
  BY <1>2, LinesOfAppend
<1>5. \A s \in Seq(Message) : Append(s, line) \in Seq(Message) /\ Len(Append(s, line)) = Len(s) + 1
  BY AppendProperties
<1>6. Lines(Append(buffer[t], line)) \subseteq Message  BY <1>3, LinesType
<1>7. HubShape'
  <2>1. buffer' \in [Topics -> Seq(Message)]  BY <1>1, <1>3 DEF HubShape, Publish
  <2>2. channel' \in [Topics -> [Viewers -> Seq(Message)]]
    BY <1>1, <1>5 DEF HubShape, Publish
  <2>3. published' \in [Topics -> SUBSET Message]  BY <1>1 DEF HubShape, Publish
  <2>4. forgotten' \in [Topics -> SUBSET Message]  BY <1>1, <1>6 DEF HubShape, Publish
  <2>5. withheld' \in [Topics -> [Viewers -> SUBSET Message]]  BY <1>1 DEF HubShape, Publish
  <2> QED  BY <1>1, <2>1, <2>2, <2>3, <2>4, <2>5 DEF HubShape, Publish
<1>8. ASSUME NEW u \in Topics
      PROVE  Bounded(u)' /\ Replayed(u)'
  <2>1. Bounded(u) /\ Replayed(u)  BY DEF HubOK
  <2>2. CASE u = t
    BY <1>1, <1>3, <1>4, <2>1, <2>2 DEF HubShape, Publish, Bounded, Replayed
  <2>3. CASE u # t
    BY <1>1, <2>1, <2>3 DEF HubShape, Publish, Bounded, Replayed
  <2> QED  BY <2>2, <2>3
<1>9. ASSUME NEW u \in Topics, NEW v \in Viewers
      PROVE  Subscribed(u, v)'
  <2>1. Subscribed(u, v)  BY DEF HubOK
  <2>2. UNCHANGED <<subscribers, capacity, conn>>  BY DEF Publish
  <2>3. Len(channel'[u][v]) <= capacity[u][v]
    <3>1. channel[u][v] \in Seq(Message) /\ capacity[u][v] \in Nat  BY <1>1 DEF HubShape
    <3>2. Len(channel[u][v]) \in Nat  BY <3>1, LenProperties
    <3>3. CASE u = t /\ v \in subscribers[t] /\ HasRoom(t, v)
      <4>1. channel'[u][v] = Append(channel[u][v], line)
        BY <1>1, <3>3 DEF HubShape, Publish
      <4> QED  BY <1>5, <3>1, <3>2, <3>3, <4>1 DEF HasRoom
    <3>4. CASE ~(u = t /\ v \in subscribers[t] /\ HasRoom(t, v))
      <4>1. channel'[u][v] = channel[u][v]  BY <1>1, <3>4 DEF HubShape, Publish
      <4> QED  BY <2>1, <4>1 DEF Subscribed
    <3> QED  BY <3>3, <3>4
  <2> QED  BY <2>1, <2>2, <2>3 DEF Subscribed
<1> QED  BY <1>7, <1>8, <1>9 DEF HubOK

LEMMA PublishCarries ==
    ASSUME HubOK, NEW t \in Topics, NEW line \in Message, Publish(t, line),
           NEW u \in Topics, NEW L, Carries(u, L), u = t => line \in L
    PROVE  Carries(u, L)'
<1>1. HubShape  BY DEF HubOK
<1>2. buffer[u] \in Seq(L) /\ \A v \in Viewers : channel[u][v] \in Seq(L)  BY DEF Carries
<1>3. CASE u = t
  <2>1. \A s \in Seq(L) : Append(s, line) \in Seq(L)  BY <1>3, AppendProperties
  <2>2. Newest(Append(buffer[t], line), MaxBuffered) \in Seq(L)
    BY <1>2, <1>3, <2>1, NewestOf
  <2> QED  BY <1>1, <1>2, <1>3, <2>1, <2>2 DEF HubShape, Publish, Carries
<1>4. CASE u # t
  BY <1>1, <1>4 DEF HubShape, Publish, Carries
<1> QED  BY <1>3, <1>4

\* A subscriber is sent the line, or the hub withholds it.
LEMMA PublishTaken ==
    ASSUME HubOK, NEW t \in Topics, NEW line \in Message, Publish(t, line),
           NEW u \in Topics, NEW v \in Viewers, conn[u][v] = "open"
    PROVE  Taken(u, v)' \subseteq Taken(u, v)
<1>1. HubShape /\ Subscribed(u, v)  BY DEF HubOK
<1>2. v \in subscribers[u]  BY <1>1 DEF Subscribed
<1>3. channel[u][v] \in Seq(Message)  BY <1>1 DEF HubShape
<1>4. Lines(Append(channel[u][v], line)) = Lines(channel[u][v]) \union {line}
  BY <1>3, LinesOfAppend
<1>5. CASE u # t
  BY <1>1, <1>5 DEF HubShape, Publish, Taken
<1>6. CASE u = t /\ HasRoom(t, v)
  <2>1. channel'[u][v] = Append(channel[u][v], line)  BY <1>1, <1>2, <1>6 DEF HubShape, Publish
  <2>2. withheld'[u][v] = withheld[u][v] /\ published'[u] = published[u] \union {line}
    BY <1>1, <1>2, <1>6 DEF HubShape, Publish
  <2> QED  BY <1>4, <2>1, <2>2 DEF Taken
<1>7. CASE u = t /\ ~HasRoom(t, v)
  BY <1>1, <1>2, <1>7 DEF HubShape, Publish, Taken
<1> QED  BY <1>5, <1>6, <1>7

LEMMA SubscribeHub ==
    ASSUME HubOK, NEW t \in Topics, NEW v \in Viewers, Subscribe(t, v)
    PROVE  HubOK'
<1>1. HubShape  BY DEF HubOK
<1>2. buffer[t] \in Seq(Message) /\ Len(buffer[t]) \in Nat
  BY <1>1, LenProperties DEF HubShape
<1>3. Len(buffer[t]) + Headroom \in Nat /\ Len(buffer[t]) <= Len(buffer[t]) + Headroom
  BY <1>2
<1>4. HubShape'
  BY <1>1, <1>2, <1>3 DEF HubShape, Subscribe, ConnStates
<1>5. ASSUME NEW u \in Topics
      PROVE  Bounded(u)' /\ Replayed(u)'
  BY DEF HubOK, Subscribe, Bounded, Replayed
<1>6. ASSUME NEW u \in Topics, NEW w \in Viewers
      PROVE  Subscribed(u, w)'
  <2>1. Subscribed(u, w)  BY DEF HubOK
  <2>2. CASE u = t /\ w = v
    BY <1>1, <1>3, <2>2 DEF HubShape, Subscribe, Subscribed
  <2>3. CASE ~(u = t /\ w = v)
    BY <1>1, <2>1, <2>3 DEF HubShape, Subscribe, Subscribed
  <2> QED  BY <2>2, <2>3
<1> QED  BY <1>4, <1>5, <1>6 DEF HubOK

LEMMA SubscribeCarries ==
    ASSUME HubOK, NEW t \in Topics, NEW v \in Viewers, Subscribe(t, v),
           NEW u \in Topics, NEW L, Carries(u, L)
    PROVE  Carries(u, L)'
BY DEF HubOK, HubShape, Subscribe, Carries

\* A new subscriber is sent the replay; what was forgotten is withheld.
LEMMA SubscribeTaken ==
    ASSUME HubOK, NEW t \in Topics, NEW v \in Viewers, Subscribe(t, v),
           NEW u \in Topics, NEW w \in Viewers
    PROVE  /\ u # t \/ w # v => conn'[u][w] = conn[u][w] /\ Taken(u, w)' = Taken(u, w)
           /\ conn'[t][v] = IF conn[t][v] = "dialling" THEN "open" ELSE "closing"
           /\ Taken(t, v)' = {}
<1>1. HubShape /\ Replayed(t)  BY DEF HubOK
<1>2. u # t \/ w # v => conn'[u][w] = conn[u][w] /\ Taken(u, w)' = Taken(u, w)
  BY <1>1 DEF HubShape, Subscribe, Taken
<1>3. conn'[t][v] = IF conn[t][v] = "dialling" THEN "open" ELSE "closing"
  BY <1>1 DEF HubShape, Subscribe
<1>4. Taken(t, v)' = {}
  BY <1>1 DEF HubShape, Subscribe, Taken, Replayed
<1> QED  BY <1>2, <1>3, <1>4

LEMMA UnsubscribeHub ==
    ASSUME HubOK, NEW t \in Topics, NEW v \in Viewers, Unsubscribe(t, v)
    PROVE  HubOK'
<1>1. HubShape  BY DEF HubOK
<1>2. /\ <<>> \in Seq(Message) /\ Len(<<>>) = 0
      /\ Lines(buffer[t]) \subseteq Message
  BY <1>1, EmptySeq, LinesType DEF HubShape
<1>3. HubShape'
  BY <1>1, <1>2 DEF HubShape, Unsubscribe, ConnStates
<1>4. ASSUME NEW u \in Topics
      PROVE  Bounded(u)' /\ Replayed(u)'
  <2>1. Bounded(u) /\ Replayed(u)  BY DEF HubOK
  <2>2. CASE u = t /\ subscribers[t] = {v}
    BY <1>1, <1>2, <2>1, <2>2 DEF HubShape, Unsubscribe, Bounded, Replayed
  <2>3. CASE ~(u = t /\ subscribers[t] = {v})
    BY <1>1, <2>1, <2>3 DEF HubShape, Unsubscribe, Bounded, Replayed
  <2> QED  BY <2>2, <2>3
<1>5. ASSUME NEW u \in Topics, NEW w \in Viewers
      PROVE  Subscribed(u, w)'
  <2>1. Subscribed(u, w)  BY DEF HubOK
  <2>2. CASE u = t /\ w = v
    <3>1. /\ channel'[u][w] = <<>> /\ capacity'[u][w] = 0 /\ conn'[u][w] = "none"
          /\ subscribers'[u] = subscribers[u] \ {v}
      BY <1>1, <2>2 DEF HubShape, Unsubscribe
    <3> QED  BY <1>2, <2>2, <3>1 DEF Subscribed
  <2>3. CASE ~(u = t /\ w = v)
    BY <1>1, <2>1, <2>3 DEF HubShape, Unsubscribe, Subscribed
  <2> QED  BY <2>2, <2>3
<1> QED  BY <1>3, <1>4, <1>5 DEF HubOK

LEMMA UnsubscribeCarries ==
    ASSUME HubOK, NEW t \in Topics, NEW v \in Viewers, Unsubscribe(t, v),
           NEW u \in Topics, NEW L, Carries(u, L)
    PROVE  Carries(u, L)'
<1>1. HubShape /\ <<>> \in Seq(L)  BY EmptySeq DEF HubOK
<1>2. buffer'[u] \in {buffer[u], <<>>} /\ published' = published
  BY <1>1 DEF HubShape, Unsubscribe
<1>3. \A w \in Viewers : channel'[u][w] \in {channel[u][w], <<>>}
  BY <1>1 DEF HubShape, Unsubscribe
<1> QED  BY <1>1, <1>2, <1>3 DEF Carries

LEMMA UnsubscribeTaken ==
    ASSUME HubOK, NEW t \in Topics, NEW v \in Viewers, Unsubscribe(t, v),
           NEW u \in Topics, NEW w \in Viewers
    PROVE  /\ u # t \/ w # v => conn'[u][w] = conn[u][w] /\ Taken(u, w)' = Taken(u, w)
           /\ conn'[t][v] = "none"
<1>1. HubShape  BY DEF HubOK
<1>2. ASSUME u # t \/ w # v
      PROVE  /\ conn'[u][w] = conn[u][w] /\ channel'[u][w] = channel[u][w]
             /\ withheld'[u][w] = withheld[u][w]
  BY <1>1, <1>2 DEF HubShape, Unsubscribe
<1>3. conn'[t][v] = "none"  BY <1>1 DEF HubShape, Unsubscribe
<1>4. published' = published  BY DEF Unsubscribe
<1> QED  BY <1>2, <1>3, <1>4 DEF Taken

LEMMA ResetHub ==
    ASSUME HubOK, NEW t \in Topics, ResetBuffer(t)
    PROVE  HubOK'
<1>1. HubShape  BY DEF HubOK
<1>2. <<>> \in Seq(Message) /\ Len(<<>>) = 0  BY EmptySeq
<1>3. HubShape'  BY <1>1, <1>2 DEF HubShape, ResetBuffer
<1>4. ASSUME NEW u \in Topics
      PROVE  Bounded(u)' /\ Replayed(u)'
  <2>1. Bounded(u) /\ Replayed(u)  BY DEF HubOK
  <2>2. CASE u = t  BY <1>1, <1>2, <2>2 DEF HubShape, ResetBuffer, Bounded, Replayed
  <2>3. CASE u # t  BY <1>1, <2>1, <2>3 DEF HubShape, ResetBuffer, Bounded, Replayed
  <2> QED  BY <2>2, <2>3
<1>5. ASSUME NEW u \in Topics, NEW w \in Viewers
      PROVE  Subscribed(u, w)'
  BY DEF HubOK, ResetBuffer, Subscribed
<1> QED  BY <1>3, <1>4, <1>5 DEF HubOK

LEMMA ResetCarries ==
    ASSUME HubOK, NEW t \in Topics, ResetBuffer(t),
           NEW u \in Topics, NEW L, Carries(u, L)
    PROVE  Carries(u, L)'
<1>1. <<>> \in Seq(L)  BY EmptySeq
<1> QED  BY <1>1 DEF HubOK, HubShape, ResetBuffer, Carries

(* What viewer r does to the hub on the topics ts: it takes lines and       *)
(* moves its connections; only a handler opens one.                        *)
Reads(ts, r) ==
    /\ UNCHANGED <<subscribers, buffer, capacity, hubHistory>>
    /\ channel' \in [Topics -> [Viewers -> Seq(Message)]]
    /\ conn' \in [Topics -> [Viewers -> ConnStates]]
    /\ \A t \in Topics, v \in Viewers :
         /\ \/ channel'[t][v] = channel[t][v]
            \/ channel[t][v] # <<>> /\ channel'[t][v] = Tail(channel[t][v])
         /\ conn'[t][v] \in {"open", "closing"} <=> conn[t][v] \in {"open", "closing"}
         /\ conn'[t][v] = "open" => conn[t][v] = "open"
         /\ t \notin ts \/ v # r => /\ channel'[t][v] = channel[t][v]
                                    /\ conn'[t][v] = conn[t][v]

LEMMA ReadsHub ==
    ASSUME HubOK, NEW ts, NEW r, Reads(ts, r)
    PROVE  HubOK'
<1>1. HubShape'  BY DEF HubOK, HubShape, Reads, hubHistory
<1>2. ASSUME NEW t \in Topics
      PROVE  Bounded(t)' /\ Replayed(t)'
  BY DEF HubOK, Reads, hubHistory, Bounded, Replayed
<1>3. ASSUME NEW t \in Topics, NEW v \in Viewers
      PROVE  Subscribed(t, v)'
  <2>1. Subscribed(t, v) /\ channel[t][v] \in Seq(Message) /\ capacity[t][v] \in Nat
    BY DEF HubOK, HubShape
  <2>2. Len(channel'[t][v]) <= Len(channel[t][v]) /\ Len(channel'[t][v]) \in Nat
        /\ Len(channel[t][v]) \in Nat
    <3>1. Len(channel[t][v]) \in Nat  BY <2>1, LenProperties
    <3>2. CASE channel'[t][v] = channel[t][v]  BY <3>1, <3>2
    <3>3. CASE channel[t][v] # <<>> /\ channel'[t][v] = Tail(channel[t][v])
      <4>1. Len(channel'[t][v]) = Len(channel[t][v]) - 1 /\ channel'[t][v] \in Seq(Message)
        BY <2>1, <3>3, LinesOfTail
      <4>2. Len(channel'[t][v]) \in Nat  BY <4>1, LenProperties
      <4> QED  BY <3>1, <4>1, <4>2
    <3> QED  BY <3>2, <3>3 DEF Reads
  <2>3. /\ capacity' = capacity /\ subscribers' = subscribers
        /\ conn'[t][v] \in {"open", "closing"} <=> conn[t][v] \in {"open", "closing"}
    BY DEF Reads
  <2> QED  BY <2>1, <2>2, <2>3 DEF Subscribed
<1> QED  BY <1>1, <1>2, <1>3 DEF HubOK

LEMMA ReadsCarries ==
    ASSUME HubOK, NEW ts, NEW r, Reads(ts, r), NEW u \in Topics, NEW L, Carries(u, L)
    PROVE  Carries(u, L)'
<1>1. buffer'[u] \in Seq(L) /\ published'[u] \subseteq L
  BY DEF Reads, hubHistory, Carries
<1>2. ASSUME NEW v \in Viewers
      PROVE  channel'[u][v] \in Seq(L)
  <2>1. channel[u][v] \in Seq(L)  BY DEF Carries
  <2>2. \/ channel'[u][v] = channel[u][v]
        \/ channel[u][v] # <<>> /\ channel'[u][v] = Tail(channel[u][v])
    BY DEF Reads
  <2>3. channel[u][v] # <<>> => Tail(channel[u][v]) \in Seq(L)  BY <2>1, HeadTailProperties
  <2> QED  BY <2>1, <2>2, <2>3
<1> QED  BY <1>1, <1>2 DEF Carries

\* A viewer is in charge of what it takes.
LEMMA ReadsTaken ==
    ASSUME HubOK, NEW ts, NEW r, Reads(ts, r), NEW t \in Topics, NEW v \in Viewers
    PROVE  /\ channel'[t][v] = channel[t][v] => Taken(t, v)' = Taken(t, v)
           /\ channel[t][v] # <<>> /\ channel'[t][v] = Tail(channel[t][v]) =>
                Taken(t, v)' \subseteq Taken(t, v) \union {Head(channel[t][v])}
<1>1. UNCHANGED <<published, withheld>>  BY DEF Reads, hubHistory
<1>2. channel'[t][v] = channel[t][v] => Taken(t, v)' = Taken(t, v)
  BY <1>1 DEF Taken
<1>3. channel[t][v] \in Seq(Message)  BY DEF HubOK, HubShape
<1>4. ASSUME channel[t][v] # <<>>, channel'[t][v] = Tail(channel[t][v])
      PROVE  Taken(t, v)' \subseteq Taken(t, v) \union {Head(channel[t][v])}
  <2>1. Lines(channel[t][v]) = {Head(channel[t][v])} \union Lines(channel'[t][v])
    BY <1>3, <1>4, LinesOfTail
  <2> QED  BY <1>1, <2>1 DEF Taken
<1> QED  BY <1>2, <1>4

\* Doing nothing is reading nothing.
LEMMA StillReads ==
    ASSUME HubOK, UNCHANGED hubVars, NEW ts, NEW r
    PROVE  Reads(ts, r)
<1>1. UNCHANGED <<subscribers, buffer, capacity, hubHistory>> /\ channel' = channel /\ conn' = conn
  BY DEF hubVars, hubHistory
<1>2. HubShape  BY DEF HubOK
<1> QED  BY <1>1, <1>2 DEF HubShape, Reads

(* What a step may do to the hub when all it publishes goes to topics of   *)
(* the set ts.                                                             *)
Moves(ts) ==
    \/ \E r : Reads(ts, r)
    \/ \E t \in ts, v \in Viewers : Subscribe(t, v) \/ Unsubscribe(t, v)
    \/ \E t \in ts : ResetBuffer(t) \/ \E line \in Message : Publish(t, line)

LEMMA MovesHub ==
    ASSUME HubOK, NEW ts \in SUBSET Topics, Moves(ts)
    PROVE  HubOK'
BY ReadsHub, SubscribeHub, UnsubscribeHub, ResetHub, PublishHub DEF Moves

\* The other topics carry what they did.
LEMMA MovesCarries ==
    ASSUME HubOK, NEW ts \in SUBSET Topics, Moves(ts),
           NEW u \in Topics, u \notin ts, NEW L, Carries(u, L)
    PROVE  Carries(u, L)'
BY ReadsCarries, SubscribeCarries, UnsubscribeCarries, ResetCarries, PublishCarries DEF Moves

\* The other topics are not touched.
LEMMA MovesApart ==
    ASSUME HubOK, NEW ts \in SUBSET Topics, Moves(ts),
           NEW u \in Topics, u \notin ts, NEW v \in Viewers
    PROVE  /\ conn'[u][v] = conn[u][v] /\ channel'[u][v] = channel[u][v]
           /\ published'[u] = published[u] /\ withheld'[u][v] = withheld[u][v]
<1>1. HubShape  BY DEF HubOK
<1>2. CASE \E r : Reads(ts, r)
  BY <1>2 DEF Reads, hubHistory
<1>3. ASSUME NEW t \in ts, NEW w \in Viewers, Subscribe(t, w) \/ Unsubscribe(t, w)
      PROVE  /\ conn'[u][v] = conn[u][v] /\ channel'[u][v] = channel[u][v]
             /\ published'[u] = published[u] /\ withheld'[u][v] = withheld[u][v]
  BY <1>1, <1>3 DEF HubShape, Subscribe, Unsubscribe
<1>4. ASSUME NEW t \in ts, ResetBuffer(t) \/ \E line \in Message : Publish(t, line)
      PROVE  /\ conn'[u][v] = conn[u][v] /\ channel'[u][v] = channel[u][v]
             /\ published'[u] = published[u] /\ withheld'[u][v] = withheld[u][v]
  BY <1>1, <1>4 DEF HubShape, ResetBuffer, Publish
<1> QED  BY <1>2, <1>3, <1>4 DEF Moves

-----------------------------------------------------------------------------
(* The build.  Lines are numbered from 1; fail() and "live" add one line   *)
(* to those of docker.                                                     *)

OwnLine(d) == [topic : {d}, n : 1..(ImageLines[d] + 1), text : Nat]

Doing == [pc : {"idle", "read", "numbered", "stored"}, held : Nat, text : Nat]

BuildTypes ==
    /\ logLineNum \in [Deployments -> Nat] /\ emitted \in [Deployments -> Nat]
    /\ writer \in [Deployments -> [Writers -> Doing]]
    /\ rows \in [Deployments -> SUBSET Line]
    /\ phase \in [Deployments -> {"untriggered", "image", "failing", "ended"}]
    /\ status \in [Deployments -> Active \union Terminal]

\* The counter does not run ahead of the lines, and these are bounded.
Counted(d) ==
    /\ logLineNum[d] <= emitted[d] /\ emitted[d] <= ImageLines[d] + 1
    /\ phase[d] \in {"untriggered", "image"} => emitted[d] <= ImageLines[d]
    /\ \A w \in Writers :
         /\ writer[d][w].pc = "read" => writer[d][w].held + 1 <= emitted[d]
         /\ writer[d][w].pc \in {"numbered", "stored"} => logLineNum[d] >= 1

RowsOK(d) == rows[d] \subseteq OwnLine(d) /\ IsFiniteSet(rows[d])

BuildOK == BuildTypes /\ \A d \in Deployments : Counted(d) /\ RowsOK(d)

\* A goroutine begins a line.
LEMMA BeginOK ==
    ASSUME BuildOK, NEW d \in Deployments, NEW w \in Writers, NEW ph,
           writer' = [writer EXCEPT ![d][w] = Begin(d, w)],
           emitted' = [emitted EXCEPT ![d] = @ + 1],
           phase' = [phase EXCEPT ![d] = ph],
           \/ ph = "image" /\ emitted[d] < ImageLines[d]
           \/ phase[d] = "image" /\ ph \in {"failing", "ended"},
           UNCHANGED <<logLineNum, rows>>,
           status' \in [Deployments -> Active \union Terminal]
    PROVE  BuildOK'
<1>1. /\ BuildTypes /\ Counted(d) /\ ImageLines \in [Deployments -> Nat]
      /\ ImageLines[d] \in Nat /\ emitted[d] \in Nat /\ logLineNum[d] \in Nat
  BY DEF BuildOK, BuildTypes
<1>2. Begin(d, w) = [pc |-> "read", held |-> logLineNum[d], text |-> emitted[d] + 1]
  BY DEF Begin, Writing
<1>3. Begin(d, w) \in Doing  BY <1>1, <1>2 DEF Doing
<1>4. BuildTypes'  BY <1>1, <1>3 DEF BuildTypes
<1>5. emitted'[d] = emitted[d] + 1 /\ emitted[d] + 1 <= ImageLines[d] + 1
      /\ (ph = "image" => emitted[d] + 1 <= ImageLines[d]) /\ phase'[d] = ph
      /\ (ph # "image" => ph \in {"failing", "ended"})
  BY <1>1 DEF Counted, BuildTypes
<1>6. ASSUME NEW x \in Writers
      PROVE  /\ writer'[d][x].pc = "read" => writer'[d][x].held + 1 <= emitted[d] + 1
             /\ writer'[d][x].pc \in {"numbered", "stored"} => logLineNum[d] >= 1
  <2>1. CASE x = w
    <3>1. writer'[d][x] = Begin(d, w)  BY <1>1, <2>1 DEF BuildTypes
    <3> QED  BY <1>1, <1>2, <3>1 DEF Counted
  <2>2. CASE x # w
    <3>1. writer'[d][x] = writer[d][x] /\ writer[d][x] \in Doing  BY <1>1, <2>2 DEF BuildTypes
    <3>2. writer[d][x].held \in Nat  BY <3>1 DEF Doing
    <3> QED  BY <1>1, <3>1, <3>2 DEF Counted
  <2> QED  BY <2>1, <2>2
<1>7. Counted(d)'
  <2>1. logLineNum'[d] = logLineNum[d] /\ logLineNum[d] <= emitted[d] + 1
    BY <1>1 DEF Counted
  <2> QED  BY <1>5, <1>6, <2>1 DEF Counted
<1>8. ASSUME NEW e \in Deployments, e # d
      PROVE  Counted(e)'
  <2>1. Counted(e) /\ writer'[e] = writer[e] /\ emitted'[e] = emitted[e] /\ phase'[e] = phase[e]
    BY <1>1, <1>8 DEF BuildOK, BuildTypes
  <2> QED  BY <2>1 DEF Counted
<1>9. \A e \in Deployments : RowsOK(e)'  BY DEF BuildOK, RowsOK
<1> QED  BY <1>4, <1>7, <1>8, <1>9 DEF BuildOK

LEMMA NumberOK ==
    ASSUME BuildOK, NEW d \in Deployments, NEW w \in Writers, Number(d, w)
    PROVE  BuildOK'
<1>1. /\ BuildTypes /\ Counted(d) /\ writer[d][w] \in Doing
      /\ emitted[d] \in Nat /\ logLineNum[d] \in Nat
  BY DEF BuildOK, BuildTypes
<1>2. writer[d][w].held \in Nat /\ writer[d][w].held + 1 <= emitted[d]
  BY <1>1 DEF Number, Doing, Counted
<1>3. [writer[d][w] EXCEPT !.pc = "numbered"] \in Doing  BY <1>1 DEF Doing
<1>4. BuildTypes'  BY <1>1, <1>2, <1>3 DEF BuildTypes, Number
<1>5. logLineNum'[d] = writer[d][w].held + 1  BY <1>1 DEF BuildTypes, Number
<1>6. \A x \in Writers : writer'[d][x].pc = "read" => writer'[d][x] = writer[d][x]
  BY <1>1 DEF BuildTypes, Doing, Number
<1>7. Counted(d)'
  BY <1>1, <1>2, <1>5, <1>6 DEF Counted, Number
<1>8. ASSUME NEW e \in Deployments, e # d
      PROVE  Counted(e)'
  <2>1. Counted(e) /\ writer'[e] = writer[e] /\ logLineNum'[e] = logLineNum[e]
    BY <1>1, <1>8 DEF BuildOK, BuildTypes, Number
  <2> QED  BY <2>1 DEF Counted, Number
<1>9. \A e \in Deployments : RowsOK(e)'  BY DEF BuildOK, RowsOK, Number
<1> QED  BY <1>4, <1>7, <1>8, <1>9 DEF BuildOK

\* A line that is numbered or stored has a number of its build's.
LEMMA LineOwn ==
    ASSUME BuildOK, NEW d \in Deployments, NEW w \in Writers,
           writer[d][w].pc \in {"numbered", "stored"}
    PROVE  [topic |-> d, n |-> logLineNum[d], text |-> writer[d][w].text] \in OwnLine(d)
<1>1. /\ Counted(d) /\ writer[d][w] \in Doing /\ ImageLines[d] \in Nat
      /\ emitted[d] \in Nat /\ logLineNum[d] \in Nat
  BY DEF BuildOK, BuildTypes
<1>2. logLineNum[d] \in 1..(ImageLines[d] + 1)  BY <1>1 DEF Counted
<1>3. writer[d][w].text \in Nat  BY <1>1 DEF Doing
<1> QED  BY <1>2, <1>3 DEF OwnLine

LEMMA OwnLineIsLine ==
    ASSUME NEW d \in Deployments
    PROVE  OwnLine(d) \subseteq Line
<1>1. ImageLines[d] \in Nat  OBVIOUS
<1>2. 1..(ImageLines[d] + 1) \subseteq Nat  BY <1>1
<1> QED  BY <1>2 DEF OwnLine, Line

LEMMA InsertOK ==
    ASSUME BuildOK, NEW d \in Deployments, NEW w \in Writers, InsertLine(d, w)
    PROVE  BuildOK'
<1> DEFINE line == [topic |-> d, n |-> logLineNum[d], text |-> writer[d][w].text]
<1>1. /\ BuildTypes /\ writer[d][w] \in Doing /\ RowsOK(d)
      /\ line \in OwnLine(d) /\ line \in Line
  BY LineOwn, OwnLineIsLine DEF BuildOK, BuildTypes, InsertLine
<1>2. rows' = [rows EXCEPT ![d] = @ \union {line}]  BY DEF InsertLine
<1> HIDE DEF line
<1>3. [writer[d][w] EXCEPT !.pc = "stored"] \in Doing  BY <1>1 DEF Doing
<1>4. BuildTypes'  BY <1>1, <1>2, <1>3 DEF BuildTypes, InsertLine
<1>5. rows'[d] = rows[d] \union {line}  BY <1>1, <1>2 DEF BuildTypes
<1>6. RowsOK(d)'
  <2>0. IsFiniteSet(rows[d])  BY <1>1 DEF RowsOK
  <2>1. IsFiniteSet(rows'[d])  BY <1>5, <2>0, FS_AddElement
  <2> QED  BY <1>1, <1>5, <2>1 DEF RowsOK
<1>7. \A x \in Writers : \/ writer'[d][x] = writer[d][x]
                         \/ writer'[d][x].pc = "stored" /\ writer[d][x].pc = "numbered"
  BY <1>1 DEF BuildTypes, Doing, InsertLine
<1>8. Counted(d)'
  BY <1>7 DEF BuildOK, Counted, InsertLine
<1>9. ASSUME NEW e \in Deployments, e # d
      PROVE  Counted(e)' /\ RowsOK(e)'
  <2>1. Counted(e) /\ RowsOK(e) /\ writer'[e] = writer[e] /\ rows'[e] = rows[e]
    BY <1>1, <1>9 DEF BuildOK, BuildTypes, InsertLine
  <2> QED  BY <2>1 DEF Counted, RowsOK, InsertLine
<1> QED  BY <1>4, <1>6, <1>8, <1>9 DEF BuildOK

LEMMA PublishOK ==
    ASSUME BuildOK, NEW d \in Deployments, NEW w \in Writers, PublishLine(d, w)
    PROVE  BuildOK'
<1>1. BuildTypes /\ Counted(d)  BY DEF BuildOK
<1>2. Idle \in Doing /\ Idle.pc = "idle"  BY DEF Idle, Writing, Doing
<1>3. BuildTypes'  BY <1>1, <1>2 DEF BuildTypes, PublishLine
<1>4. ASSUME NEW e \in Deployments
      PROVE  Counted(e)' /\ RowsOK(e)'
  <2>1. \A x \in Writers : writer'[e][x] = writer[e][x] \/ writer'[e][x].pc = "idle"
    BY <1>1, <1>2 DEF BuildTypes, PublishLine
  <2> QED  BY <2>1 DEF BuildOK, Counted, RowsOK, PublishLine
<1> QED  BY <1>3, <1>4 DEF BuildOK

LEMMA WriteFailedOK ==
    ASSUME BuildOK, NEW d \in Deployments, WriteFailed(d)
    PROVE  BuildOK'
<1>1. BuildTypes  BY DEF BuildOK
<1>2. BuildTypes'  BY <1>1 DEF BuildTypes, WriteFailed, Terminal
<1>3. \A e \in Deployments : phase'[e] = phase[e] \/ phase'[e] = "ended"
  BY <1>1 DEF BuildTypes, WriteFailed
<1>4. \A e \in Deployments : Counted(e)' /\ RowsOK(e)'
  BY <1>3 DEF BuildOK, Counted, RowsOK, WriteFailed
<1> QED  BY <1>2, <1>4 DEF BuildOK

LEMMA PipelineOK ==
    ASSUME BuildOK, NEW d \in Deployments, Pipeline(d)
    PROVE  BuildOK'
<1>0. BuildTypes /\ Main \in Writers  BY DEF BuildOK, Writers
<1>1. ASSUME NEW w \in Writers, ScanLine(d, w)
      PROVE  BuildOK'
  <2>1. /\ phase' = [phase EXCEPT ![d] = "image"]
        /\ status' \in [Deployments -> Active \union Terminal]
    BY <1>0, <1>1 DEF ScanLine, BuildTypes
  <2>2. /\ writer' = [writer EXCEPT ![d][w] = Begin(d, w)]
        /\ emitted' = [emitted EXCEPT ![d] = @ + 1] /\ UNCHANGED <<logLineNum, rows>>
        /\ emitted[d] < ImageLines[d]
    BY <1>1 DEF ScanLine
  <2> QED  BY <2>1, <2>2, BeginOK
<1>2. CASE BuildFails(d)
  BY <1>0, <1>2, BeginOK DEF BuildFails, BuildTypes
<1>3. CASE WriteLive(d)
  <2>1. status' \in [Deployments -> Active \union Terminal]
    BY <1>0, <1>3 DEF WriteLive, BuildTypes, Terminal
  <2> QED  BY <1>0, <1>3, <2>1, BeginOK DEF WriteLive
<1> QED  BY <1>1, <1>2, <1>3, NumberOK, InsertOK, PublishOK, WriteFailedOK DEF Pipeline

-----------------------------------------------------------------------------
(* The greatest number of a finite set, from a least set of greater ones.  *)

LEMMA MaxOf ==
    ASSUME NEW S, S \subseteq Nat, IsFiniteSet(S), S # {}
    PROVE  Max(S) \in S /\ \A y \in S : Max(S) >= y
<1> DEFINE Above(x) == {y \in S : y > x}
           Aboves == {Above(x) : x \in S}
<1>1. \A x \in S : Above(x) \in FiniteSubsetsOf(S)
  BY FS_Subset DEF FiniteSubsetsOf
<1>2. IsWellFoundedOn(StrictSubsetOrdering(S), FiniteSubsetsOf(S))
  BY FS_StrictSubsetOrderingWellFounded
<1>3. Aboves \subseteq FiniteSubsetsOf(S) /\ Aboves # {}
  <2>1. Aboves \subseteq FiniteSubsetsOf(S)  BY <1>1
  <2>2. PICK x \in S : TRUE  OBVIOUS
  <2>3. Above(x) \in Aboves  BY <2>2
  <2> QED  BY <2>1, <2>3
<1>4. PICK U \in Aboves : \A V \in Aboves : ~(<<V, U>> \in StrictSubsetOrdering(S))
  <2> HIDE DEF Aboves
  <2> QED  BY <1>2, <1>3, WFMin
<1>5. \E x \in S : \A z \in S : ~(<<Above(z), Above(x)>> \in StrictSubsetOrdering(S))
  <2>1. PICK x \in S : U = Above(x)  OBVIOUS
  <2>2. \A z \in S : Above(z) \in Aboves  OBVIOUS
  <2> HIDE DEF Above, Aboves
  <2> QED  BY <1>4, <2>1, <2>2
<1>6. PICK x \in S : \A z \in S : ~(<<Above(z), Above(x)>> \in StrictSubsetOrdering(S))
  BY <1>5
<1>7. Above(x) = {}
  <2>1. SUFFICES ASSUME NEW z \in Above(x)  PROVE FALSE
    OBVIOUS
  <2>2. z \in S /\ z \in Nat /\ x \in Nat /\ z > x  OBVIOUS
  <2>3. Above(z) \subseteq Above(x)
    <3>1. ASSUME NEW y \in S, y > z
          PROVE  y > x
      <4>1. y \in Nat /\ z \in Nat /\ x \in Nat  BY <2>2
      <4> QED  BY <2>2, <3>1, <4>1
    <3> QED  BY <3>1
  <2>4. z \notin Above(z)
    <3>1. ~(z > z)  BY <2>2
    <3> QED  BY <3>1
  <2>5. Above(z) \in SUBSET S /\ Above(x) \in SUBSET S  OBVIOUS
  <2>6. <<Above(z), Above(x)>> \in StrictSubsetOrdering(S)
    BY <2>1, <2>3, <2>4, <2>5 DEF StrictSubsetOrdering
  <2> HIDE DEF Above, Aboves
  <2> QED  BY <1>6, <2>2, <2>6
<1>8. \A y \in S : x >= y
  <2>1. \A y \in S : ~(y > x)  BY <1>7
  <2>2. \A y \in S : y \in Nat /\ x \in Nat  OBVIOUS
  <2> HIDE DEF Above, Aboves
  <2> QED  BY <2>1, <2>2
<1> HIDE DEF Above, Aboves
<1> QED  BY <1>8 DEF Max

-----------------------------------------------------------------------------
(* The deployment page.                                                    *)

AnyLine == UNION {OwnLine(d) : d \in Deployments}

\* No two lines of the stream have the same number.
Distinct(s) == \A i, j \in DOMAIN s : s[i].n = s[j].n => i = j

ViewOK(pg) ==
    /\ pg.stream \in Seq(AnyLine) /\ Distinct(pg.stream)
    /\ pg.view = None => pg.stream = <<>>
    /\ \A d \in Deployments : pg.history[d] \subseteq rows[d]

\* A page dials for the deployment it follows alone.
Linked(p) ==
    \A d \in Deployments : conn[d][p] \in {"open", "dialling"} => Following(page[p]) = d

PagesOK ==
    /\ page \in [Pages -> PageType]
    /\ \A p \in Pages : ViewOK(page[p]) /\ Linked(p)

CallOK(call) ==
    /\ call.pc # "idle" => call.d \in Deployments
    /\ \A d \in Deployments : call.d = d => call.history \subseteq rows[d]
    /\ IsFiniteSet(call.history)

CallsOK == tail \in [Tails -> CallType] /\ \A c \in Tails : CallOK(tail[c])

LinesOK == \A d \in Deployments : Carries(d, OwnLine(d))

LogOK == HubOK /\ LinesOK /\ BuildOK /\ PagesOK /\ CallsOK

LEMMA FollowingType ==
    ASSUME NEW pg \in PageType
    PROVE  /\ Following(pg) \in Deployments \union {None}
           /\ Following(pg) # None => pg.view = Following(pg)
BY DEF Following, PageType

\* v hangs up on topic before and dials topic after.
Redialled(v, before, after) ==
    [t \in Topics |-> [conn[t] EXCEPT ![v] =
        IF before # after /\ t = before THEN HungUp(@)
        ELSE IF before # after /\ t = after THEN "dialling" ELSE @]]

\* Moving connections is reading, as long as no dialled one is dialled again.
LEMMA RedialReads ==
    ASSUME HubOK, NEW v \in Viewers, NEW before, NEW after, NEW ts,
           before \in Topics => before \in ts, after \in Topics => after \in ts,
           (after \in Topics /\ before # after) => conn[after][v] = "none",
           conn' = Redialled(v, before, after),
           UNCHANGED <<subscribers, buffer, channel, capacity, hubHistory>>
    PROVE  /\ Reads(ts, v)
           /\ \A t \in Topics, w \in Viewers :
                /\ w # v => conn'[t][w] = conn[t][w]
                /\ conn'[t][v] = IF before # after /\ t = before THEN HungUp(conn[t][v])
                                 ELSE IF before # after /\ t = after THEN "dialling"
                                 ELSE conn[t][v]
<1>1. HubShape  BY DEF HubOK
<1>2. \A t \in Topics : conn[t] \in [Viewers -> ConnStates]  BY <1>1 DEF HubShape
<1>3. \A t \in Topics, w \in Viewers :
        /\ w # v => conn'[t][w] = conn[t][w]
        /\ conn'[t][v] = IF before # after /\ t = before THEN HungUp(conn[t][v])
                         ELSE IF before # after /\ t = after THEN "dialling"
                         ELSE conn[t][v]
  BY <1>2 DEF Redialled
<1>4. \A c \in ConnStates : HungUp(c) \in ConnStates
        /\ (HungUp(c) \in {"open", "closing"} <=> c \in {"open", "closing"})
        /\ HungUp(c) # "open"
  BY DEF HungUp, ConnStates
<1>5. conn' \in [Topics -> [Viewers -> ConnStates]]
  BY <1>2, <1>4 DEF ConnStates, Redialled
<1>6. \A t \in Topics, w \in Viewers :
        /\ conn'[t][w] \in {"open", "closing"} <=> conn[t][w] \in {"open", "closing"}
        /\ conn'[t][w] = "open" => conn[t][w] = "open"
        /\ t \notin ts \/ w # v => conn'[t][w] = conn[t][w]
  BY <1>2, <1>3, <1>4
<1>7. channel' \in [Topics -> [Viewers -> Seq(Message)]] /\ channel' = channel
  BY <1>1 DEF HubShape
<1> QED  BY <1>3, <1>5, <1>6, <1>7 DEF Reads

LEMMA RenderReads ==
    ASSUME HubOK, PagesOK, NEW p \in Pages, NEW pg \in PageType, Render(p, pg), StreamsAssumption
    PROVE  /\ Reads(Deployments, p) /\ channel' = channel
           /\ \A t \in Topics, w \in Viewers : w # p => conn'[t][w] = conn[t][w]
           /\ \A d \in Deployments :
                conn'[d][p] \in {"open", "dialling"} =>
                  /\ Following(pg) = d
                  /\ Following(page[p]) # d => conn'[d][p] = "dialling"
                  /\ Following(page[p]) = d => conn'[d][p] = conn[d][p]
<1> DEFINE before == Following(page[p])
           after == Following(pg)
<1>1. page[p] \in PageType /\ p \in Viewers  BY DEF PagesOK
<1>2. before \in Deployments \union {None} /\ after \in Deployments \union {None}
  BY <1>1, FollowingType
<1>3. None \notin Topics /\ Deployments \subseteq Topics  BY DEF StreamsAssumption
<1>4. HubShape  BY DEF HubOK
<1>5. conn' = Redialled(p, before, after)
  <2>1. CASE before = after
    <3>1. conn' = conn  BY <2>1 DEF Render
    <3>2. conn = [t \in Topics |-> [conn[t] EXCEPT ![p] = @]]
      BY <1>1, <1>4 DEF HubShape
    <3> QED  BY <2>1, <3>1, <3>2 DEF Redialled
  <2>2. CASE before # after
    BY <2>2 DEF Render, Redialled
  <2> QED  BY <2>1, <2>2
<1>6. (after \in Topics /\ before # after) => conn[after][p] = "none"
  BY <1>2, <1>3 DEF Render
<1>7. UNCHANGED <<subscribers, buffer, channel, capacity, hubHistory>>
  BY DEF Render
<1> HIDE DEF before, after
<1>8. /\ Reads(Deployments, p)
      /\ \A t \in Topics, w \in Viewers :
           /\ w # p => conn'[t][w] = conn[t][w]
           /\ conn'[t][p] = IF before # after /\ t = before THEN HungUp(conn[t][p])
                            ELSE IF before # after /\ t = after THEN "dialling"
                            ELSE conn[t][p]
  <2>1. /\ before \in Topics => before \in Deployments
        /\ after \in Topics => after \in Deployments
    BY <1>2, <1>3 DEF before, after
  <2> QED  BY <1>1, <1>5, <1>6, <1>7, <2>1, RedialReads
<1>9. ASSUME NEW d \in Deployments, conn'[d][p] \in {"open", "dialling"}
      PROVE  after = d /\ (before # d => conn'[d][p] = "dialling")
               /\ (before = d => conn'[d][p] = conn[d][p])
  <2>1. conn[d][p] \in {"open", "dialling"} => before = d
    BY DEF PagesOK, Linked, before
  <2>2. HungUp(conn[d][p]) \notin {"open", "dialling"}
    <3>1. conn[d][p] \in ConnStates  BY <1>1, <1>3, <1>4 DEF HubShape
    <3> QED  BY <3>1 DEF HungUp, ConnStates
  <2>3. conn'[d][p] = IF before # after /\ d = before THEN HungUp(conn[d][p])
                      ELSE IF before # after /\ d = after THEN "dialling" ELSE conn[d][p]
    BY <1>3, <1>8, <1>1
  <2> QED  BY <1>9, <2>1, <2>2, <2>3
<1> QED  BY <1>7, <1>8, <1>9 DEF before, after

LEMMA NewestDistinct ==
    ASSUME NEW S, NEW s \in Seq(S), NEW k \in Nat \ {0}, Distinct(s)
    PROVE  Distinct(Newest(s, k))
<1>1. Len(s) \in Nat /\ DOMAIN s = 1..Len(s) /\ \A i \in 1..Len(s) : s[i] \in S
  BY LenProperties
<1>2. CASE Len(s) > k
  <2> DEFINE m == Len(s) - k + 1
             z == SubSeq(s, m, Len(s))
  <2>1. m \in Int /\ m >= 1 /\ Len(s) - m + 1 = k /\ m <= Len(s)  BY <1>1, <1>2
  <2>2. \A i \in m..Len(s) : s[i] \in S  BY <1>1, <2>1
  <2> HIDE DEF m
  <2>3. /\ z \in Seq(S) /\ Len(z) = k
        /\ \A i \in 1..k : z[i] = s[m + i - 1]
    BY <1>1, <2>1, <2>2, SubSeqProperties
  <2>4. DOMAIN z = 1..k  BY <2>3, LenProperties
  <2>5. \A i \in 1..k : m + i - 1 \in 1..Len(s)  BY <1>1, <2>1
  <2>6. \A i, j \in 1..k : m + i - 1 = m + j - 1 => i = j  BY <2>1
  <2>7. Newest(s, k) = z  BY <1>2 DEF Newest, m
  <2> HIDE DEF z
  <2>8. ASSUME NEW i \in 1..k, NEW j \in 1..k, z[i].n = z[j].n
        PROVE  i = j
    <3>1. s[m + i - 1].n = s[m + j - 1].n  BY <2>3, <2>8
    <3>2. m + i - 1 = m + j - 1  BY <1>1, <2>5, <3>1 DEF Distinct
    <3> QED  BY <2>6, <3>2
  <2> QED  BY <2>4, <2>7, <2>8 DEF Distinct
<1>3. CASE ~(Len(s) > k)  BY <1>3 DEF Newest
<1> QED  BY <1>2, <1>3

LEMMA AppendDistinct ==
    ASSUME NEW S, NEW s \in Seq(S), NEW e \in S, Distinct(s), e.n \notin Numbers(Lines(s))
    PROVE  Distinct(Append(s, e))
<1>1. /\ DOMAIN s = 1..Len(s) /\ Len(s) \in Nat
      /\ DOMAIN Append(s, e) = 1..(Len(s) + 1)
      /\ \A i \in 1..(Len(s) + 1) : Append(s, e)[i] = IF i = Len(s) + 1 THEN e ELSE s[i]
  BY LenProperties, AppendProperties
<1>2. \A i \in 1..Len(s) : s[i].n # e.n  BY <1>1 DEF Numbers, Lines
<1>3. ASSUME NEW i \in 1..(Len(s) + 1), NEW j \in 1..(Len(s) + 1),
             Append(s, e)[i].n = Append(s, e)[j].n
      PROVE  i = j
  <2>1. \A h \in 1..(Len(s) + 1) : h # Len(s) + 1 => h \in 1..Len(s) /\ Append(s, e)[h] = s[h]
    BY <1>1
  <2>2. Append(s, e)[Len(s) + 1] = e  BY <1>1
  <2>3. \A g, h \in 1..Len(s) : s[g].n = s[h].n => g = h  BY <1>1 DEF Distinct
  <2> QED  BY <1>2, <1>3, <2>1, <2>2, <2>3
<1> QED  BY <1>1, <1>3 DEF Distinct

LEMMA CollectOK ==
    ASSUME NEW s \in Seq(AnyLine), Distinct(s), NEW line \in AnyLine
    PROVE  Collect(s, line) \in Seq(AnyLine) /\ Distinct(Collect(s, line))
<1>1. CASE line.n \in Numbers(Lines(s))  BY <1>1 DEF Collect
<1>2. CASE line.n \notin Numbers(Lines(s))
  <2>1. Append(s, line) \in Seq(AnyLine) /\ Distinct(Append(s, line))
    BY <1>2, AppendProperties, AppendDistinct
  <2>2. Newest(Append(s, line), PageCap) \in Seq(AnyLine)
        /\ Distinct(Newest(Append(s, line), PageCap))
    BY <2>1, NewestOf, NewestDistinct
  <2> QED  BY <1>2, <2>2 DEF Collect
<1> QED  BY <1>1, <1>2

\* What a build has written is not touched by those who read it.
LEMMA BuildKept ==
    ASSUME BuildOK, UNCHANGED <<logLineNum, writer, emitted, rows, status>>,
           \/ phase' = phase
           \/ \E d \in Deployments :
                phase[d] = "untriggered" /\ phase' = [phase EXCEPT ![d] = "image"]
    PROVE  BuildOK'
<1>1. BuildTypes  BY DEF BuildOK
<1>2. BuildTypes'  BY <1>1 DEF BuildTypes
<1>3. \A d \in Deployments :
        phase'[d] = phase[d] \/ (phase[d] = "untriggered" /\ phase'[d] = "image")
  BY <1>1 DEF BuildTypes
<1>4. \A d \in Deployments : Counted(d)' /\ RowsOK(d)'
  BY <1>3 DEF BuildOK, Counted, RowsOK
<1> QED  BY <1>2, <1>4 DEF BuildOK

LEMMA LinesRead ==
    ASSUME HubOK, LinesOK, NEW ts, NEW r, Reads(ts, r)
    PROVE  LinesOK'
<1>1. \A d \in Deployments : d \in Topics  OBVIOUS
<1> QED  BY <1>1, ReadsCarries DEF LinesOK

LEMMA CallsKept ==
    ASSUME CallsOK, UNCHANGED <<tail, rows>>
    PROVE  CallsOK'
BY DEF CallsOK, CallOK

LEMMA RenderOK ==
    ASSUME LogOK, StreamsAssumption, NEW p \in Pages, NEW pg \in PageType, ViewOK(pg),
           Render(p, pg)
    PROVE  HubOK' /\ LinesOK' /\ PagesOK' /\ CallsOK' /\ Reads(Deployments, p)
<1>1. /\ Reads(Deployments, p)
      /\ \A t \in Topics, w \in Viewers : w # p => conn'[t][w] = conn[t][w]
      /\ \A d \in Deployments : conn'[d][p] \in {"open", "dialling"} => Following(pg) = d
  BY RenderReads DEF LogOK
<1>2. HubOK' /\ LinesOK'  BY <1>1, ReadsHub, LinesRead DEF LogOK
<1>3. rows' = rows /\ tail' = tail /\ page' = [page EXCEPT ![p] = pg]  BY DEF Render
<1>4. CallsOK'  BY <1>3, CallsKept DEF LogOK
<1>5. page \in [Pages -> PageType]  BY DEF LogOK, PagesOK
<1>6. page' \in [Pages -> PageType]  BY <1>3, <1>5
<1>7. ASSUME NEW q \in Pages
      PROVE  ViewOK(page[q])' /\ Linked(q)'
  <2>1. ViewOK(page[q]) /\ Linked(q)  BY DEF LogOK, PagesOK
  <2>2. CASE q = p
    <3>1. page'[q] = pg  BY <1>3, <1>5, <2>2
    <3> QED  BY <1>1, <1>3, <2>2, <3>1 DEF ViewOK, Linked
  <2>3. CASE q # p
    <3>1. page'[q] = page[q]  BY <1>3, <1>5, <2>3
    <3>2. \A d \in Deployments : conn'[d][q] = conn[d][q]  BY <1>1, <2>3
    <3> QED  BY <1>3, <2>1, <3>1, <3>2 DEF ViewOK, Linked
  <2> QED  BY <2>2, <2>3
<1> QED  BY <1>1, <1>2, <1>4, <1>6, <1>7 DEF PagesOK

LEMMA PageReceivesOK ==
    ASSUME LogOK, StreamsAssumption, NEW p \in Pages, NEW d \in Deployments, PageReceives(p, d)
    PROVE  HubOK' /\ LinesOK' /\ PagesOK' /\ CallsOK' /\ Reads(Deployments, p)
<1> DEFINE line == Head(channel[d][p])
<1>1. HubShape /\ p \in Viewers /\ d \in Topics  BY DEF LogOK, HubOK
<1>2. page \in [Pages -> PageType] /\ page[p] \in PageType /\ ViewOK(page[p]) /\ Linked(p)
  BY DEF LogOK, PagesOK
<1>3. channel[d][p] # <<>> /\ channel[d][p] \in Seq(OwnLine(d))
  BY <1>1 DEF LogOK, LinesOK, Carries, PageReceives
<1>4. line \in AnyLine  BY <1>3, LinesOfTail DEF AnyLine
<1>5. Reads(Deployments, p)
  <2>1. Tail(channel[d][p]) \in Seq(Message)
    BY <1>1, <1>3, LinesOfTail DEF HubShape
  <2>2. channel' = [channel EXCEPT ![d][p] = Tail(@)]  BY DEF PageReceives
  <2> QED  BY <1>1, <1>3, <2>1, <2>2 DEF HubShape, Reads, PageReceives
<1>6. HubOK' /\ LinesOK'  BY <1>5, ReadsHub, LinesRead DEF LogOK
<1>7. tail' = tail /\ rows' = rows /\ conn' = conn  BY DEF PageReceives
<1>8. CallsOK'  BY <1>7, CallsKept DEF LogOK
<1> DEFINE pg == [page[p] EXCEPT !.stream = Collect(@, line)]
<1>9. page' = [page EXCEPT ![p] = pg]  BY DEF PageReceives
<1> HIDE DEF line
<1>10. /\ Collect(page[p].stream, line) \in Seq(AnyLine)
       /\ Distinct(Collect(page[p].stream, line))
  BY <1>2, <1>4, CollectOK DEF ViewOK
<1>11. AnyLine \subseteq Line  BY OwnLineIsLine DEF AnyLine
<1>12. Collect(page[p].stream, line) \in Seq(Line)  BY <1>10, <1>11, SeqMonotonic
<1>13. /\ pg \in PageType /\ pg.stream = Collect(page[p].stream, line)
       /\ pg.view = page[p].view /\ pg.cached = page[p].cached /\ pg.history = page[p].history
  BY <1>2, <1>12 DEF PageType
<1> HIDE DEF pg
<1>14. page[p].view # None
  <2>1. conn[d][p] = "open"  BY DEF PageReceives
  <2>2. Following(page[p]) = d /\ d # None  BY <1>2, <2>1 DEF Linked, StreamsAssumption
  <2> QED  BY <2>2 DEF Following
<1>15. ViewOK(pg) /\ Following(pg) = Following(page[p])
  BY <1>2, <1>10, <1>13, <1>14 DEF ViewOK, Following
<1>16. page' \in [Pages -> PageType]  BY <1>2, <1>9, <1>13
<1>17. ASSUME NEW q \in Pages
       PROVE  ViewOK(page[q])' /\ Linked(q)'
  <2>1. ViewOK(page[q]) /\ Linked(q)  BY DEF LogOK, PagesOK
  <2>2. CASE q = p
    <3>1. page'[q] = pg  BY <1>2, <1>9, <2>2
    <3> QED  BY <1>7, <1>15, <2>1, <2>2, <3>1 DEF ViewOK, Linked
  <2>3. CASE q # p
    <3>1. page'[q] = page[q]  BY <1>2, <1>9, <2>3
    <3> QED  BY <1>7, <2>1, <3>1 DEF ViewOK, Linked
  <2> QED  BY <2>2, <2>3
<1> QED  BY <1>5, <1>6, <1>8, <1>16, <1>17 DEF PagesOK

\* Every step of a page.
LEMMA ViewingOK ==
    ASSUME LogOK, StreamsAssumption, NEW p \in Pages, Viewing(p)
    PROVE  LogOK' /\ Reads(Deployments, p)
<1> DEFINE Shows == HubOK' /\ LinesOK' /\ PagesOK' /\ CallsOK' /\ Reads(Deployments, p)
<1>1. /\ page[p] \in PageType /\ ViewOK(page[p]) /\ BuildOK /\ BuildTypes
      /\ None \notin Deployments
  BY DEF LogOK, PagesOK, BuildOK, StreamsAssumption
<1>2. ASSUME NEW d \in Deployments, Render(p, [page[p] EXCEPT !.view = d])
      PROVE  Shows
  <2>1. [page[p] EXCEPT !.view = d] \in PageType  BY <1>1 DEF PageType
  <2>2. ViewOK([page[p] EXCEPT !.view = d])  BY <1>1 DEF PageType, ViewOK
  <2> QED  BY <1>2, <2>1, <2>2, RenderOK
<1>3. CASE LeavePage(p)
  <2>1. [page[p] EXCEPT !.view = None, !.stream = <<>>] \in PageType
    BY <1>1, EmptySeq DEF PageType
  <2>2. <<>> \in Seq(AnyLine) /\ Distinct(<<>>)  BY EmptySeq DEF Distinct
  <2>3. ViewOK([page[p] EXCEPT !.view = None, !.stream = <<>>])
    BY <1>1, <2>2 DEF PageType, ViewOK
  <2>4. Shows  BY <1>3, <2>1, <2>3, RenderOK DEF LeavePage
  <2>5. BuildOK'  BY <1>1, <1>3, BuildKept DEF LeavePage, Render
  <2> QED  BY <2>4, <2>5 DEF LogOK
<1>4. CASE FetchDeployment(p)
  <2> DEFINE pg == [page[p] EXCEPT !.cached[Shown(p)] = status[Shown(p)]]
  <2>1. Shown(p) \in Deployments /\ status[Shown(p)] \in Active \union Terminal
    BY <1>1, <1>4 DEF FetchDeployment, Shown, PageType, BuildTypes
  <2>2. pg \in PageType  BY <1>1, <2>1 DEF PageType
  <2>3. ViewOK(pg)  BY <1>1 DEF PageType, ViewOK
  <2>4. Render(p, pg)  BY <1>4 DEF FetchDeployment
  <2> HIDE DEF pg
  <2>5. Shows  BY <2>2, <2>3, <2>4, RenderOK
  <2>6. BuildOK'  BY <1>1, <1>4, BuildKept DEF FetchDeployment, Render
  <2> QED  BY <2>5, <2>6 DEF LogOK
<1>5. CASE FetchHistory(p)
  <2> DEFINE pg == [page[p] EXCEPT !.history[Shown(p)] = rows[Shown(p)],
                                   !.fetched = @ \union {Shown(p)}]
  <2>1. Shown(p) \in Deployments /\ rows[Shown(p)] \in SUBSET Line
    BY <1>1, <1>5 DEF FetchHistory, Shown, PageType, BuildTypes
  <2>2. pg \in PageType  BY <1>1, <2>1 DEF PageType
  <2>3. ViewOK(pg)
    <3>1. pg.stream = page[p].stream /\ pg.view = page[p].view  BY <1>1 DEF PageType
    <3>2. pg.history = [page[p].history EXCEPT ![Shown(p)] = rows[Shown(p)]]
          /\ page[p].history \in [Deployments -> SUBSET Line]
      BY <1>1 DEF PageType
    <3>3. \A d \in Deployments : pg.history[d] \subseteq rows[d]
      BY <1>1, <2>1, <3>2 DEF ViewOK
    <3> HIDE DEF pg
    <3> QED  BY <1>1, <3>1, <3>3 DEF ViewOK
  <2>4. Render(p, pg)  BY <1>5 DEF FetchHistory
  <2> HIDE DEF pg
  <2>5. Shows  BY <2>2, <2>3, <2>4, RenderOK
  <2>6. BuildOK'  BY <1>1, <1>5, BuildKept DEF FetchHistory, Render
  <2> QED  BY <2>5, <2>6 DEF LogOK
<1>6. ASSUME NEW d \in Deployments, OpenPage(p, d)
      PROVE  LogOK' /\ Reads(Deployments, p)
  <2>1. Shows  BY <1>2, <1>6 DEF OpenPage
  <2>2. BuildOK'  BY <1>1, <1>6, BuildKept DEF OpenPage, Render
  <2> QED  BY <2>1, <2>2 DEF LogOK
<1>7. ASSUME NEW d \in Deployments, DeployAndShow(p, d)
      PROVE  LogOK' /\ Reads(Deployments, p)
  <2>1. Shows  BY <1>2, <1>7 DEF DeployAndShow
  <2>2. BuildOK'  BY <1>1, <1>7, BuildKept DEF DeployAndShow, Render
  <2> QED  BY <2>1, <2>2 DEF LogOK
<1>8. ASSUME NEW d \in Deployments, PageReceives(p, d)
      PROVE  LogOK' /\ Reads(Deployments, p)
  <2>1. Shows  BY <1>8, PageReceivesOK
  <2>2. BuildOK'  BY <1>1, <1>8, BuildKept DEF PageReceives
  <2> QED  BY <2>1, <2>2 DEF LogOK
<1> QED  BY <1>3, <1>4, <1>5, <1>6, <1>7, <1>8 DEF Viewing

-----------------------------------------------------------------------------
(* The log tools.                                                          *)

LEMMA HighestOf ==
    ASSUME NEW got \in SUBSET Line, IsFiniteSet(got)
    PROVE  /\ Max({0} \union Numbers(got)) \in Nat
           /\ Max({0} \union Numbers(got)) \in {0} \union Numbers(got)
           /\ \A n \in Numbers(got) : n <= Max({0} \union Numbers(got))
<1> DEFINE f == [l \in got |-> l.n]
           S == {0} \union Numbers(got)
<1>1. Numbers(got) \subseteq Nat  BY DEF Numbers, Line
<1>2. f \in Surjection(got, Numbers(got))  BY DEF Surjection, Numbers
<1>3. IsFiniteSet(Numbers(got))  BY <1>2, FS_Surjection
<1>4. IsFiniteSet(S)
  <2>1. S = Numbers(got) \union {0}  OBVIOUS
  <2> QED  BY <1>3, <2>1, FS_AddElement
<1>5. S \subseteq Nat /\ S # {}  BY <1>1
<1> HIDE DEF S
<1>6. Max(S) \in S /\ \A n \in S : Max(S) >= n  BY <1>4, <1>5, MaxOf
<1>7. \A n \in S : n \in Nat /\ Max(S) \in Nat  BY <1>5, <1>6
<1>8. \A n \in S : n <= Max(S)  BY <1>6, <1>7
<1> QED  BY <1>6, <1>7, <1>8 DEF S

Moved(t, v, x) == [conn EXCEPT ![t][v] = x]
Takes(t, v) == channel[t][v] # <<>> /\ channel' = [channel EXCEPT ![t][v] = Tail(@)]

\* One connection is moved without being opened or ended.
LEMMA MovedReads ==
    ASSUME HubOK, NEW ts, NEW t \in Topics, t \in ts, NEW v \in Viewers, NEW x \in ConnStates,
           conn' = Moved(t, v, x), x = "open" => conn[t][v] = "open",
           x \in {"open", "closing"} <=> conn[t][v] \in {"open", "closing"},
           UNCHANGED <<subscribers, buffer, capacity, hubHistory>>,
           \/ channel' = channel
           \/ Takes(t, v)
    PROVE  /\ Reads(ts, v)
           /\ \A u \in Topics, w \in Viewers : conn'[u][w] =
                IF u = t /\ w = v THEN x ELSE conn[u][w]
<1>1. HubShape  BY DEF HubOK
<1>2. \A u \in Topics, w \in Viewers : conn'[u][w] = IF u = t /\ w = v THEN x ELSE conn[u][w]
  BY <1>1 DEF HubShape, Moved
<1>3. conn' \in [Topics -> [Viewers -> ConnStates]]  BY <1>1 DEF HubShape, Moved
<1>4. channel \in [Topics -> [Viewers -> Seq(Message)]]  BY <1>1 DEF HubShape
<1>5. /\ channel' \in [Topics -> [Viewers -> Seq(Message)]]
      /\ \A u \in Topics, w \in Viewers :
           /\ \/ channel'[u][w] = channel[u][w]
              \/ channel[u][w] # <<>> /\ channel'[u][w] = Tail(channel[u][w])
           /\ u \notin ts \/ w # v => channel'[u][w] = channel[u][w]
  <2>1. CASE channel' = channel  BY <1>4, <2>1
  <2>2. CASE Takes(t, v)
    <3>0. channel[t][v] # <<>> /\ channel' = [channel EXCEPT ![t][v] = Tail(@)]
      BY <2>2 DEF Takes
    <3>1. Tail(channel[t][v]) \in Seq(Message)  BY <1>4, <3>0, LinesOfTail
    <3>2. \A u \in Topics, w \in Viewers : channel'[u][w] =
            IF u = t /\ w = v THEN Tail(channel[t][v]) ELSE channel[u][w]
      BY <1>4, <3>0
    <3>3. channel' \in [Topics -> [Viewers -> Seq(Message)]]  BY <1>4, <3>0, <3>1
    <3> QED  BY <3>0, <3>2, <3>3
  <2> QED  BY <2>1, <2>2
<1>6. \A u \in Topics, w \in Viewers :
        /\ conn'[u][w] \in {"open", "closing"} <=> conn[u][w] \in {"open", "closing"}
        /\ conn'[u][w] = "open" => conn[u][w] = "open"
        /\ u \notin ts \/ w # v => conn'[u][w] = conn[u][w]
  BY <1>2
<1> QED  BY <1>2, <1>3, <1>5, <1>6 DEF Reads

LEMMA HungUpState ==
    ASSUME NEW c \in ConnStates
    PROVE  /\ HungUp(c) \in ConnStates /\ HungUp(c) \notin {"open", "dialling"}
           /\ HungUp(c) \in {"open", "closing"} <=> c \in {"open", "closing"}
BY DEF HungUp, ConnStates

\* A step of a call: the call changes, and at most its own connection.
CallStep(c, call) ==
    /\ call \in CallType /\ CallOK(call)
    /\ tail' = [tail EXCEPT ![c] = call]
    /\ UnchangedByTail
    /\ UNCHANGED hubVars \/ Reads(Deployments, c)

LEMMA CallStepOK ==
    ASSUME LogOK, StreamsAssumption, NEW c \in Tails, NEW call, CallStep(c, call)
    PROVE  LogOK' /\ Reads(Deployments, c)
<1>1. /\ UNCHANGED <<logLineNum, writer, emitted, rows, phase, status, page>>
      /\ call \in CallType /\ CallOK(call) /\ tail' = [tail EXCEPT ![c] = call]
  BY DEF CallStep, UnchangedByTail
<1>2. BuildOK'  BY <1>1, BuildKept DEF LogOK
<1>3. HubOK' /\ LinesOK' /\ \A t \in Topics, v \in Viewers : v # c => conn'[t][v] = conn[t][v]
  <2>1. CASE UNCHANGED hubVars
    <3>1. /\ UNCHANGED <<subscribers, buffer, channel, capacity, conn>>
          /\ UNCHANGED <<published, forgotten, withheld>>
      BY <2>1 DEF hubVars
    <3>2. HubOK'  BY <3>1 DEF LogOK, HubOK, HubShape, Bounded, Replayed, Subscribed
    <3>3. LinesOK'  BY <3>1 DEF LogOK, LinesOK, Carries
    <3> QED  BY <3>1, <3>2, <3>3
  <2>2. CASE Reads(Deployments, c)
    <3>1. \A t \in Topics, v \in Viewers : v # c => conn'[t][v] = conn[t][v]
      BY <2>2 DEF Reads
    <3> QED  BY <2>2, <3>1, ReadsHub, LinesRead DEF LogOK
  <2> QED  BY <2>1, <2>2 DEF CallStep
<1>4. ASSUME NEW p \in Pages
      PROVE  ViewOK(page[p])' /\ Linked(p)'
  <2>1. p # c /\ p \in Viewers  BY DEF StreamsAssumption
  <2>2. \A d \in Deployments : conn'[d][p] = conn[d][p]  BY <1>3, <2>1
  <2>3. ViewOK(page[p]) /\ Linked(p)  BY DEF LogOK, PagesOK
  <2> QED  BY <1>1, <2>2, <2>3 DEF ViewOK, Linked
<1>5. PagesOK'  BY <1>1, <1>4 DEF LogOK, PagesOK
<1>6. tail \in [Tails -> CallType] /\ \A b \in Tails : CallOK(tail[b])  BY DEF LogOK, CallsOK
<1>7. tail' \in [Tails -> CallType]  BY <1>1, <1>6
<1>8. ASSUME NEW b \in Tails
      PROVE  CallOK(tail[b])'
  <2>1. tail'[b] = IF b = c THEN call ELSE tail[b]  BY <1>1, <1>6
  <2> QED  BY <1>1, <1>6, <2>1 DEF CallOK
<1>9. Reads(Deployments, c)  BY StillReads DEF CallStep, LogOK
<1> QED  BY <1>2, <1>3, <1>5, <1>7, <1>8, <1>9 DEF LogOK, CallsOK

Said == {"unknown"} \union Active \union Terminal

LEMMA AskStep ==
    ASSUME NEW c \in Tails, NEW call \in CallType, CallOK(call), Ask(c, call)
    PROVE  CallStep(c, call)
BY DEF CallStep, Ask

LEMMA CallFacts ==
    ASSUME LogOK, NEW c \in Tails
    PROVE  /\ tail[c] \in CallType /\ CallOK(tail[c]) /\ c \in Viewers
           /\ tail[c].d \in Deployments \union {None} /\ tail[c].history \in SUBSET Line
           /\ \A d \in Deployments :
                /\ d \in Topics /\ status[d] \in Active \union Terminal
                /\ rows[d] \in SUBSET Line /\ IsFiniteSet(rows[d])
                /\ conn[d][c] \in ConnStates
<1>1. tail[c] \in CallType /\ CallOK(tail[c])  BY DEF LogOK, CallsOK
<1>2. tail[c].d \in Deployments \union {None} /\ tail[c].history \in SUBSET Line
  BY <1>1 DEF CallType
<1>3. \A d \in Deployments : status[d] \in Active \union Terminal /\ rows[d] \in SUBSET Line
  BY DEF LogOK, BuildOK, BuildTypes
<1>4. \A d \in Deployments : IsFiniteSet(rows[d])  BY DEF LogOK, BuildOK, RowsOK
<1>5. \A d \in Deployments : conn[d][c] \in ConnStates  BY DEF LogOK, HubOK, HubShape
<1> QED  BY <1>1, <1>2, <1>3, <1>4, <1>5

LEMMA WithPc ==
    ASSUME NEW call \in CallType, NEW x \in {"logs", "asleep", "live", "flush", "done"}
    PROVE  /\ [call EXCEPT !.pc = x] \in CallType /\ [call EXCEPT !.pc = x].d = call.d
           /\ [call EXCEPT !.pc = x].history = call.history
BY DEF CallType

LEMMA ReadStatusStep ==
    ASSUME LogOK, NEW c \in Tails, NEW d \in Deployments, NEW kind \in TailKinds,
           ReadStatus(c, d, kind)
    PROVE  \E call : CallStep(c, call)
<1> DEFINE call == [NoCall EXCEPT !.kind = kind, !.pc = "logs", !.d = d, !.status = status[d]]
<1>1. status[d] \in Said  BY CallFacts DEF Said
<1>2. <<>> \in Seq(Line)  BY EmptySeq
<1>3. NoCall \in CallType /\ NoCall.history = {}  BY <1>2 DEF NoCall, CallType, TailKinds
<1>4. call \in CallType /\ call.d = d /\ call.history = {} /\ call.pc = "logs"
  BY <1>1, <1>3 DEF CallType, Said
<1>5. CallOK(call)
  <2> HIDE DEF call
  <2> QED  BY <1>4, FS_EmptySet DEF CallOK
<1>6. Ask(c, call)  BY DEF ReadStatus
<1> HIDE DEF call
<1> QED  BY <1>4, <1>5, <1>6, AskStep

\* A call that goes on keeps its deployment and its history.
LEMMA GoesOn ==
    ASSUME NEW call \in CallType, CallOK(call), call.pc # "idle", NEW next \in CallType,
           next.d = call.d, next.history = call.history
    PROVE  CallOK(next)
BY DEF CallOK

LEMMA WaitingSteps ==
    ASSUME LogOK, NEW c \in Tails, PollAgain(c) \/ GiveUp(c) \/ PollStatus(c)
    PROVE  \E call : CallStep(c, call)
<1> DEFINE again == [tail[c] EXCEPT !.status = status[tail[c].d], !.pc = "logs"]
           over == [tail[c] EXCEPT !.pc = "done"]
           flush == [tail[c] EXCEPT !.status = status[tail[c].d], !.pc = "flush"]
<1>1. tail[c] \in CallType /\ CallOK(tail[c])  BY CallFacts
<1>2. tail[c].pc # "idle" => status[tail[c].d] \in Said
  BY <1>1, CallFacts DEF CallOK, Said
<1>3. CASE PollAgain(c)
  <2>1. again \in CallType /\ again.d = tail[c].d /\ again.history = tail[c].history
    BY <1>1, <1>2, <1>3 DEF CallType, Said, PollAgain
  <2>2. Ask(c, again) /\ tail[c].pc # "idle"  BY <1>3 DEF PollAgain
  <2> HIDE DEF again
  <2> QED  BY <1>1, <2>1, <2>2, GoesOn, AskStep
<1>4. CASE GiveUp(c)
  <2>1. over \in CallType /\ over.d = tail[c].d /\ over.history = tail[c].history
    BY <1>1 DEF CallType
  <2>2. Ask(c, over) /\ tail[c].pc # "idle"  BY <1>4 DEF GiveUp
  <2> HIDE DEF over
  <2> QED  BY <1>1, <2>1, <2>2, GoesOn, AskStep
<1>5. CASE PollStatus(c)
  <2>1. flush \in CallType /\ flush.d = tail[c].d /\ flush.history = tail[c].history
    BY <1>1, <1>2, <1>5 DEF CallType, Said, PollStatus
  <2>2. Ask(c, flush) /\ tail[c].pc # "idle"  BY <1>5 DEF PollStatus
  <2> HIDE DEF flush
  <2> QED  BY <1>1, <2>1, <2>2, GoesOn, AskStep
<1> QED  BY <1>3, <1>4, <1>5

LEMMA ReadLogsStep ==
    ASSUME LogOK, NEW c \in Tails, ReadLogs(c)
    PROVE  \E call : CallStep(c, call)
<1> DEFINE d == tail[c].d
           got(ok) == IF ok THEN rows[d] ELSE tail[c].history
           heard(ok) == [tail[c] EXCEPT !.history = got(ok), !.answered = ok,
                           !.basis = tail[c].status, !.highest = Max({0} \union Numbers(got(ok)))]
           live(ok) == [heard(ok) EXCEPT !.pc = "live"]
           other(ok) == [heard(ok) EXCEPT !.pc =
                           IF tail[c].kind = "follow" /\ ~(tail[c].status \in Terminal)
                           THEN "asleep" ELSE "done"]
<1>1. /\ tail[c] \in CallType /\ CallOK(tail[c]) /\ c \in Viewers /\ tail[c].pc = "logs"
      /\ d \in Deployments /\ d \in Topics /\ conn[d][c] \in ConnStates
  BY CallFacts DEF CallOK, ReadLogs
<1>2. \A ok \in BOOLEAN :
        got(ok) \in SUBSET Line /\ IsFiniteSet(got(ok)) /\ got(ok) \subseteq rows[d]
  BY <1>1, CallFacts DEF CallOK
<1> HIDE DEF got, d
<1>3. \A ok \in BOOLEAN : Max({0} \union Numbers(got(ok))) \in Nat
  BY <1>2, HighestOf
<1>4. ASSUME NEW ok \in BOOLEAN
      PROVE  /\ heard(ok) \in CallType
             /\ heard(ok).history = got(ok) /\ heard(ok).d = tail[c].d
  BY <1>1, <1>2, <1>3 DEF CallType
<1> HIDE DEF heard
<1>5. ASSUME NEW ok \in BOOLEAN
      PROVE  /\ live(ok) \in CallType /\ live(ok).history = got(ok) /\ live(ok).d = d
             /\ other(ok) \in CallType /\ other(ok).history = got(ok) /\ other(ok).d = d
  <2>1. /\ live(ok) \in CallType /\ live(ok).history = got(ok) /\ live(ok).d = d
    BY <1>4, WithPc DEF d
  <2> DEFINE x == IF tail[c].kind = "follow" /\ ~(tail[c].status \in Terminal)
                  THEN "asleep" ELSE "done"
  <2>2. x \in {"logs", "asleep", "live", "flush", "done"} /\ other(ok) = [heard(ok) EXCEPT !.pc = x]
    OBVIOUS
  <2> HIDE DEF x, other
  <2>3. /\ [heard(ok) EXCEPT !.pc = x] \in CallType
        /\ [heard(ok) EXCEPT !.pc = x].history = heard(ok).history
        /\ [heard(ok) EXCEPT !.pc = x].d = heard(ok).d
    BY <1>4, <2>2, WithPc
  <2>4. other(ok) \in CallType /\ other(ok).history = got(ok) /\ other(ok).d = d
    BY <1>4, <2>2, <2>3 DEF d
  <2> QED  BY <2>1, <2>4
<1> HIDE DEF live, other
<1>6. ASSUME NEW ok \in BOOLEAN
      PROVE  CallOK(live(ok)) /\ CallOK(other(ok))
  BY <1>1, <1>2, <1>5 DEF CallOK
<1>7. PICK ok \in BOOLEAN :
        \/ Ask(c, other(ok))
        \/ /\ conn[d][c] = "none"
           /\ conn' = [conn EXCEPT ![d][c] = "dialling"]
           /\ tail' = [tail EXCEPT ![c] = live(ok)]
           /\ UnchangedByTail
           /\ UNCHANGED <<subscribers, buffer, channel, capacity, hubHistory>>
  BY DEF ReadLogs, live, other, heard, got, d
<1>8. CASE Ask(c, other(ok))
  BY <1>5, <1>6, <1>8, AskStep
<1>9. CASE /\ conn[d][c] = "none"
           /\ conn' = [conn EXCEPT ![d][c] = "dialling"]
           /\ tail' = [tail EXCEPT ![c] = live(ok)]
           /\ UnchangedByTail
           /\ UNCHANGED <<subscribers, buffer, channel, capacity, hubHistory>>
  <2>1. HubOK /\ "dialling" \in ConnStates  BY DEF LogOK, ConnStates
  <2>2. "dialling" \in {"open", "closing"} <=> conn[d][c] \in {"open", "closing"}
    BY <1>9
  <2>3. /\ Reads(Deployments, c)
        /\ \A u \in Topics, w \in Viewers : conn'[u][w] =
             IF u = d /\ w = c THEN "dialling" ELSE conn[u][w]
    <3>1. UNCHANGED <<subscribers, buffer, capacity, hubHistory>> /\ channel' = channel
      BY <1>9
    <3>2. conn' = Moved(d, c, "dialling")  BY <1>9 DEF Moved
    <3> QED  BY <1>1, <2>1, <2>2, <3>1, <3>2, MovedReads
  <2>4. CallStep(c, live(ok))
    <3>1. tail' = [tail EXCEPT ![c] = live(ok)] /\ UnchangedByTail  BY <1>9
    <3> QED  BY <1>5, <1>6, <2>3, <3>1 DEF CallStep
  <2> QED  BY <2>4
<1> QED  BY <1>7, <1>8, <1>9

\* A socket that is heard or closed moves alone.
LEMMA ListenSteps ==
    ASSUME LogOK, NEW c \in Tails, TailReceives(c) \/ TailEnds(c)
    PROVE  \E call : CallStep(c, call)
<1> DEFINE d == tail[c].d
           line == Head(channel[d][c])
           over(call) == [call EXCEPT !.pc = "done"]
           cut == [tail[c] EXCEPT !.truncated = TRUE]
           more == [tail[c] EXCEPT !.lines = Append(@, line)]
<1>1. /\ tail[c] \in CallType /\ CallOK(tail[c]) /\ c \in Viewers
      /\ tail[c].pc \in {"live", "flush"} /\ HubOK
      /\ d \in Deployments /\ d \in Topics /\ conn[d][c] \in ConnStates
  BY CallFacts DEF CallOK, TailReceives, TailEnds, Listening, LogOK
<1>2. tail[c].pc # "idle"  BY <1>1
<1>3. /\ cut \in CallType /\ cut.d = d /\ cut.history = tail[c].history
      /\ over(tail[c]) \in CallType /\ over(tail[c]).d = d
      /\ over(tail[c]).history = tail[c].history
  BY <1>1 DEF CallType
<1>4. over(cut) \in CallType /\ over(cut).d = d /\ over(cut).history = tail[c].history
  BY <1>1 DEF CallType
<1>5. CallOK(over(tail[c])) /\ CallOK(over(cut))
  <2> HIDE DEF over, cut
  <2> QED  BY <1>1, <1>2, <1>3, <1>4, GoesOn
<1>6. HungUp(conn[d][c]) \in ConnStates
      /\ (HungUp(conn[d][c]) \in {"open", "closing"} <=> conn[d][c] \in {"open", "closing"})
      /\ HungUp(conn[d][c]) # "open"
  BY <1>1, HungUpState
<1>7. ASSUME NEW call \in {tail[c], cut}, Finish(c, call), UnchangedByTail,
             UNCHANGED <<subscribers, buffer, capacity, hubHistory>>,
             \/ channel' = channel
             \/ channel[d][c] # <<>> /\ channel' = [channel EXCEPT ![d][c] = Tail(@)]
      PROVE  CallStep(c, over(call))
  <2>1. call.d = d  BY <1>3
  <2>2. /\ conn' = [conn EXCEPT ![d][c] = HungUp(conn[d][c])]
        /\ tail' = [tail EXCEPT ![c] = over(call)]
    BY <1>7, <2>1 DEF Finish
  <2> HIDE DEF over, cut, d
  <2>3. /\ Reads(Deployments, c)
        /\ \A u \in Topics, w \in Viewers : conn'[u][w] =
             IF u = d /\ w = c THEN HungUp(conn[d][c]) ELSE conn[u][w]
    <3>1. UNCHANGED <<subscribers, buffer, capacity, hubHistory>>  BY <1>7
    <3>2. \/ channel' = channel
          \/ Takes(d, c)
      BY <1>7 DEF Takes
    <3> DEFINE x == HungUp(conn[d][c])
    <3>3. x \in ConnStates /\ (x \in {"open", "closing"} <=> conn[d][c] \in {"open", "closing"})
          /\ x # "open" /\ conn' = Moved(d, c, x)
      BY <1>6, <2>2 DEF Moved
    <3> HIDE DEF x
    <3>4. /\ Reads(Deployments, c)
          /\ \A u \in Topics, w \in Viewers : conn'[u][w] =
               IF u = d /\ w = c THEN x ELSE conn[u][w]
      BY <1>1, <3>1, <3>2, <3>3, MovedReads
    <3> QED  BY <3>4 DEF x
  <2>4. over(call) \in CallType /\ CallOK(over(call))  BY <1>3, <1>4, <1>5, <1>7
  <2> QED  BY <1>7, <2>2, <2>3, <2>4 DEF CallStep
<1>8. CASE TailEnds(c)
  BY <1>7, <1>8 DEF TailEnds
<1>9. CASE TailReceives(c)
  <2>1. /\ channel[d][c] # <<>> /\ channel' = [channel EXCEPT ![d][c] = Tail(@)]
        /\ UnchangedByTail /\ UNCHANGED <<subscribers, buffer, capacity, hubHistory>>
    BY <1>9 DEF TailReceives
  <2>2. \/ UNCHANGED <<tail, conn>>
        \/ Finish(c, cut)
        \/ tail' = [tail EXCEPT ![c] = more] /\ UNCHANGED conn
    BY <1>9 DEF TailReceives
  <2>3. CASE Finish(c, cut)  BY <1>7, <2>1, <2>3
  <2>4. channel[d][c] \in Seq(OwnLine(d))  BY <1>1 DEF LogOK, LinesOK, Carries
  <2>5. line \in Line  BY <1>1, <2>1, <2>4, LinesOfTail, OwnLineIsLine
  <2>6. more \in CallType /\ more.d = d /\ more.history = tail[c].history
    <3>1. tail[c].lines \in Seq(Line)  BY <1>1 DEF CallType
    <3>2. Append(tail[c].lines, line) \in Seq(Line)  BY <2>5, <3>1, AppendProperties
    <3> HIDE DEF line
    <3> QED  BY <1>1, <3>2 DEF CallType
  <2> HIDE DEF more, d
  <2>7. CallOK(more)  BY <1>1, <1>2, <2>6, GoesOn DEF d
  <2>8. ASSUME UNCHANGED conn
        PROVE  Reads(Deployments, c)
    <3>1. conn' = Moved(d, c, conn[d][c])
      BY <1>1, <2>8 DEF HubOK, HubShape, Moved
    <3>2. UNCHANGED <<subscribers, buffer, capacity, hubHistory>> /\ Takes(d, c)
      BY <2>1 DEF Takes
    <3>3. Reads(Deployments, c)  BY <1>1, <3>1, <3>2, MovedReads
    <3> QED  BY <2>8, <3>3
  <2>9. CASE tail' = [tail EXCEPT ![c] = more] /\ UNCHANGED conn
    BY <2>1, <2>6, <2>7, <2>8, <2>9 DEF CallStep
  <2>10. CASE UNCHANGED <<tail, conn>>
    <3>1. tail' = [tail EXCEPT ![c] = tail[c]]  BY <2>10 DEF LogOK, CallsOK
    <3> QED  BY <1>1, <2>1, <2>8, <2>10, <3>1 DEF CallStep
  <2> QED  BY <2>2, <2>3, <2>9, <2>10
<1> QED  BY <1>8, <1>9

LEMMA TailingOK ==
    ASSUME LogOK, StreamsAssumption, NEW c \in Tails, Tailing(c)
    PROVE  LogOK' /\ Reads(Deployments, c)
<1>1. \E call : CallStep(c, call)
  BY ReadStatusStep, ReadLogsStep, WaitingSteps, ListenSteps DEF Tailing
<1> QED  BY <1>1, CallStepOK

-----------------------------------------------------------------------------
(* A build and its readers, one step.                                      *)

\* Only the hub moves: no page is connected that was not.
LEMMA OnlyHub ==
    ASSUME LogOK, UNCHANGED logVars, HubOK', LinesOK',
           \A d \in Deployments, p \in Pages :
             conn'[d][p] \in {"open", "dialling"} => conn[d][p] \in {"open", "dialling"}
    PROVE  LogOK'
<1>1. UNCHANGED <<logLineNum, writer, emitted, rows, phase, status, page, tail>>
  BY DEF logVars
<1>2. BuildOK' /\ CallsOK'  BY <1>1, BuildKept, CallsKept DEF LogOK
<1>3. ASSUME NEW p \in Pages
      PROVE  ViewOK(page[p])' /\ Linked(p)'
  <2>1. ViewOK(page[p]) /\ Linked(p)  BY DEF LogOK, PagesOK
  <2> QED  BY <1>1, <2>1 DEF ViewOK, Linked
<1> QED  BY <1>1, <1>2, <1>3 DEF LogOK, PagesOK

\* A connection of a handler, on a topic of either kind.
LEMMA HandlerStep ==
    ASSUME HubOK, NEW t \in Topics, NEW v \in Viewers, NEW ts, t \in ts,
           \/ Subscribe(t, v) \/ Unsubscribe(t, v) \/ Refuse(t, v) \/ DropConnection(t, v)
    PROVE  /\ Moves(ts)
           /\ \A u \in Topics, w \in Viewers :
                conn'[u][w] \in {"open", "dialling"} => conn[u][w] \in {"open", "dialling"}
<1>1. CASE Subscribe(t, v)
  <2>1. /\ conn[t][v] \in {"dialling", "abandoned"}
        /\ conn'[t][v] = IF conn[t][v] = "dialling" THEN "open" ELSE "closing"
    BY <1>1, SubscribeTaken DEF Subscribe
  <2>2. \A u \in Topics, w \in Viewers : u # t \/ w # v => conn'[u][w] = conn[u][w]
    BY <1>1, SubscribeTaken
  <2>3. Moves(ts)  BY <1>1 DEF Moves
  <2> QED  BY <2>1, <2>2, <2>3
<1>2. CASE Unsubscribe(t, v)
  BY <1>2, UnsubscribeTaken DEF Moves
<1>3. CASE Refuse(t, v)
  <2>1. UNCHANGED <<subscribers, buffer, capacity, hubHistory>> /\ channel' = channel
        /\ conn' = Moved(t, v, "none") /\ "none" \in ConnStates
        /\ ("none" \in {"open", "closing"} <=> conn[t][v] \in {"open", "closing"})
    BY <1>3 DEF Refuse, Moved, ConnStates
  <2> QED  BY <2>1, MovedReads DEF Moves
<1>4. CASE DropConnection(t, v)
  <2>1. UNCHANGED <<subscribers, buffer, capacity, hubHistory>> /\ channel' = channel
        /\ conn' = Moved(t, v, "closing") /\ "closing" \in ConnStates
        /\ ("closing" \in {"open", "closing"} <=> conn[t][v] \in {"open", "closing"})
    BY <1>4 DEF DropConnection, Moved, ConnStates
  <2> QED  BY <2>1, MovedReads DEF Moves
<1> QED  BY <1>1, <1>2, <1>3, <1>4

\* On its own topics a handler carries what was published.
LEMMA HandlerCarries ==
    ASSUME HubOK, NEW t \in Topics, NEW v \in Viewers, NEW u \in Topics, NEW L, Carries(u, L),
           \/ Subscribe(t, v) \/ Unsubscribe(t, v) \/ Refuse(t, v) \/ DropConnection(t, v)
    PROVE  Carries(u, L)'
<1>1. CASE Subscribe(t, v) \/ Unsubscribe(t, v)
  BY <1>1, SubscribeCarries, UnsubscribeCarries
<1>2. CASE Refuse(t, v) \/ DropConnection(t, v)
  <2>1. buffer' = buffer /\ channel' = channel /\ published' = published
    BY <1>2 DEF Refuse, DropConnection, hubHistory
  <2> QED  BY <2>1 DEF Carries
<1> QED  BY <1>1, <1>2

LEMMA ConnectionsOK ==
    ASSUME LogOK, Connections, Unmoved
    PROVE  LogOK' /\ Moves(Deployments)
<1>1. PICK t \in Deployments, v \in Pages \union Tails :
        Subscribe(t, v) \/ Unsubscribe(t, v) \/ Refuse(t, v) \/ DropConnection(t, v)
  BY DEF Connections
<1>2. t \in Topics /\ v \in Viewers /\ Deployments \in SUBSET Topics /\ HubOK  BY DEF LogOK
<1>3. /\ Moves(Deployments)
      /\ \A u \in Topics, w \in Viewers :
           conn'[u][w] \in {"open", "dialling"} => conn[u][w] \in {"open", "dialling"}
  BY <1>1, <1>2, HandlerStep
<1>4. HubOK'  BY <1>2, <1>3, MovesHub
<1>5. ASSUME NEW d \in Deployments
      PROVE  Carries(d, OwnLine(d))'
  <2>1. Carries(d, OwnLine(d))  BY DEF LogOK, LinesOK
  <2> QED  BY <1>1, <1>2, <2>1, HandlerCarries
<1>6. LinesOK'  BY <1>5 DEF LinesOK
<1>7. \A d \in Deployments, p \in Pages :
        conn'[d][p] \in {"open", "dialling"} => conn[d][p] \in {"open", "dialling"}
  BY <1>3
<1>8. UNCHANGED logVars  BY DEF Unmoved
<1> QED  BY <1>3, <1>4, <1>6, <1>7, <1>8, OnlyHub

LEMMA PipelineStep ==
    ASSUME LogOK, NEW d \in Deployments, Pipeline(d)
    PROVE  LogOK' /\ Moves(Deployments)
<1>1. HubOK /\ BuildOK /\ BuildOK' /\ d \in Topics /\ BuildTypes
  BY PipelineOK DEF LogOK, BuildOK
<1>2. UNCHANGED <<page, tail>> /\ \A e \in Deployments : rows[e] \subseteq rows'[e]
  <2>1. ASSUME NEW w \in Writers, ScanLine(d, w) \/ Number(d, w) \/ InsertLine(d, w)
                                   \/ PublishLine(d, w)
        PROVE  UNCHANGED <<page, tail>> /\ \A e \in Deployments : rows[e] \subseteq rows'[e]
    BY <1>1, <2>1 DEF ScanLine, Number, InsertLine, PublishLine, BuildTypes
  <2> QED  BY <2>1 DEF Pipeline, BuildFails, WriteFailed, WriteLive
<1>3. ASSUME NEW w \in Writers, PublishLine(d, w)
      PROVE  HubOK' /\ LinesOK' /\ Moves(Deployments) /\ conn' = conn
  <2> DEFINE line == [topic |-> d, n |-> logLineNum[d], text |-> writer[d][w].text]
  <2>1. line \in OwnLine(d) /\ Publish(d, line)
    BY <1>1, <1>3, LineOwn DEF PublishLine
  <2>2. line \in Message  BY <2>1, OwnLineIsLine DEF Message
  <2> HIDE DEF line
  <2>3. HubOK'  BY <1>1, <2>1, <2>2, PublishHub
  <2>4. ASSUME NEW e \in Deployments
        PROVE  Carries(e, OwnLine(e))'
    <3>1. Carries(e, OwnLine(e)) /\ e \in Topics  BY DEF LogOK, LinesOK
    <3> QED  BY <1>1, <2>1, <2>2, <3>1, PublishCarries
  <2>5. Moves(Deployments)  BY <2>1, <2>2 DEF Moves
  <2>6. conn' = conn  BY <2>1 DEF Publish
  <2> QED  BY <2>3, <2>4, <2>5, <2>6 DEF LinesOK
<1>4. HubOK' /\ LinesOK' /\ Moves(Deployments) /\ conn' = conn
  <2>1. UNCHANGED hubVars => conn' = conn  BY DEF hubVars
  <2>2. UNCHANGED hubVars \/ \E w \in Writers : PublishLine(d, w)
    BY DEF Pipeline, ScanLine, Number, InsertLine, BuildFails, WriteFailed, WriteLive
  <2>3. CASE UNCHANGED hubVars
    <3>1. Reads(Deployments, d)  BY <1>1, <2>3, StillReads
    <3> QED  BY <1>1, <2>1, <2>3, <3>1, ReadsHub, LinesRead DEF LogOK, Moves
  <2> QED  BY <1>3, <2>2, <2>3
<1>5. ASSUME NEW p \in Pages
      PROVE  ViewOK(page[p])' /\ Linked(p)'
  <2>1. ViewOK(page[p]) /\ Linked(p)  BY DEF LogOK, PagesOK
  <2>2. ViewOK(page[p])'
    <3>1. \A e \in Deployments : page[p].history[e] \subseteq rows'[e]  BY <1>2, <2>1 DEF ViewOK
    <3> QED  BY <1>2, <2>1, <3>1 DEF ViewOK
  <2> QED  BY <1>2, <1>4, <2>1, <2>2 DEF Linked
<1>6. PagesOK'  BY <1>2, <1>5 DEF LogOK, PagesOK
<1>7. ASSUME NEW c \in Tails
      PROVE  CallOK(tail[c])'
  <2>1. CallOK(tail[c])  BY DEF LogOK, CallsOK
  <2>2. \A e \in Deployments : tail[c].d = e => tail[c].history \subseteq rows'[e]
    BY <1>2, <2>1 DEF CallOK
  <2> QED  BY <1>2, <2>1, <2>2 DEF CallOK
<1>8. CallsOK'  BY <1>2, <1>7 DEF LogOK, CallsOK
<1> QED  BY <1>1, <1>4, <1>6, <1>8 DEF LogOK

LEMMA LogStep ==
    ASSUME LogOK, StreamsAssumption, LogNext
    PROVE  LogOK' /\ Moves(Deployments)
<1>1. \A r : Reads(Deployments, r) => Moves(Deployments)  BY DEF Moves
<1> QED  BY <1>1, PipelineStep, ViewingOK, TailingOK, ConnectionsOK DEF LogNext

-----------------------------------------------------------------------------
(* The verifications.                                                      *)

RowType == [state : {"unclaimed", "listed", "deleted"}, dns : BOOLEAN,
            ssl : {"pending", "active", "error"}]
RunType == [d : Domains \union {Nobody}, n : Nat, verdict : Verdicts,
            pc : {"idle", "answered", "dns", "missing", "found", "provision",
                  "conclude", "release", "moving"}]
VisitType == [open : BOOLEAN, list : [Domains -> {"unknown", "absent", "pending", "ready"}],
              owed : BOOLEAN, attempted : SUBSET Domains, asking : Domains \union {Nobody},
              reply : {"none", "sent", "accepted", "refused"},
              verifying : Domains \union {Nobody},
              state : {"idle", "following"} \union Verdicts, heard : SUBSET Event]

\* A request on its way is about a domain.
VisitState == {v \in VisitType : v.reply = "none" \/ v.asking \in Domains}

DomainTypes ==
    /\ row \in [Domains -> RowType]
    /\ verifying \in Domains \union {Nobody} /\ sessions \in 0..MaxSessions
    /\ run \in RunType /\ visit \in [Visits -> VisitState]
    /\ (verifying = Nobody <=> run.pc = "idle") /\ verifying = run.d

EventsOK == \A d \in Domains : Carries(d, Event)

DomainOK == HubOK /\ EventsOK /\ DomainTypes
DomainMoves == DomainTypes' /\ EventsOK' /\ Moves(Domains)

\* Reading keeps what the topics carry.
LEMMA ReadingMoves ==
    ASSUME DomainOK, DomainAssumption, NEW r, Reads(Domains, r), DomainTypes'
    PROVE  DomainMoves
<1>1. EventsOK'
  <2>1. \A d \in Domains : d \in Topics  BY DEF DomainAssumption
  <2> QED  BY <2>1, ReadsCarries DEF DomainOK, EventsOK
<1> QED  BY <1>1 DEF DomainMoves, Moves

LEMMA UnmovedMoves ==
    ASSUME DomainOK, DomainAssumption, UNCHANGED hubVars, DomainTypes'
    PROVE  DomainMoves
<1>1. Reads(Domains, Nobody)  BY StillReads DEF DomainOK
<1> QED  BY <1>1, ReadingMoves

LEMMA EmitMoves ==
    ASSUME DomainOK, DomainAssumption, StreamsAssumption, NEW text \in {"step"} \union Verdicts,
           run.d \in Domains, Emit(text), DomainTypes'
    PROVE  DomainMoves
<1> DEFINE event == [topic |-> run.d, n |-> run.n + 1, text |-> text, session |-> sessions]
<1>1. HubOK /\ run.d \in Topics /\ \A d \in Domains : d \in Topics /\ Carries(d, Event)
  BY DEF DomainOK, EventsOK, DomainAssumption
<1>2. run.n + 1 \in Nat /\ sessions \in Nat
  <2>1. run.n \in Nat /\ sessions \in 0..MaxSessions /\ MaxSessions \in Nat
    BY DEF DomainOK, DomainTypes, RunType, DomainAssumption
  <2> QED  BY <2>1
<1>3. event \in Event  BY <1>1, <1>2 DEF Event
<1>4. Publish(run.d, event)  BY DEF Emit
<1>5. event \in Message  BY <1>3 DEF Message
<1> HIDE DEF event
<1>6. EventsOK'  BY <1>1, <1>3, <1>4, <1>5, PublishCarries DEF EventsOK
<1>7. Moves(Domains)  BY <1>4, <1>5 DEF Moves
<1> QED  BY <1>6, <1>7 DEF DomainMoves

LEMMA WrittenType ==
    ASSUME row \in [Domains -> RowType], NEW d \in Domains, NEW r \in RowType
    PROVE  Written(d, r) \in [Domains -> RowType]
BY DEF Written

LEMMA VerificationOK ==
    ASSUME DomainOK, DomainAssumption, StreamsAssumption, Verification
    PROVE  DomainMoves
<1>1. /\ DomainTypes /\ row \in [Domains -> RowType] /\ run \in RunType
      /\ verifying = run.d /\ (verifying = Nobody <=> run.pc = "idle")
  BY DEF DomainOK, DomainTypes
<1>2. run.pc # "idle" => run.d \in Domains /\ row[run.d] \in RowType
  BY <1>1 DEF RunType
<1>3. run.n \in Nat /\ run.n + 1 \in Nat
  <2>1. run.n \in Nat  BY <1>1 DEF RunType
  <2> QED  BY <2>1
<1>4. CASE StartSession
  <2>1. run.d \in Domains /\ run.d \in Topics /\ ResetBuffer(run.d)
    BY <1>2, <1>4 DEF StartSession, DomainAssumption
  <2>2. DomainTypes'  BY <1>1, <1>4 DEF DomainTypes, RunType, StartSession
  <2>3. \A d \in Domains : d \in Topics  BY DEF DomainAssumption
  <2>4. EventsOK'  BY <2>1, <2>3, ResetCarries DEF DomainOK, EventsOK
  <2>5. Moves(Domains)  BY <2>1 DEF Moves
  <2> QED  BY <2>2, <2>4, <2>5 DEF DomainMoves
<1>5. CASE CheckDNS
  <2>1. PICK pc \in {"found", "missing"} : run' = [run EXCEPT !.n = @ + 1, !.pc = pc]
    <3>1. PICK found \in BOOLEAN :
            run' = [run EXCEPT !.n = @ + 1, !.pc = IF found THEN "found" ELSE "missing"]
      BY <1>5 DEF CheckDNS
    <3> QED  BY <3>1
  <2>2. run' \in RunType /\ run'.d = run.d /\ run'.pc # "idle" /\ run.pc # "idle"
    BY <1>1, <1>3, <1>5, <2>1 DEF RunType, CheckDNS
  <2>3. DomainTypes'  BY <1>1, <1>5, <2>2 DEF DomainTypes, CheckDNS
  <2> QED  BY <1>2, <1>5, <2>2, <2>3, EmitMoves DEF CheckDNS
<1>6. CASE RecordMissing
  <2>1. [row[run.d] EXCEPT !.dns = FALSE, !.ssl = "pending"] \in RowType
    BY <1>2, <1>6 DEF RecordMissing, RowType
  <2>2. row' \in [Domains -> RowType]
    BY <1>1, <1>2, <1>6, <2>1, WrittenType DEF RecordMissing
  <2>3. run' \in RunType /\ run'.d = run.d /\ run'.pc # "idle" /\ run.pc # "idle"
    BY <1>1, <1>6 DEF RunType, RecordMissing, Verdicts
  <2>4. DomainTypes'  BY <1>1, <1>6, <2>2, <2>3 DEF DomainTypes, RecordMissing
  <2> QED  BY <1>6, <2>4, UnmovedMoves DEF RecordMissing
<1>7. CASE RecordFound
  <2>1. [row[run.d] EXCEPT !.dns = TRUE] \in RowType
    BY <1>2, <1>7 DEF RecordFound, RowType
  <2>2. row' \in [Domains -> RowType]
    BY <1>1, <1>2, <1>7, <2>1, WrittenType DEF RecordFound
  <2>3. run' \in RunType /\ run'.d = run.d /\ run'.pc # "idle" /\ run.pc # "idle"
    BY <1>1, <1>7 DEF RunType, RecordFound
  <2>4. DomainTypes'  BY <1>1, <1>7, <2>2, <2>3 DEF DomainTypes, RecordFound
  <2> QED  BY <1>7, <2>4, UnmovedMoves DEF RecordFound
<1>8. CASE Provision
  <2>1. PICK verdict \in Verdicts :
          /\ row' = Written(run.d, [row[run.d] EXCEPT !.ssl =
                        IF verdict = "success" THEN "active" ELSE "error"])
          /\ run' = [run EXCEPT !.pc = "conclude", !.verdict = verdict]
    BY <1>8 DEF Provision
  <2>2. [row[run.d] EXCEPT !.ssl = IF verdict = "success" THEN "active" ELSE "error"] \in RowType
    BY <1>2, <1>8 DEF Provision, RowType
  <2>3. row' \in [Domains -> RowType]
    BY <1>1, <1>2, <1>8, <2>1, <2>2, WrittenType DEF Provision
  <2>4. run' \in RunType /\ run'.d = run.d /\ run'.pc # "idle" /\ run.pc # "idle"
    BY <1>1, <1>8, <2>1 DEF RunType, Provision
  <2>5. DomainTypes'  BY <1>1, <1>8, <2>3, <2>4 DEF DomainTypes, Provision
  <2> QED  BY <1>8, <2>5, UnmovedMoves DEF Provision
<1>9. CASE Conclude
  <2>1. run' \in RunType /\ run'.d = run.d /\ run'.pc # "idle" /\ run.pc # "idle"
        /\ run.verdict \in Verdicts
    BY <1>1, <1>9 DEF RunType, Conclude
  <2>2. DomainTypes'  BY <1>1, <1>9, <2>1 DEF DomainTypes, Conclude
  <2> QED  BY <1>2, <1>9, <2>1, <2>2, EmitMoves DEF Conclude
<1>10. CASE Release
  <2>1. NoRun \in RunType /\ NoRun.d = Nobody /\ NoRun.pc = "idle"
    BY DEF NoRun, RunType, Verdicts
  <2>2. DomainTypes'  BY <1>1, <1>10, <2>1 DEF DomainTypes, Release
  <2> QED  BY <1>10, <2>2, UnmovedMoves DEF Release
<1> QED  BY <1>4, <1>5, <1>6, <1>7, <1>8, <1>9, <1>10 DEF Verification

\* A page's state changes, and at most the page's own connections do.
LEMMA VisitTypes ==
    ASSUME DomainTypes, visit' \in [Visits -> VisitState], Elsewhere
    PROVE  DomainTypes'
BY DEF DomainTypes, Elsewhere

LEMMA RerenderType ==
    ASSUME visit \in [Visits -> VisitState], NEW p \in Visits, NEW v \in VisitState, Rerender(p, v)
    PROVE  visit' \in [Visits -> VisitState]
<1>1. \A d \in Domains : Asking(v, d) \in VisitState  BY DEF Asking, VisitType, VisitState
<1>2. Due(v) \subseteq Domains  BY DEF Due
<1>3. CASE visit' = [visit EXCEPT ![p] = v]  BY <1>3
<1>4. ASSUME NEW d \in Due(v), visit' = [visit EXCEPT ![p] = Asking(v, d)]
      PROVE  visit' \in [Visits -> VisitState]
  <2>1. Asking(v, d) \in VisitState  BY <1>1, <1>2
  <2> QED  BY <1>4, <2>1
<1> QED  BY <1>3, <1>4 DEF Rerender

LEMMA RedialMoves ==
    ASSUME HubOK, DomainAssumption, StreamsAssumption, NEW p \in Visits,
           NEW old \in Domains \union {Nobody}, NEW new \in Domains \union {Nobody},
           Redial(p, old, new)
    PROVE  Reads(Domains, p)
<1>1. conn' = Redialled(p, old, new)  BY DEF Redial, Redialled
<1>2. p \in Viewers /\ Nobody \notin Topics  BY DEF DomainAssumption, StreamsAssumption
<1>3. (new \in Topics /\ old # new) => conn[new][p] = "none"  BY <1>2 DEF Redial
<1>4. UNCHANGED <<subscribers, buffer, channel, capacity, hubHistory>>  BY DEF Redial
<1>5. (old \in Topics => old \in Domains) /\ (new \in Topics => new \in Domains)  BY <1>2
<1> QED  BY <1>1, <1>2, <1>3, <1>4, <1>5, RedialReads

LEMMA VisitFacts ==
    ASSUME DomainOK, NEW p \in Visits
    PROVE  /\ DomainTypes /\ HubOK /\ visit \in [Visits -> VisitState] /\ visit[p] \in VisitState
           /\ row \in [Domains -> RowType]
           /\ visit[p].asking \in Domains \union {Nobody}
           /\ visit[p].verifying \in Domains \union {Nobody}
<1>1. DomainTypes /\ HubOK /\ visit \in [Visits -> VisitState] /\ row \in [Domains -> RowType]
  BY DEF DomainOK, DomainTypes
<1> QED  BY <1>1 DEF VisitType, VisitState

\* The handlers that take the project's entry.
LEMMA AcceptedTypes ==
    ASSUME DomainTypes, DomainAssumption, NEW d \in Domains, Accepted(d),
           visit' \in [Visits -> VisitState], StreamsAssumption
    PROVE  DomainTypes'
<1>1. sessions \in 0..MaxSessions /\ MaxSessions \in Nat /\ sessions < MaxSessions
  BY DEF DomainTypes, Accepted, DomainAssumption
<1>2. sessions' \in 0..MaxSessions  BY <1>1 DEF Accepted
<1>3. run' \in RunType /\ run'.d = d /\ run'.pc = "answered"
  BY DEF Accepted, NoRun, RunType, Verdicts
<1>4. d # Nobody  BY DEF DomainAssumption, StreamsAssumption
<1> QED  BY <1>2, <1>3, <1>4 DEF DomainTypes, Accepted

LEMMA QuietVisits ==
    ASSUME DomainOK, DomainAssumption, StreamsAssumption, NEW p \in Visits,
           \/ OpenSettings(p) \/ FetchDomains(p) \/ ServeVerify(p)
           \/ \E d \in Domains : ClickVerify(p, d) \/ AddDomain(p, d) \/ DeleteDomain(p, d)
                                   \/ MoveDomain(p, d)
    PROVE  DomainMoves
<1>1. /\ DomainTypes /\ visit \in [Visits -> VisitState] /\ visit[p] \in VisitState
      /\ row \in [Domains -> RowType] /\ visit[p].asking \in Domains \union {Nobody}
  BY VisitFacts
<1>2. CASE OpenSettings(p)
  <2>1. [visit[p] EXCEPT !.open = TRUE, !.owed = TRUE] \in VisitState
    BY <1>1 DEF VisitType, VisitState
  <2>2. visit' \in [Visits -> VisitState]
    BY <1>1, <1>2, <2>1, RerenderType DEF OpenSettings
  <2> QED  BY <1>1, <1>2, <2>2, VisitTypes, UnmovedMoves DEF OpenSettings
<1>3. CASE FetchDomains(p)
  <2>1. \A d \in Domains : Entry(d) \in {"unknown", "absent", "pending", "ready"}
    BY DEF Entry
  <2>2. [d \in Domains |-> Entry(d)] \in [Domains -> {"unknown", "absent", "pending", "ready"}]
    BY <2>1
  <2>3. [visit[p] EXCEPT !.owed = FALSE, !.list = [d \in Domains |-> Entry(d)]] \in VisitState
    <3> DEFINE list == [d \in Domains |-> Entry(d)]
    <3>1. list \in [Domains -> {"unknown", "absent", "pending", "ready"}]  BY <2>2
    <3> HIDE DEF list
    <3>2. [visit[p] EXCEPT !.owed = FALSE, !.list = list] \in VisitState
      BY <1>1, <3>1 DEF VisitType, VisitState
    <3> QED  BY <3>2 DEF list
  <2>4. visit' \in [Visits -> VisitState]
    BY <1>1, <1>3, <2>3, RerenderType DEF FetchDomains
  <2> QED  BY <1>1, <1>3, <2>4, VisitTypes, UnmovedMoves DEF FetchDomains
<1>4. CASE ServeVerify(p)
  <2>3. visit[p].asking \in Domains
    BY <1>1, <1>4 DEF ServeVerify, VisitState
  <2>1. \A x \in {"accepted", "refused"} : [visit EXCEPT ![p].reply = x] \in [Visits -> VisitState]
    BY <1>1, <2>3 DEF VisitType, VisitState
  <2>2. visit' \in [Visits -> VisitState] /\ UNCHANGED hubVars  BY <1>4, <2>1 DEF ServeVerify
  <2>4. CASE Accepted(visit[p].asking)
    BY <1>1, <2>2, <2>3, <2>4, AcceptedTypes, UnmovedMoves
  <2>5. CASE Elsewhere
    BY <1>1, <2>2, <2>5, VisitTypes, UnmovedMoves
  <2> QED  BY <1>4, <2>4, <2>5 DEF ServeVerify
<1>5. ASSUME NEW d \in Domains, ClickVerify(p, d)
      PROVE  DomainMoves
  <2>1. Asking(visit[p], d) \in VisitState  BY <1>1 DEF Asking, VisitType, VisitState
  <2>2. visit' \in [Visits -> VisitState]  BY <1>1, <1>5, <2>1 DEF ClickVerify
  <2> QED  BY <1>1, <1>5, <2>2, VisitTypes, UnmovedMoves DEF ClickVerify
<1>6. [visit EXCEPT ![p].owed = TRUE] \in [Visits -> VisitState]
  BY <1>1 DEF VisitType, VisitState
<1>7. ASSUME NEW d \in Domains, NEW x \in {"listed", "deleted"}, row' = [row EXCEPT ![d].state = x],
             visit' = [visit EXCEPT ![p].owed = TRUE],
             UNCHANGED <<verifying, run, sessions, hubVars>>
      PROVE  DomainMoves
  <2>1. row' \in [Domains -> RowType]  BY <1>1, <1>7 DEF RowType
  <2>2. DomainTypes'  BY <1>1, <1>6, <1>7, <2>1 DEF DomainTypes
  <2> QED  BY <1>7, <2>2, UnmovedMoves
<1>8. ASSUME NEW d \in Domains, MoveDomain(p, d)
      PROVE  DomainMoves
  <2>1. CASE verifying = Nobody
    <3>1. /\ verifying' = d /\ run' = [NoRun EXCEPT !.d = d, !.pc = "moving"]
          /\ visit' = [visit EXCEPT ![p].owed = TRUE]
          /\ UNCHANGED <<row, sessions, hubVars>>
      BY <1>8, <2>1 DEF MoveDomain
    <3>2. run' \in RunType /\ run'.d = d /\ run'.pc = "moving"
      BY <3>1 DEF NoRun, RunType, Verdicts
    <3>3. d # Nobody  BY DEF DomainAssumption, StreamsAssumption
    <3>4. DomainTypes'  BY <1>1, <1>6, <3>1, <3>2, <3>3 DEF DomainTypes
    <3> QED  BY <3>1, <3>4, UnmovedMoves
  <2>2. CASE verifying # Nobody
    <3>1. UNCHANGED <<verifying, run, visit, row, sessions, hubVars>>
      BY <1>8, <2>2 DEF MoveDomain
    <3>2. DomainTypes'  BY <1>1, <3>1 DEF DomainTypes
    <3> QED  BY <3>1, <3>2, UnmovedMoves
  <2> QED  BY <2>1, <2>2
<1> QED  BY <1>2, <1>3, <1>4, <1>5, <1>7, <1>8 DEF AddDomain, DeleteDomain

LEMMA LoudVisits ==
    ASSUME DomainOK, DomainAssumption, StreamsAssumption, NEW p \in Visits,
           LeaveSettings(p) \/ ReplyArrives(p) \/ Minimise(p)
    PROVE  DomainMoves
<1>1. /\ DomainTypes /\ HubOK /\ visit \in [Visits -> VisitState] /\ visit[p] \in VisitState
      /\ visit[p].asking \in Domains \union {Nobody}
      /\ visit[p].verifying \in Domains \union {Nobody}
  BY VisitFacts
<1>2. CASE LeaveSettings(p)
  <2>1. [ClosedVisit EXCEPT !.list = visit[p].list] \in VisitState
    BY <1>1 DEF ClosedVisit, VisitType, VisitState
  <2>2. visit' \in [Visits -> VisitState]  BY <1>1, <1>2, <2>1 DEF LeaveSettings
  <2>3. Reads(Domains, p)  BY <1>1, <1>2, RedialMoves DEF LeaveSettings
  <2> QED  BY <1>1, <1>2, <2>2, <2>3, VisitTypes, ReadingMoves DEF LeaveSettings
<1>3. CASE ReplyArrives(p)
  <2> DEFINE settled == [visit[p] EXCEPT !.asking = Nobody, !.reply = "none"]
             following == [settled EXCEPT !.verifying = visit[p].asking, !.state = "following",
                                          !.heard = {}]
  <2>1. settled \in VisitState  BY <1>1 DEF VisitType, VisitState
  <2>2. following \in VisitState  BY <1>1 DEF VisitType, VisitState
  <2>3. \/ Redial(p, visit[p].verifying, visit[p].asking) /\ Rerender(p, following) /\ Elsewhere
        \/ Rerender(p, settled) /\ Elsewhere /\ UNCHANGED hubVars
    BY <1>3 DEF ReplyArrives
  <2> HIDE DEF settled, following
  <2>4. CASE Redial(p, visit[p].verifying, visit[p].asking) /\ Rerender(p, following) /\ Elsewhere
    <3>1. visit' \in [Visits -> VisitState]  BY <1>1, <2>2, <2>4, RerenderType
    <3>2. Reads(Domains, p)  BY <1>1, <2>4, RedialMoves
    <3> QED  BY <1>1, <2>4, <3>1, <3>2, VisitTypes, ReadingMoves
  <2>5. CASE Rerender(p, settled) /\ Elsewhere /\ UNCHANGED hubVars
    <3>1. visit' \in [Visits -> VisitState]  BY <1>1, <2>1, <2>5, RerenderType
    <3> QED  BY <1>1, <2>5, <3>1, VisitTypes, UnmovedMoves
  <2> QED  BY <2>3, <2>4, <2>5
<1>4. CASE Minimise(p)
  <2>1. [visit[p] EXCEPT !.verifying = Nobody] \in VisitState  BY <1>1 DEF VisitType, VisitState
  <2>2. visit' \in [Visits -> VisitState]
    BY <1>1, <1>4, <2>1, RerenderType DEF Minimise
  <2>3. Reads(Domains, p)  BY <1>1, <1>4, RedialMoves DEF Minimise
  <2> QED  BY <1>1, <1>4, <2>2, <2>3, VisitTypes, ReadingMoves DEF Minimise
<1> QED  BY <1>2, <1>3, <1>4

\* A socket of a page is heard, or lost.
LEMMA SocketVisits ==
    ASSUME DomainOK, DomainAssumption, StreamsAssumption, NEW p \in Visits, NEW d \in Domains,
           HearEvent(p, d) \/ SocketFails(p, d)
    PROVE  DomainMoves
<1>1. /\ DomainTypes /\ HubOK /\ visit \in [Visits -> VisitState] /\ visit[p] \in VisitState
      /\ d \in Topics /\ p \in Viewers /\ HubShape
  BY VisitFacts DEF DomainAssumption, HubOK
<1>2. conn[d][p] \in ConnStates /\ channel[d][p] \in Seq(Event)
  BY <1>1 DEF HubShape, DomainOK, EventsOK, Carries
<1>4. ASSUME NEW x \in ConnStates, x \in {"open", "closing"} <=> conn[d][p] \in {"open", "closing"},
             x = "open" => conn[d][p] = "open", conn' = Moved(d, p, x),
             UNCHANGED <<subscribers, buffer, capacity, hubHistory>>,
             channel' = channel \/ Takes(d, p)
      PROVE  Reads(Domains, p)
  BY <1>1, <1>4, MovedReads
<1>5. CASE HearEvent(p, d)
  <2> DEFINE line == Head(channel[d][p])
             done == line.text \in Verdicts
             told == [visit[p] EXCEPT !.state = line.text, !.heard = {line}, !.owed = TRUE]
  <2>1. /\ Takes(d, p) /\ UNCHANGED <<subscribers, buffer, capacity, hubHistory>>
        /\ Elsewhere /\ conn' = IF done THEN [conn EXCEPT ![d][p] = HungUp(@)] ELSE conn
        /\ Rerender(p, IF done THEN told ELSE visit[p])
    BY <1>5 DEF HearEvent, Takes
  <2>2. line \in Event  BY <1>2, <2>1, LinesOfTail DEF Takes
  <2>3. done => told \in VisitState
    <3> HIDE DEF line
    <3> QED  BY <1>1, <2>2 DEF VisitType, VisitState
  <2> HIDE DEF told, line, done
  <2>4. visit' \in [Visits -> VisitState]  BY <1>1, <2>1, <2>3, RerenderType
  <2>5. CASE done
    <3> DEFINE x == HungUp(conn[d][p])
    <3>1. x \in ConnStates /\ (x \in {"open", "closing"} <=> conn[d][p] \in {"open", "closing"})
          /\ x # "open" /\ conn' = Moved(d, p, x)
      BY <1>2, <2>1, <2>5, HungUpState DEF Moved
    <3> HIDE DEF x
    <3>2. Reads(Domains, p)  BY <1>4, <2>1, <3>1
    <3> QED  BY <1>1, <2>1, <2>4, <3>2, VisitTypes, ReadingMoves
  <2>6. CASE ~done
    <3>1. conn' = Moved(d, p, conn[d][p])  BY <1>1, <2>1, <2>6 DEF Moved, HubShape
    <3>2. Reads(Domains, p)  BY <1>2, <1>4, <2>1, <3>1
    <3> QED  BY <1>1, <2>1, <2>4, <3>2, VisitTypes, ReadingMoves
  <2> QED  BY <2>5, <2>6
<1>6. CASE SocketFails(p, d)
  <2> DEFINE x == IF conn[d][p] = "open" THEN "closing" ELSE "none"
             lost == [visit[p] EXCEPT !.state = "error", !.owed = TRUE]
  <2>1. /\ conn[d][p] \in {"open", "dialling"} /\ conn' = Moved(d, p, x)
        /\ UNCHANGED <<subscribers, buffer, capacity, hubHistory>> /\ channel' = channel
        /\ Elsewhere /\ (Rerender(p, lost) \/ UNCHANGED visit)
    BY <1>6 DEF SocketFails, Moved
  <2>2. x \in ConnStates /\ (x \in {"open", "closing"} <=> conn[d][p] \in {"open", "closing"})
        /\ x # "open"
    BY <2>1 DEF ConnStates
  <2>3. lost \in VisitState  BY <1>1 DEF VisitType, VisitState, Verdicts
  <2> HIDE DEF x, lost
  <2>4. visit' \in [Visits -> VisitState]  BY <1>1, <2>1, <2>3, RerenderType
  <2>5. Reads(Domains, p)  BY <1>4, <2>1, <2>2
  <2> QED  BY <1>1, <2>1, <2>4, <2>5, VisitTypes, ReadingMoves
<1> QED  BY <1>5, <1>6

LEMMA SocketsOK ==
    ASSUME DomainOK, DomainAssumption, StreamsAssumption, Sockets, UNCHANGED domainVars
    PROVE  DomainMoves
<1>1. PICK d \in Domains, p \in Visits : Subscribe(d, p) \/ Unsubscribe(d, p) \/ Refuse(d, p)
  BY DEF Sockets
<1>2. d \in Topics /\ p \in Viewers /\ HubOK /\ \A e \in Domains : e \in Topics
  BY DEF DomainAssumption, DomainOK
<1>3. Moves(Domains)  BY <1>1, <1>2, HandlerStep
<1>4. EventsOK'  BY <1>1, <1>2, HandlerCarries DEF DomainOK, EventsOK
<1>5. DomainTypes'  BY DEF DomainOK, DomainTypes, domainVars
<1> QED  BY <1>3, <1>4, <1>5 DEF DomainMoves

LEMMA DomainStepOK ==
    ASSUME DomainOK, DomainAssumption, StreamsAssumption, DomainNext
    PROVE  DomainMoves
<1>1. ASSUME NEW d \in Domains, VerifyElsewhere(d)
      PROVE  DomainMoves
  <2>1. DomainTypes /\ visit' \in [Visits -> VisitState]
    BY <1>1 DEF DomainOK, DomainTypes, VerifyElsewhere
  <2> QED  BY <1>1, <2>1, AcceptedTypes, UnmovedMoves DEF VerifyElsewhere
<1> QED  BY <1>1, VerificationOK, QuietVisits, LoudVisits, SocketVisits, SocketsOK
         DEF DomainNext, Visiting

-----------------------------------------------------------------------------
(* Types.                                                                  *)

StreamOK == LogOK /\ EventsOK /\ DomainTypes

LEMMA InitOK ==
    ASSUME Init, StreamsAssumption, DomainAssumption
    PROVE  StreamOK
<1>1. <<>> \in Seq(Message) /\ Len(<<>>) = 0 /\ \A L : <<>> \in Seq(L)  BY EmptySeq
<1>2. HubOK
  <2>1. HubShape  BY <1>1 DEF Init, HubInit, HubShape, ConnStates
  <2>2. \A t \in Topics : Bounded(t) /\ Replayed(t)
    <3>1. \A t \in Topics : buffer[t] = <<>> /\ published[t] = {}  BY DEF Init, HubInit
    <3>2. Len(<<>>) <= MaxBuffered  BY <1>1
    <3> QED  BY <3>1, <3>2 DEF Bounded, Replayed
  <2>3. \A t \in Topics, v \in Viewers : Subscribed(t, v)
    BY <1>1 DEF Init, HubInit, Subscribed
  <2> QED  BY <2>1, <2>2, <2>3 DEF HubOK
<1>3. \A t \in Topics : \A L : Carries(t, L)
  BY <1>1 DEF Init, HubInit, Carries
<1>4. LinesOK /\ EventsOK  BY <1>3 DEF LinesOK, EventsOK, DomainAssumption
<1>5. BuildOK
  <2>1. Idle \in Doing /\ Idle.pc = "idle"  BY DEF Idle, Writing, Doing
  <2>2. BuildTypes  BY <2>1 DEF Init, LogInit, BuildTypes, Active
  <2>3. \A d \in Deployments : rows[d] = {} /\ logLineNum[d] = 0 /\ emitted[d] = 0
          /\ (\A w \in Writers : writer[d][w] = Idle) /\ ImageLines[d] \in Nat
    BY DEF Init, LogInit
  <2>4. \A d \in Deployments : Counted(d)  BY <2>1, <2>3 DEF Counted
  <2>5. \A d \in Deployments : RowsOK(d)  BY <2>3, FS_EmptySet DEF RowsOK
  <2> QED  BY <2>2, <2>4, <2>5 DEF BuildOK
<1>6. PagesOK
  <2>1. ASSUME NEW p \in Pages
        PROVE  /\ page[p] \in PageType /\ page[p].stream = <<>> /\ page[p].view = None
               /\ \A d \in Deployments : page[p].history[d] = {}
    BY <1>1 DEF Init, LogInit, PageType
  <2>2. page \in [Pages -> PageType]  BY <2>1 DEF Init, LogInit
  <2>3. Distinct(<<>>)
    <3>1. \A i \in DOMAIN <<>> : FALSE  OBVIOUS
    <3> QED  BY <3>1 DEF Distinct
  <2>4. ASSUME NEW p \in Pages
        PROVE  ViewOK(page[p])
    <3>1. page[p].stream = <<>> /\ <<>> \in Seq(AnyLine)  BY <2>1, EmptySeq
    <3>2. page[p].stream \in Seq(AnyLine) /\ Distinct(page[p].stream)  BY <2>3, <3>1
    <3>3. \A d \in Deployments : page[p].history[d] \subseteq rows[d]  BY <2>1
    <3> QED  BY <3>1, <3>2, <3>3 DEF ViewOK
  <2>5. \A p \in Pages : Linked(p)  BY DEF Linked, Init, HubInit
  <2> QED  BY <2>2, <2>4, <2>5 DEF PagesOK
<1>7. CallsOK
  <2>1. NoCall \in CallType /\ NoCall.pc = "idle" /\ NoCall.d = None /\ NoCall.history = {}
    BY <1>1 DEF NoCall, CallType, TailKinds
  <2>2. tail \in [Tails -> CallType] /\ \A c \in Tails : tail[c] = NoCall
    BY <2>1 DEF Init, LogInit
  <2>3. CallOK(NoCall)  BY <2>1, FS_EmptySet DEF CallOK
  <2> QED  BY <2>2, <2>3 DEF CallsOK
<1>8. DomainTypes
  <2>1. ClosedVisit \in VisitState  BY DEF ClosedVisit, VisitState, VisitType
  <2>2. NoRun \in RunType /\ NoRun.pc = "idle" /\ NoRun.d = Nobody
    BY DEF NoRun, RunType, Verdicts
  <2>3. 0 \in 0..MaxSessions  BY DEF DomainAssumption
  <2> QED  BY <2>1, <2>2, <2>3 DEF Init, DomainInit, DomainTypes, RowType
<1> QED  BY <1>2, <1>4, <1>5, <1>6, <1>7, <1>8 DEF StreamOK, LogOK

\* Each kind of step leaves the topics of the other kind alone.
LEMMA StreamStep ==
    ASSUME StreamOK, StreamsAssumption, DomainAssumption, [Next]_vars
    PROVE  StreamOK'
<1>1. Deployments \in SUBSET Topics /\ Domains \in SUBSET Topics /\ HubOK
  BY DEF DomainAssumption, StreamOK, LogOK
<1>2. CASE BuildStep
  <2>1. LogOK' /\ Moves(Deployments)  BY <1>2, LogStep DEF BuildStep, StreamOK
  <2>2. ASSUME NEW d \in Domains
        PROVE  Carries(d, Event)'
    <3>1. d \in Topics /\ d \notin Deployments /\ Carries(d, Event)
      BY <1>1 DEF StreamsAssumption, StreamOK, EventsOK
    <3> QED  BY <1>1, <2>1, <3>1, MovesCarries
  <2>3. DomainTypes'
    <3>1. UNCHANGED <<row, verifying, run, sessions, visit>>  BY <1>2 DEF BuildStep, domainVars
    <3> QED  BY <3>1 DEF StreamOK, DomainTypes
  <2> QED  BY <2>1, <2>2, <2>3 DEF StreamOK, EventsOK
<1>3. CASE DomainStep(DomainNext)
  <2>1. DomainNext /\ UNCHANGED logVars  BY <1>3 DEF DomainStep
  <2>2. DomainMoves  BY <2>1, DomainStepOK DEF DomainOK, StreamOK, LogOK
  <2>3. HubOK'  BY <1>1, <2>2, MovesHub DEF DomainMoves
  <2>4. ASSUME NEW d \in Deployments
        PROVE  Carries(d, OwnLine(d))'
    <3>1. d \in Topics /\ d \notin Domains /\ Carries(d, OwnLine(d))
      BY <1>1 DEF StreamsAssumption, StreamOK, LogOK, LinesOK
    <3>2. Moves(Domains)  BY <2>2 DEF DomainMoves
    <3> QED  BY <1>1, <3>1, <3>2, MovesCarries
  <2>5. LinesOK'  BY <2>4 DEF LinesOK
  <2>6. \A d \in Deployments, p \in Pages :
          conn'[d][p] \in {"open", "dialling"} => conn[d][p] \in {"open", "dialling"}
    <3>1. Moves(Domains)  BY <2>2 DEF DomainMoves
    <3>2. \A d \in Deployments : d \in Topics /\ d \notin Domains  BY DEF StreamsAssumption
    <3> QED  BY <1>1, <3>1, <3>2, MovesApart
  <2>7. LogOK'  BY <2>1, <2>3, <2>5, <2>6, OnlyHub DEF StreamOK
  <2> QED  BY <2>2, <2>7 DEF StreamOK, DomainMoves
<1>4. CASE UNCHANGED vars
  <2>1. UNCHANGED logVars /\ UNCHANGED hubVars
        /\ UNCHANGED <<row, verifying, run, sessions, visit>>
    BY <1>4 DEF vars, domainVars
  <2>2. /\ UNCHANGED <<subscribers, buffer, channel, capacity, conn>>
        /\ UNCHANGED <<published, forgotten, withheld>>
    BY <2>1 DEF hubVars
  <2>3. HubOK'  BY <1>1, <2>2 DEF HubOK, HubShape, Bounded, Replayed, Subscribed
  <2>4. LinesOK' /\ EventsOK'  BY <2>2 DEF StreamOK, LogOK, LinesOK, EventsOK, Carries
  <2>5. LogOK'  BY <2>1, <2>2, <2>3, <2>4, OnlyHub DEF StreamOK
  <2>6. DomainTypes'  BY <2>1 DEF StreamOK, DomainTypes
  <2> QED  BY <2>4, <2>5, <2>6 DEF StreamOK
<1> QED  BY <1>2, <1>3, <1>4 DEF Next

LEMMA SeqSubset ==
    ASSUME NEW S, NEW T, S \subseteq T, NEW s \in Seq(S)
    PROVE  s \in Seq(T)
<1>1. Len(s) \in Nat /\ s \in [1..Len(s) -> S]  BY LenProperties, ElementOfSeq
<1>2. s \in [1..Len(s) -> T]  BY <1>1
<1> QED  BY <1>1, <1>2, SeqDef

LEMMA HubTypes ==
    ASSUME HubOK, NEW ts \in SUBSET Topics, NEW Kind, \A t \in ts : Carries(t, Kind)
    PROVE  HubTypeOK(ts, Kind)
<1>1. HubShape /\ \A t \in ts : Bounded(t) /\ \A v \in Viewers : Subscribed(t, v)
  BY DEF HubOK
<1>2. \A t \in ts : buffer[t] \in Seq(Kind) /\ Len(buffer[t]) <= MaxBuffered
  BY <1>1 DEF Carries, Bounded
<1>3. ASSUME NEW t \in ts, NEW v \in Viewers
      PROVE  /\ channel[t][v] \in Seq(Kind)
             /\ Len(channel[t][v]) <= capacity[t][v]
             /\ (conn[t][v] \in {"open", "closing"}) = (v \in subscribers[t])
  <2>1. (conn[t][v] \in {"open", "closing"}) <=> (v \in subscribers[t])
    BY <1>1 DEF Subscribed
  <2>2. (conn[t][v] \in {"open", "closing"}) = (v \in subscribers[t])  BY <2>1
  <2> QED  BY <1>1, <2>2 DEF Carries, Subscribed
<1> QED  BY <1>1, <1>2, <1>3 DEF HubShape, HubTypeOK

LEMMA StreamTypes ==
    ASSUME StreamOK, DomainAssumption
    PROVE  TypeOK
<1>1. HubTypeOK(Deployments, Line)
  <2>1. ASSUME NEW d \in Deployments
        PROVE  Carries(d, Line)
    <3>1. Carries(d, OwnLine(d))  BY DEF StreamOK, LogOK, LinesOK
    <3> QED  BY <3>1, OwnLineIsLine, SeqSubset DEF Carries
  <2> QED  BY <2>1, HubTypes DEF StreamOK, LogOK
<1>2. HubTypeOK(Domains, Event)
  BY HubTypes DEF StreamOK, LogOK, EventsOK, DomainAssumption
<1>3. LogTypeOK
  BY <1>1 DEF StreamOK, LogOK, BuildOK, BuildTypes, Doing, PagesOK, CallsOK, LogTypeOK
<1>4. visit \in [Visits -> VisitType]  BY DEF StreamOK, DomainTypes, VisitState
<1>5. (verifying = Nobody) = (run.pc = "idle")  BY DEF StreamOK, DomainTypes
<1>6. DomainTypeOK
  BY <1>2, <1>4, <1>5 DEF StreamOK, DomainTypes, DomainTypeOK, RowType, RunType, VisitType
<1> QED  BY <1>3, <1>6 DEF TypeOK

LEMMA StreamInv ==
    ASSUME StreamsAssumption, DomainAssumption
    PROVE  Spec => []StreamOK
<1>1. Init => StreamOK  BY InitOK
<1>2. StreamOK /\ [Next]_vars => StreamOK'  BY StreamStep
<1> QED  BY <1>1, <1>2, PTL DEF Spec

(* Every variable of the hub, of the builds, of the pages and tool calls   *)
(* and of the verifications keeps its type: the replay buffer and every    *)
(* channel stay within their bounds, a topic carries nothing but its own   *)
(* kind of messages (hub.go), and the entry of a verification is held      *)
(* exactly while its goroutine runs (domains.go: Verify, Update).          *)
THEOREM TypesCorrect == Spec => []TypeOK
<1>1. StreamsAssumption /\ DomainAssumption  BY StreamsAssumption, DomainAssumption
<1>2. StreamOK => TypeOK  BY <1>1, StreamTypes
<1>3. Spec => []StreamOK  BY <1>1, StreamInv
<1> QED  BY <1>2, <1>3, PTL

-----------------------------------------------------------------------------
(* A failed build.  The text of a line is its place among the lines that   *)
(* were begun: each is stored once, or is still in the hands of the        *)
(* goroutine that began it; and nothing is written once the status is.     *)

Pending(d) == {w \in Writers : writer[d][w].pc \in {"read", "numbered"}}
Begun(d) == {writer[d][w].text : w \in Pending(d)}
Texts(lines) == {l.text : l \in lines}

EachOnce(d) ==
    /\ \A l, m \in rows[d] : l.text = m.text => l = m
    /\ \A w \in Pending(d) : writer[d][w].text \notin Texts(rows[d])
    /\ \A w, x \in Pending(d) : writer[d][w].text = writer[d][x].text => w = x
    /\ Texts(rows[d]) \union Begun(d) = 1..emitted[d]

Settled(d) == status[d] = "failed" => phase[d] = "ended" /\ Quiet(d)

\* A tool that saw the failure sees the rows that are there for good.
Told(call) ==
    \A d \in Deployments : call.d = d =>
        /\ call.status = "failed" \/ call.basis = "failed" => status[d] = "failed"
        /\ call.answered /\ call.basis = "failed" => call.history = rows[d]

FailedOK ==
    /\ \A d \in Deployments : EachOnce(d) /\ Settled(d)
    /\ \A c \in Tails : Told(tail[c])

\* What EachOnce(d) depends on.
LEMMA OnceKept ==
    ASSUME NEW d \in Deployments, EachOnce(d), rows'[d] = rows[d], emitted'[d] = emitted[d],
           \A w \in Writers : /\ writer'[d][w].text = writer[d][w].text \/ w \notin Pending(d)
                              /\ w \in Pending(d)' <=> w \in Pending(d)
    PROVE  EachOnce(d)'
<1>1. Pending(d)' = Pending(d)  BY DEF Pending
<1>2. \A w \in Pending(d) : writer'[d][w].text = writer[d][w].text  BY DEF Pending
<1>3. Begun(d)' = Begun(d)  BY <1>1, <1>2 DEF Begun
<1> QED  BY <1>1, <1>2, <1>3 DEF EachOnce

LEMMA BeginOnce ==
    ASSUME BuildTypes, NEW d \in Deployments, NEW w \in Writers, writer[d][w].pc = "idle",
           writer' = [writer EXCEPT ![d][w] = Begin(d, w)],
           emitted' = [emitted EXCEPT ![d] = @ + 1], rows' = rows,
           \A e \in Deployments : EachOnce(e)
    PROVE  \A e \in Deployments : EachOnce(e)'
<1> DEFINE n == emitted[d]
<1>1. n \in Nat /\ EachOnce(d) /\ emitted'[d] = n + 1  BY DEF BuildTypes
<1>2. /\ writer'[d][w].pc = "read" /\ writer'[d][w].text = n + 1
      /\ \A x \in Writers \ {w} : writer'[d][x] = writer[d][x]
  BY DEF BuildTypes, Begin, Writing
<1>3. w \notin Pending(d) /\ Pending(d)' = Pending(d) \union {w}
  BY <1>2 DEF Pending
<1>4. Begun(d)' = Begun(d) \union {n + 1}
  <2>1. \A x \in Pending(d) : x \in Writers \ {w}  BY <1>3 DEF Pending
  <2> QED  BY <1>2, <1>3, <2>1 DEF Begun
<1>5. \A k \in Texts(rows[d]) \union Begun(d) : k # n + 1
  BY <1>1 DEF EachOnce
<1>6. 1..(n + 1) = (1..n) \union {n + 1}  BY <1>1
<1>7. EachOnce(d)'
  <2>1. \A x \in Pending(d) : writer'[d][x].text = writer[d][x].text /\ writer[d][x].text # n + 1
    BY <1>2, <1>3, <1>5 DEF Pending, Begun
  <2>2. n + 1 \notin Texts(rows[d])  BY <1>5
  <2>3. \A l, m \in rows'[d] : l.text = m.text => l = m  BY <1>1 DEF EachOnce
  <2>4. \A x \in Pending(d)' : writer'[d][x].text \notin Texts(rows'[d])
    BY <1>1, <1>2, <1>3, <2>1, <2>2 DEF EachOnce
  <2>5. \A x, y \in Pending(d)' : writer'[d][x].text = writer'[d][y].text => x = y
    BY <1>1, <1>2, <1>3, <2>1 DEF EachOnce
  <2>6. Texts(rows'[d]) \union Begun(d)' = 1..emitted'[d]
    BY <1>1, <1>4, <1>6 DEF EachOnce
  <2> QED  BY <2>3, <2>4, <2>5, <2>6 DEF EachOnce
<1>8. ASSUME NEW e \in Deployments, e # d
      PROVE  EachOnce(e)'
  <2>1. writer'[e] = writer[e] /\ emitted'[e] = emitted[e]  BY <1>8 DEF BuildTypes
  <2> QED  BY <2>1 DEF EachOnce, Pending, Begun
<1> QED  BY <1>7, <1>8

LEMMA InsertOnce ==
    ASSUME BuildTypes, NEW d \in Deployments, NEW w \in Writers, InsertLine(d, w), EachOnce(d)
    PROVE  EachOnce(d)'
<1> DEFINE line == [topic |-> d, n |-> logLineNum[d], text |-> writer[d][w].text]
<1>1. line.text = writer[d][w].text  OBVIOUS
<1>2. rows'[d] = rows[d] \union {line}  BY DEF BuildTypes, InsertLine
<1> HIDE DEF line
<1>3. /\ w \in Pending(d) /\ writer'[d][w].pc = "stored"
      /\ \A x \in Writers \ {w} : writer'[d][x] = writer[d][x]
  BY DEF BuildTypes, Doing, InsertLine, Pending
<1>4. Pending(d)' = Pending(d) \ {w}  BY <1>3 DEF Pending
<1>5. \A x \in Pending(d)' : x \in Pending(d) /\ x # w /\ writer'[d][x].text = writer[d][x].text
  BY <1>3, <1>4 DEF Pending
<1>6. Texts(rows'[d]) = Texts(rows[d]) \union {writer[d][w].text}
  BY <1>1, <1>2 DEF Texts
<1>7. Begun(d) = Begun(d)' \union {writer[d][w].text}
  BY <1>3, <1>4, <1>5 DEF Begun
<1>8. \A l \in rows[d] : l.text # writer[d][w].text  BY <1>3 DEF EachOnce, Texts
<1>9. \A l, m \in rows'[d] : l.text = m.text => l = m
  BY <1>1, <1>2, <1>8 DEF EachOnce
<1>10. \A x \in Pending(d)' : writer'[d][x].text \notin Texts(rows'[d])
  BY <1>3, <1>5, <1>6 DEF EachOnce
<1>11. \A x, y \in Pending(d)' : writer'[d][x].text = writer'[d][y].text => x = y
  BY <1>5 DEF EachOnce
<1>12. emitted' = emitted  BY DEF InsertLine
<1>13. Texts(rows'[d]) \union Begun(d)' = 1..emitted'[d]
  BY <1>6, <1>7, <1>12 DEF EachOnce
<1> QED  BY <1>9, <1>10, <1>11, <1>13 DEF EachOnce

LEMMA PipelineOnce ==
    ASSUME BuildTypes, NEW d \in Deployments, Pipeline(d), \A e \in Deployments : EachOnce(e)
    PROVE  \A e \in Deployments : EachOnce(e)'
<1>1. Main \in Writers  BY DEF Writers
<1>2. ASSUME NEW w \in Writers, ScanLine(d, w)
      PROVE  \A e \in Deployments : EachOnce(e)'
  BY <1>2, BeginOnce DEF ScanLine
<1>3. CASE BuildFails(d)
  BY <1>1, <1>3, BeginOnce DEF BuildFails, Quiet
<1>4. CASE WriteLive(d)
  BY <1>1, <1>4, BeginOnce DEF WriteLive, Quiet
<1>5. CASE WriteFailed(d)
  BY <1>5 DEF WriteFailed, EachOnce, Pending, Begun
<1>6. ASSUME NEW w \in Writers, Number(d, w)
      PROVE  \A e \in Deployments : EachOnce(e)'
  <2>1. \A e \in Deployments, x \in Writers :
          /\ writer'[e][x].text = writer[e][x].text
          /\ x \in Pending(e)' <=> x \in Pending(e)
    BY <1>6 DEF BuildTypes, Doing, Number, Pending
  <2>2. rows' = rows /\ emitted' = emitted  BY <1>6 DEF Number
  <2> QED  BY <2>1, <2>2, OnceKept
<1>7. ASSUME NEW w \in Writers, PublishLine(d, w)
      PROVE  \A e \in Deployments : EachOnce(e)'
  <2>1. Idle.pc = "idle"  BY DEF Idle, Writing
  <2>2. \A e \in Deployments, x \in Writers :
          /\ writer'[e][x].text = writer[e][x].text \/ x \notin Pending(e)
          /\ x \in Pending(e)' <=> x \in Pending(e)
    BY <1>7, <2>1 DEF BuildTypes, PublishLine, Pending
  <2>3. rows' = rows /\ emitted' = emitted  BY <1>7 DEF PublishLine
  <2> QED  BY <2>2, <2>3, OnceKept
<1>8. ASSUME NEW w \in Writers, InsertLine(d, w)
      PROVE  \A e \in Deployments : EachOnce(e)'
  <2>1. EachOnce(d)'  BY <1>8, InsertOnce
  <2>2. ASSUME NEW e \in Deployments, e # d
        PROVE  EachOnce(e)'
    <3>1. writer'[e] = writer[e] /\ rows'[e] = rows[e] /\ emitted' = emitted
      BY <1>8, <2>2 DEF BuildTypes, InsertLine
    <3> QED  BY <3>1 DEF EachOnce, Pending, Begun
  <2> QED  BY <2>1, <2>2
<1> QED  BY <1>2, <1>3, <1>4, <1>5, <1>6, <1>7, <1>8 DEF Pipeline

\* A build whose failure is written is over.
LEMMA Frozen ==
    ASSUME BuildTypes, NEW d \in Deployments, Pipeline(d), \A e \in Deployments : Settled(e)
    PROVE  \A e \in Deployments :
             /\ Settled(e)'
             /\ status[e] = "failed" => status'[e] = "failed" /\ rows'[e] = rows[e]
<1>1. ASSUME status[d] = "failed"
      PROVE  FALSE
  <2>1. phase[d] = "ended" /\ \A w \in Writers : writer[d][w].pc = "idle"
    BY <1>1 DEF Settled, Quiet
  <2> QED  BY <2>1 DEF Pipeline, ScanLine, Number, InsertLine, PublishLine, BuildFails,
                       WriteFailed, WriteLive
<1>2. \A e \in Deployments : e # d =>
        /\ status'[e] = status[e] /\ phase'[e] = phase[e] /\ rows'[e] = rows[e]
        /\ writer'[e] = writer[e]
  BY DEF BuildTypes, Pipeline, ScanLine, Number, InsertLine, PublishLine, BuildFails,
         WriteFailed, WriteLive
<1>3. status'[d] = "failed" => phase'[d] = "ended" /\ Quiet(d)'
  <2>1. CASE WriteFailed(d)
    BY <2>1 DEF BuildTypes, WriteFailed, Quiet
  <2>2. CASE ~WriteFailed(d)
    <3>1. status'[d] \in {status[d], "live"}
      BY <2>2 DEF BuildTypes, Pipeline, ScanLine, Number, InsertLine, PublishLine, BuildFails,
                  WriteLive
    <3> QED  BY <1>1, <3>1
  <2> QED  BY <2>1, <2>2
<1> QED  BY <1>1, <1>2, <1>3 DEF Settled, Quiet

Becomes(c, call) == tail' = [tail EXCEPT ![c] = call]

LEMMA ToldKept ==
    ASSUME CallsOK, NEW c \in Tails, NEW call, Becomes(c, call), Told(call),
           \A b \in Tails : Told(tail[b]), UNCHANGED <<rows, status>>
    PROVE  \A b \in Tails : Told(tail[b])'
<1>1. \A b \in Tails : tail'[b] = IF b = c THEN call ELSE tail[b]  BY DEF CallsOK, Becomes
<1> QED  BY <1>1 DEF Told

\* A call that goes on knows what it knew.
LEMMA GoesOnTold ==
    ASSUME NEW call, Told(call), NEW next, next.d = call.d,
           next.history = call.history, next.answered = call.answered, next.basis = call.basis,
           \/ next.status = call.status
           \/ \A d \in Deployments : call.d = d => next.status = status[d]
    PROVE  Told(next)
BY DEF Told

LEMMA ReadLogsTold ==
    ASSUME LogOK, NEW c \in Tails, ReadLogs(c), \A b \in Tails : Told(tail[b])
    PROVE  \E call : Becomes(c, call) /\ Told(call)
<1> DEFINE d == tail[c].d
           got(ok) == IF ok THEN rows[d] ELSE tail[c].history
           heard(ok) == [tail[c] EXCEPT !.history = got(ok), !.answered = ok,
                           !.basis = tail[c].status, !.highest = Max({0} \union Numbers(got(ok)))]
           live(ok) == [heard(ok) EXCEPT !.pc = "live"]
           other(ok) == [heard(ok) EXCEPT !.pc =
                           IF tail[c].kind = "follow" /\ ~(tail[c].status \in Terminal)
                           THEN "asleep" ELSE "done"]
<1>1. PICK ok \in BOOLEAN :
        Becomes(c, other(ok)) \/ Becomes(c, live(ok))
  BY DEF ReadLogs, Ask, Becomes
<1>2. tail[c] \in CallType /\ Told(tail[c])  BY CallFacts
<1>3. /\ heard(ok).d = d /\ heard(ok).history = got(ok) /\ heard(ok).answered = ok
      /\ heard(ok).basis = tail[c].status /\ heard(ok).status = tail[c].status
      /\ heard(ok) = [heard(ok) EXCEPT !.pc = heard(ok).pc]
  BY <1>2 DEF CallType
<1> HIDE DEF heard
<1>4. ASSUME NEW x
      PROVE  LET call == [heard(ok) EXCEPT !.pc = x] IN
             /\ call.d = d /\ call.history = got(ok) /\ call.answered = ok
             /\ call.basis = tail[c].status /\ call.status = tail[c].status
  BY <1>2, <1>3 DEF CallType, heard
<1>5. /\ live(ok).d = d /\ live(ok).history = got(ok) /\ live(ok).answered = ok
      /\ live(ok).basis = tail[c].status /\ live(ok).status = tail[c].status
  BY <1>4
<1>6. /\ other(ok).d = d /\ other(ok).history = got(ok) /\ other(ok).answered = ok
      /\ other(ok).basis = tail[c].status /\ other(ok).status = tail[c].status
  BY <1>4
<1> HIDE DEF live, other
<1>7. ok => got(ok) = rows[d]  OBVIOUS
<1> HIDE DEF got
<1>8. Told(live(ok)) /\ Told(other(ok))
  BY <1>2, <1>5, <1>6, <1>7 DEF Told
<1> QED  BY <1>1, <1>8

LEMMA TailingTold ==
    ASSUME LogOK, StreamsAssumption, NEW c \in Tails, Tailing(c), \A b \in Tails : Told(tail[b])
    PROVE  \A b \in Tails : Told(tail[b])'
<1>0. tail[c] \in CallType /\ Told(tail[c]) /\ CallsOK /\ tail = [tail EXCEPT ![c] = tail[c]]
  BY CallFacts DEF LogOK, CallsOK
<1>1. UNCHANGED <<rows, status>>
  BY DEF Tailing, ReadStatus, ReadLogs, PollAgain, GiveUp, PollStatus, TailReceives, TailEnds,
         Ask, UnchangedByTail
<1>6. SUFFICES \E call : Becomes(c, call) /\ Told(call)
  BY <1>0, <1>1, ToldKept
<1>2. ASSUME NEW d \in Deployments, NEW kind \in TailKinds, ReadStatus(c, d, kind)
      PROVE  \E call : Becomes(c, call) /\ Told(call)
  <2> DEFINE call == [NoCall EXCEPT !.kind = kind, !.pc = "logs", !.d = d, !.status = status[d]]
  <2>1. call.d = d /\ call.status = status[d] /\ call.basis = "unknown" /\ call.answered = FALSE
    BY DEF NoCall
  <2>2. Becomes(c, call)  BY <1>2 DEF ReadStatus, Ask, Becomes
  <2> HIDE DEF call
  <2>3. Told(call)  BY <2>1 DEF Told
  <2> QED  BY <2>2, <2>3
<1>3. CASE PollAgain(c) \/ PollStatus(c)
  <2> DEFINE next(x) == [tail[c] EXCEPT !.status = status[tail[c].d], !.pc = x]
  <2>1. Becomes(c, next("logs")) \/ Becomes(c, next("flush"))
    BY <1>3 DEF PollAgain, PollStatus, Ask, Becomes
  <2>2. \A x : /\ next(x).d = tail[c].d /\ next(x).history = tail[c].history
               /\ next(x).status = status[tail[c].d]
               /\ next(x).answered = tail[c].answered /\ next(x).basis = tail[c].basis
    BY <1>0 DEF CallType
  <2> HIDE DEF next
  <2>3. \A x : Told(next(x))  BY <1>0, <2>2, GoesOnTold
  <2> QED  BY <2>1, <2>3
<1>4. CASE GiveUp(c) \/ TailEnds(c)
  <2> DEFINE next == [tail[c] EXCEPT !.pc = "done"]
  <2>1. Becomes(c, next)  BY <1>4 DEF GiveUp, TailEnds, Finish, Ask, Becomes
  <2>2. /\ next.d = tail[c].d /\ next.history = tail[c].history
        /\ next.status = tail[c].status
        /\ next.answered = tail[c].answered /\ next.basis = tail[c].basis
    BY <1>0 DEF CallType
  <2> HIDE DEF next
  <2>3. Told(next)  BY <1>0, <2>2, GoesOnTold
  <2> QED  BY <2>1, <2>3
<1>5. CASE TailReceives(c)
  <2> DEFINE line == Head(channel[tail[c].d][c])
             cut == [[tail[c] EXCEPT !.truncated = TRUE] EXCEPT !.pc = "done"]
             more == [tail[c] EXCEPT !.lines = Append(@, line)]
  <2>1. Becomes(c, tail[c]) \/ Becomes(c, cut) \/ Becomes(c, more)
    BY <1>0, <1>5 DEF TailReceives, Finish, Becomes
  <2>2. /\ cut.d = tail[c].d /\ cut.history = tail[c].history /\ cut.status = tail[c].status
        /\ cut.answered = tail[c].answered /\ cut.basis = tail[c].basis
    BY <1>0 DEF CallType
  <2> HIDE DEF line
  <2>3. /\ more.d = tail[c].d /\ more.history = tail[c].history /\ more.status = tail[c].status
        /\ more.answered = tail[c].answered /\ more.basis = tail[c].basis
    BY <1>0 DEF CallType
  <2> HIDE DEF cut, more
  <2>4. Told(cut) /\ Told(more)  BY <1>0, <2>2, <2>3, GoesOnTold
  <2> QED  BY <1>0, <2>1, <2>4
<1> QED  BY <1>2, <1>3, <1>4, <1>5, ReadLogsTold DEF Tailing

LEMMA FailedStep ==
    ASSUME StreamOK, FailedOK, StreamsAssumption, [Next]_vars
    PROVE  FailedOK'
<1>1. LogOK /\ BuildTypes /\ \A c \in Tails : Told(tail[c])
  BY DEF StreamOK, LogOK, BuildOK, FailedOK
<1>2. ASSUME NEW d \in Deployments, Pipeline(d)
      PROVE  FailedOK'
  <2>1. \A e \in Deployments : EachOnce(e)'  BY <1>1, <1>2, PipelineOnce DEF FailedOK
  <2>2. \A e \in Deployments :
          /\ Settled(e)'
          /\ status[e] = "failed" => status'[e] = "failed" /\ rows'[e] = rows[e]
    BY <1>1, <1>2, Frozen DEF FailedOK
  <2>3. tail' = tail
    BY <1>2 DEF Pipeline, ScanLine, Number, InsertLine, PublishLine, BuildFails, WriteFailed,
                WriteLive
  <2>4. \A c \in Tails : Told(tail[c])'  BY <1>1, <2>2, <2>3 DEF Told
  <2> QED  BY <2>1, <2>2, <2>4 DEF FailedOK
<1>3. ASSUME UNCHANGED <<writer, emitted, rows, status>>,
             \/ phase' = phase
             \/ \E d \in Deployments :
                  phase[d] = "untriggered" /\ phase' = [phase EXCEPT ![d] = "image"]
      PROVE  \A e \in Deployments : EachOnce(e)' /\ Settled(e)'
  <2>1. \A e \in Deployments : EachOnce(e)'
    BY <1>3 DEF FailedOK, EachOnce, Pending, Begun
  <2>2. \A e \in Deployments : phase[e] = "ended" => phase'[e] = "ended"
    BY <1>1, <1>3 DEF BuildTypes
  <2>3. \A e \in Deployments : Settled(e)'  BY <1>3, <2>2 DEF FailedOK, Settled, Quiet
  <2> QED  BY <2>1, <2>3
<1>4. ASSUME NEW p \in Pages, Viewing(p)
      PROVE  FailedOK'
  <2>1. /\ UNCHANGED <<writer, emitted, rows, status, tail>>
        /\ \/ phase' = phase
           \/ \E d \in Deployments :
                phase[d] = "untriggered" /\ phase' = [phase EXCEPT ![d] = "image"]
    BY <1>4 DEF Viewing, OpenPage, LeavePage, DeployAndShow, FetchDeployment, FetchHistory,
                PageReceives, Render
  <2>2. \A c \in Tails : Told(tail[c])'  BY <1>1, <2>1 DEF Told
  <2> QED  BY <1>3, <2>1, <2>2 DEF FailedOK
<1>5. ASSUME NEW c \in Tails, Tailing(c)
      PROVE  FailedOK'
  <2>1. UNCHANGED <<writer, emitted, rows, status, phase>>
    BY <1>5 DEF Tailing, ReadStatus, ReadLogs, PollAgain, GiveUp, PollStatus, TailReceives,
                TailEnds, Ask, UnchangedByTail
  <2>2. \A b \in Tails : Told(tail[b])'  BY <1>1, <1>5, TailingTold
  <2> QED  BY <1>3, <2>1, <2>2 DEF FailedOK
<1>6. ASSUME UNCHANGED logVars
      PROVE  FailedOK'
  <2>1. UNCHANGED <<writer, emitted, rows, status, phase, tail>>  BY <1>6 DEF logVars
  <2>2. \A b \in Tails : Told(tail[b])'  BY <1>1, <2>1 DEF Told
  <2> QED  BY <1>3, <2>1, <2>2 DEF FailedOK
<1> QED
  <2>1. CASE BuildStep
    BY <1>2, <1>4, <1>5, <1>6, <2>1 DEF BuildStep, LogNext, Unmoved
  <2>2. CASE DomainStep(DomainNext) \/ UNCHANGED vars
    BY <1>6, <2>2 DEF DomainStep, vars
  <2> QED  BY <2>1, <2>2 DEF Next

LEMMA FailedInit ==
    ASSUME Init, StreamsAssumption
    PROVE  FailedOK
<1>1. ASSUME NEW d \in Deployments
      PROVE  EachOnce(d) /\ Settled(d)
  <2>1. /\ rows[d] = {} /\ emitted[d] = 0 /\ status[d] = "building"
        /\ \A w \in Writers : writer[d][w].pc = "idle"
    BY DEF Init, LogInit, Idle, Writing
  <2>2. Pending(d) = {} /\ Begun(d) = {} /\ Texts(rows[d]) = {}
    BY <2>1 DEF Pending, Begun, Texts
  <2> QED  BY <2>1, <2>2 DEF EachOnce, Settled
<1>2. ASSUME NEW c \in Tails
      PROVE  Told(tail[c])
  <2>1. tail[c].status = "unknown" /\ tail[c].basis = "unknown"
    BY DEF Init, LogInit, NoCall
  <2> QED  BY <2>1 DEF Told
<1> QED  BY <1>1, <1>2 DEF FailedOK

\* The rows of a build that is over are the lines that were begun.
LEMMA RowsAreLines ==
    ASSUME BuildOK, NEW d \in Deployments, EachOnce(d), Quiet(d)
    PROVE  Cardinality(rows[d]) = emitted[d]
<1> DEFINE f == [l \in rows[d] |-> l.text]
<1>1. emitted[d] \in Nat /\ IsFiniteSet(rows[d])  BY DEF BuildOK, BuildTypes, RowsOK
<1>2. Begun(d) = {}  BY DEF Quiet, Begun, Pending
<1>3. Texts(rows[d]) = 1..emitted[d]  BY <1>2 DEF EachOnce
<1>4. f \in Bijection(rows[d], 1..emitted[d])
  <2>1. f \in [rows[d] -> 1..emitted[d]]  BY <1>3 DEF Texts
  <2>2. \A l, m \in rows[d] : f[l] = f[m] => l = m  BY DEF EachOnce
  <2>3. \A k \in 1..emitted[d] : \E l \in rows[d] : f[l] = k  BY <1>3 DEF Texts
  <2> HIDE DEF f
  <2>4. f \in Injection(rows[d], 1..emitted[d])  BY <2>1, <2>2 DEF Injection, IsInjective
  <2>5. f \in Surjection(rows[d], 1..emitted[d])  BY <2>1, <2>3 DEF Surjection
  <2> QED  BY <2>4, <2>5 DEF Bijection
<1> HIDE DEF f
<1>5. ExistsBijection(rows[d], 1..emitted[d])  BY <1>4 DEF ExistsBijection
<1>6. Cardinality(1..emitted[d]) = emitted[d]
  <2>1. 1 \in Int /\ emitted[d] \in Int  BY <1>1
  <2>2. Cardinality(1..emitted[d]) = IF 1 > emitted[d] THEN 0 ELSE emitted[d] - 1 + 1
    BY <2>1, FS_Interval
  <2> QED  BY <1>1, <2>2
<1> QED  BY <1>1, <1>5, <1>6, FS_Bijection

(* What a log tool reports of a failed build is the whole log: whatever    *)
(* the number of scanners and however their lines are numbered, each line  *)
(* that was begun is stored once before fail() writes the status           *)
(* (pipeline.go), and the tools read the status before the log             *)
(* (workflows.ts).                                                         *)
THEOREM FailedLogs == Spec => []FailedLogIsComplete
<1>1. StreamsAssumption /\ DomainAssumption  BY StreamsAssumption, DomainAssumption
<1>2. Init => FailedOK  BY <1>1, FailedInit
<1>3. StreamOK /\ FailedOK /\ [Next]_vars => FailedOK'  BY <1>1, FailedStep
<1>4. StreamOK /\ FailedOK => FailedLogIsComplete
  <2>1. SUFFICES ASSUME StreamOK, FailedOK, NEW c \in Tails, tail[c].pc = "done",
                        tail[c].basis = "failed", tail[c].answered
                 PROVE  /\ tail[c].history = rows[tail[c].d]
                        /\ Cardinality(tail[c].history) = emitted[tail[c].d]
    BY DEF FailedLogIsComplete
  <2>2. tail[c].d \in Deployments  BY <2>1 DEF StreamOK, LogOK, CallsOK, CallOK
  <2>3. status[tail[c].d] = "failed" /\ tail[c].history = rows[tail[c].d]
    BY <2>1, <2>2 DEF FailedOK, Told
  <2>4. EachOnce(tail[c].d) /\ Quiet(tail[c].d)  BY <2>1, <2>2, <2>3 DEF FailedOK, Settled
  <2> QED  BY <2>1, <2>2, <2>3, <2>4, RowsAreLines DEF StreamOK, LogOK
<1>5. Spec => []StreamOK  BY <1>1, StreamInv
<1> QED  BY <1>2, <1>3, <1>4, <1>5, PTL DEF Spec

-----------------------------------------------------------------------------
(* No silent gap.  The hub keeps its word to every viewer: whatever another *)
(* one does, what a connected viewer has taken of the session only grows   *)
(* when it takes a line itself.                                            *)

Served(d, v) ==
    conn'[d][v] = "open" =>
        \/ Taken(d, v)' = {}
        \/ conn[d][v] = "open" /\ Taken(d, v)' \subseteq Taken(d, v)

LEMMA StillServed ==
    ASSUME NEW d \in Topics, NEW v \in Viewers, channel'[d][v] = channel[d][v],
           published'[d] = published[d], withheld'[d][v] = withheld[d][v],
           conn'[d][v] = "open" => conn[d][v] = "open"
    PROVE  Served(d, v)
BY DEF Served, Taken

LEMMA OthersServe ==
    ASSUME HubOK, NEW d \in Topics, NEW v \in Viewers,
           \/ \E ts, r : r # v /\ Reads(ts, r)
           \/ \E t \in Topics, w \in Viewers : Subscribe(t, w) \/ Unsubscribe(t, w)
           \/ \E t \in Topics, line \in Message : Publish(t, line)
    PROVE  Served(d, v)
<1>1. ASSUME NEW ts, NEW r, r # v, Reads(ts, r)
      PROVE  Served(d, v)
  BY <1>1, StillServed DEF Reads, hubHistory
<1>2. ASSUME NEW t \in Topics, NEW w \in Viewers, Subscribe(t, w)
      PROVE  Served(d, v)
  <2>1. CASE d = t /\ v = w  BY <1>2, <2>1, SubscribeTaken DEF Served
  <2>2. CASE d # t \/ v # w  BY <1>2, <2>2, SubscribeTaken DEF Served
  <2> QED  BY <2>1, <2>2
<1>3. ASSUME NEW t \in Topics, NEW w \in Viewers, Unsubscribe(t, w)
      PROVE  Served(d, v)
  <2>1. CASE d = t /\ v = w  BY <1>3, <2>1, UnsubscribeTaken DEF Served
  <2>2. CASE d # t \/ v # w  BY <1>3, <2>2, UnsubscribeTaken DEF Served
  <2> QED  BY <2>1, <2>2
<1>4. ASSUME NEW t \in Topics, NEW line \in Message, Publish(t, line)
      PROVE  Served(d, v)
  <2>1. conn'[d][v] = conn[d][v]  BY <1>4 DEF Publish
  <2> QED  BY <1>4, <2>1, PublishTaken DEF Served
<1> QED  BY <1>1, <1>2, <1>3, <1>4

\* A step of the builds' or of their handlers, as a viewer sees it.
LEMMA BackgroundServes ==
    ASSUME LogOK, NEW e \in Deployments, NEW v \in Viewers,
           (\E d \in Deployments : Pipeline(d)) \/ Connections
    PROVE  Served(e, v)
<1>1. e \in Topics /\ HubOK /\ BuildOK  BY DEF LogOK
<1>2. ASSUME UNCHANGED hubVars
      PROVE  Served(e, v)
  BY <1>1, <1>2, StillServed DEF hubVars
<1>3. ASSUME NEW d \in Deployments, NEW w \in Writers, PublishLine(d, w)
      PROVE  Served(e, v)
  <2> DEFINE line == [topic |-> d, n |-> logLineNum[d], text |-> writer[d][w].text]
  <2>1. line \in Message /\ Publish(d, line) /\ d \in Topics
    BY <1>1, <1>3, LineOwn, OwnLineIsLine DEF PublishLine, Message
  <2> HIDE DEF line
  <2> QED  BY <1>1, <2>1, OthersServe
<1>4. ASSUME NEW d \in Deployments, Pipeline(d)
      PROVE  UNCHANGED hubVars \/ \E w \in Writers : PublishLine(d, w)
  BY <1>4 DEF Pipeline, ScanLine, Number, InsertLine, BuildFails, WriteFailed, WriteLive
<1>5. CASE Connections
  <2>1. PICK t \in Deployments, w \in Pages \union Tails :
          Subscribe(t, w) \/ Unsubscribe(t, w) \/ Refuse(t, w) \/ DropConnection(t, w)
    BY <1>5 DEF Connections
  <2>2. t \in Topics /\ w \in Viewers /\ HubShape  BY <1>1 DEF HubOK
  <2>3. CASE Subscribe(t, w) \/ Unsubscribe(t, w)
    BY <1>1, <2>2, <2>3, OthersServe
  <2>4. CASE Refuse(t, w) \/ DropConnection(t, w)
    <3>1. channel' = channel /\ published' = published /\ withheld' = withheld
      BY <2>4 DEF Refuse, DropConnection, hubHistory
    <3>2. PICK x \in {"none", "closing"} : conn' = [conn EXCEPT ![t][w] = x]
      BY <2>4 DEF Refuse, DropConnection
    <3>4. conn \in [Topics -> [Viewers -> ConnStates]]  BY <2>2 DEF HubShape
    <3>5. conn'[e][v] = IF e = t /\ v = w THEN x ELSE conn[e][v]  BY <1>1, <2>2, <3>2, <3>4
    <3>3. conn'[e][v] = "open" => conn[e][v] = "open"
      BY <3>5
    <3> QED  BY <1>1, <3>1, <3>3, StillServed
  <2> QED  BY <2>1, <2>3, <2>4
<1> QED  BY <1>2, <1>3, <1>4, <1>5

LEMMA VerificationsServe ==
    ASSUME StreamOK, StreamsAssumption, DomainAssumption, DomainStep(DomainNext) \/ UNCHANGED vars,
           NEW d \in Deployments, NEW v \in Viewers
    PROVE  Served(d, v)
<1>1. d \in Topics /\ d \notin Domains /\ HubOK /\ Domains \in SUBSET Topics
  BY DEF StreamsAssumption, DomainAssumption, StreamOK, LogOK
<1>2. CASE DomainStep(DomainNext)
  <2>1. Moves(Domains)
    BY <1>2, DomainStepOK DEF DomainStep, DomainOK, StreamOK, LogOK, DomainMoves
  <2> QED  BY <1>1, <2>1, MovesApart, StillServed
<1>3. CASE UNCHANGED vars
  BY <1>1, <1>3, StillServed DEF vars, hubVars
<1> QED  BY <1>2, <1>3

(* The page's half.  Its stream never outgrows the hook's cap as long as   *)
(* no build has more lines than that.                                      *)
WithinCap == \A d \in Deployments : ImageLines[d] + 1 <= PageCap

LEMMA ShortStream ==
    ASSUME WithinCap, NEW s \in Seq(AnyLine), Distinct(s)
    PROVE  Len(s) <= PageCap
<1> DEFINE f == [i \in 1..Len(s) |-> s[i].n]
<1>1. Len(s) \in Nat /\ DOMAIN s = 1..Len(s) /\ \A i \in 1..Len(s) : s[i] \in AnyLine
  BY LenProperties
<1>2. \A line \in AnyLine : line.n \in 1..PageCap
  <2>1. ASSUME NEW d \in Deployments, NEW line \in OwnLine(d)
        PROVE  line.n \in 1..PageCap
    <3>1. ImageLines[d] \in Nat /\ ImageLines[d] + 1 <= PageCap  BY DEF WithinCap
    <3>2. line.n \in 1..(ImageLines[d] + 1)  BY DEF OwnLine
    <3> QED  BY <3>1, <3>2
  <2> QED  BY <2>1 DEF AnyLine
<1>3. f \in [1..Len(s) -> 1..PageCap]  BY <1>1, <1>2
<1>4. \A i, j \in 1..Len(s) : f[i] = f[j] => i = j  BY <1>1 DEF Distinct
<1> HIDE DEF f
<1>5. f \in Injection(1..Len(s), 1..PageCap)
  BY <1>3, <1>4 DEF Injection, IsInjective
<1>6. /\ IsFiniteSet(1..PageCap) /\ Cardinality(1..PageCap) = PageCap
      /\ Cardinality(1..Len(s)) = Len(s)
  <2>1. Cardinality(1..PageCap) = (IF 1 > PageCap THEN 0 ELSE PageCap - 1 + 1)
        /\ IsFiniteSet(1..PageCap)
    BY FS_Interval
  <2>2. Cardinality(1..Len(s)) = IF 1 > Len(s) THEN 0 ELSE Len(s) - 1 + 1
    BY <1>1, FS_Interval
  <2> QED  BY <1>1, <2>1, <2>2
<1> QED  BY <1>5, <1>6, FS_Injection

LEMMA CollectKeeps ==
    ASSUME WithinCap, NEW s \in Seq(AnyLine), Distinct(s), NEW line \in AnyLine
    PROVE  Lines(s) \subseteq Lines(Collect(s, line)) /\ line.n \in Numbers(Lines(Collect(s, line)))
<1>1. CASE line.n \in Numbers(Lines(s))  BY <1>1 DEF Collect
<1>2. CASE line.n \notin Numbers(Lines(s))
  <2>1. Append(s, line) \in Seq(AnyLine) /\ Distinct(Append(s, line))
    BY <1>2, AppendProperties, AppendDistinct
  <2>2. Len(Append(s, line)) <= PageCap /\ Len(Append(s, line)) \in Nat
    BY <2>1, ShortStream, LenProperties
  <2>3. Collect(s, line) = Append(s, line)  BY <1>2, <2>2 DEF Collect, Newest
  <2>4. Lines(Append(s, line)) = Lines(s) \union {line}  BY LinesOfAppend
  <2> QED  BY <2>3, <2>4 DEF Numbers
<1> QED  BY <1>1, <1>2

Own(pg) == \A l \in Lines(pg.stream) : l.topic = pg.view
Seen(pg, d) == Numbers(pg.history[d]) \union Numbers(Lines(pg.stream))

PageServed(p) ==
    \A d \in Deployments :
        conn[d][p] = "open" /\ Own(page[p]) => Numbers(Taken(d, p)) \subseteq Seen(page[p], d)

LEMMA NumbersGrow ==
    ASSUME NEW A, NEW B, A \subseteq B
    PROVE  Numbers(A) \subseteq Numbers(B)
BY DEF Numbers

LEMMA PageKept ==
    ASSUME NEW p \in Pages, PageServed(p), page'[p] = page[p], \A d \in Deployments : Served(d, p)
    PROVE  PageServed(p)'
<1>1. SUFFICES ASSUME NEW d \in Deployments, conn'[d][p] = "open", Own(page[p])
               PROVE  Numbers(Taken(d, p)') \subseteq Seen(page[p], d)
  BY DEF PageServed, Own, Seen
<1>2. CASE Taken(d, p)' = {}  BY <1>2 DEF Numbers
<1>3. CASE conn[d][p] = "open" /\ Taken(d, p)' \subseteq Taken(d, p)
  BY <1>1, <1>3, NumbersGrow DEF PageServed
<1> QED  BY <1>1, <1>2, <1>3 DEF Served

LEMMA RenderServed ==
    ASSUME LogOK, StreamsAssumption, NEW p \in Pages, NEW pg \in PageType, Render(p, pg),
           PageServed(p),
           pg.view = page[p].view =>
             pg.stream = page[p].stream
               /\ \A d \in Deployments : page[p].history[d] \subseteq pg.history[d]
    PROVE  PageServed(p)'
<1>1. SUFFICES ASSUME NEW d \in Deployments, conn'[d][p] = "open", Own(pg)
               PROVE  Numbers(Taken(d, p)') \subseteq Seen(pg, d)
  <2>1. page'[p] = pg  BY DEF Render, LogOK, PagesOK
  <2> QED  BY <2>1 DEF PageServed, Own, Seen
<1>2. /\ channel' = channel /\ Following(pg) = d /\ Following(page[p]) = d
      /\ conn'[d][p] = conn[d][p]
  BY <1>1, RenderReads DEF LogOK
<1>3. d # None /\ page[p] \in PageType  BY DEF StreamsAssumption, LogOK, PagesOK
<1>4. pg.view = d /\ page[p].view = d  BY <1>2, <1>3, FollowingType
<1>5. Taken(d, p)' = Taken(d, p)  BY <1>2 DEF Render, hubHistory, Taken
<1>6. Own(page[p])  BY <1>1, <1>4 DEF Own
<1>7. Numbers(Taken(d, p)) \subseteq Seen(page[p], d)  BY <1>1, <1>2, <1>6 DEF PageServed
<1>8. Numbers(page[p].history[d]) \subseteq Numbers(pg.history[d])  BY <1>4, NumbersGrow
<1>9. Seen(page[p], d) \subseteq Seen(pg, d)  BY <1>4, <1>8 DEF Seen
<1> QED  BY <1>5, <1>7, <1>9

LEMMA ReceivesServed ==
    ASSUME LogOK, StreamsAssumption, WithinCap, NEW p \in Pages, NEW e \in Deployments,
           PageReceives(p, e), PageServed(p)
    PROVE  PageServed(p)'
<1> DEFINE line == Head(channel[e][p])
           stream == Collect(page[p].stream, line)
<1>1. /\ HubOK /\ HubShape /\ p \in Viewers /\ e \in Topics /\ page[p] \in PageType
      /\ ViewOK(page[p]) /\ Linked(p) /\ conn[e][p] = "open" /\ conn' = conn
  BY DEF LogOK, HubOK, PagesOK, PageReceives
<1>2. channel[e][p] # <<>> /\ channel[e][p] \in Seq(OwnLine(e))
  BY <1>1 DEF LogOK, LinesOK, Carries, PageReceives
<1>3. line \in AnyLine /\ line \in {line}  BY <1>2, LinesOfTail DEF AnyLine
<1>4. Reads(Deployments, p)  BY PageReceivesOK
<1>5. channel'[e][p] = Tail(channel[e][p])  BY <1>1 DEF HubShape, PageReceives
<1>6. Taken(e, p)' \subseteq Taken(e, p) \union {line}
  BY <1>1, <1>2, <1>4, <1>5, ReadsTaken
<1>7. /\ page'[p].stream = stream /\ page'[p].view = page[p].view
      /\ page'[p].history = page[p].history
  <2>1. page'[p] = [page[p] EXCEPT !.stream = stream]  BY DEF PageReceives, LogOK, PagesOK
  <2> HIDE DEF stream
  <2> QED  BY <1>1, <2>1 DEF PageType
<1> HIDE DEF line
<1>8. Lines(page[p].stream) \subseteq Lines(stream) /\ line.n \in Numbers(Lines(stream))
  BY <1>1, <1>3, CollectKeeps DEF ViewOK
<1> HIDE DEF stream
<1>9. SUFFICES ASSUME NEW d \in Deployments, conn'[d][p] = "open", Own(page[p])'
               PROVE  Numbers(Taken(d, p)') \subseteq Seen(page[p], d)'
  BY DEF PageServed
<1>10. d = e  BY <1>1, <1>9 DEF Linked
<1>11. Own(page[p])  BY <1>7, <1>8, <1>9 DEF Own
<1>12. Numbers(Taken(e, p)) \subseteq Seen(page[p], e)  BY <1>1, <1>11 DEF PageServed
<1>13. Numbers(Taken(e, p)') \subseteq Numbers(Taken(e, p)) \union {line.n}
  BY <1>6 DEF Numbers
<1>14. Numbers(Lines(page[p].stream)) \subseteq Numbers(Lines(stream))  BY <1>8, NumbersGrow
<1> QED  BY <1>7, <1>8, <1>10, <1>12, <1>13, <1>14 DEF Seen

LEMMA ViewingServed ==
    ASSUME LogOK, StreamsAssumption, WithinCap, NEW p \in Pages, Viewing(p), PageServed(p)
    PROVE  PageServed(p)'
<1>1. /\ page[p] \in PageType /\ ViewOK(page[p]) /\ BuildTypes /\ None \notin Deployments
  BY DEF LogOK, PagesOK, BuildOK, StreamsAssumption
<1>2. ASSUME NEW d \in Deployments, Render(p, [page[p] EXCEPT !.view = d])
      PROVE  PageServed(p)'
  <2> DEFINE pg == [page[p] EXCEPT !.view = d]
  <2>1. pg \in PageType /\ pg.stream = page[p].stream /\ pg.history = page[p].history
    BY <1>1 DEF PageType
  <2> HIDE DEF pg
  <2> QED  BY <1>2, <2>1, RenderServed DEF pg
<1>3. CASE LeavePage(p)
  <2> DEFINE pg == [page[p] EXCEPT !.view = None, !.stream = <<>>]
  <2>1. pg \in PageType /\ pg.view = None  BY <1>1, EmptySeq DEF PageType
  <2>2. Render(p, pg) /\ page[p].view # None  BY <1>3 DEF LeavePage, Shown
  <2> HIDE DEF pg
  <2> QED  BY <2>1, <2>2, RenderServed
<1>4. CASE FetchDeployment(p)
  <2> DEFINE pg == [page[p] EXCEPT !.cached[Shown(p)] = status[Shown(p)]]
  <2>1. Shown(p) \in Deployments /\ status[Shown(p)] \in Active \union Terminal
    BY <1>1, <1>4 DEF FetchDeployment, Shown, PageType, BuildTypes
  <2>2. pg \in PageType /\ pg.stream = page[p].stream /\ pg.history = page[p].history
    BY <1>1, <2>1 DEF PageType
  <2>3. Render(p, pg)  BY <1>4 DEF FetchDeployment
  <2> HIDE DEF pg
  <2> QED  BY <2>2, <2>3, RenderServed
<1>5. CASE FetchHistory(p)
  <2> DEFINE pg == [page[p] EXCEPT !.history[Shown(p)] = rows[Shown(p)],
                                   !.fetched = @ \union {Shown(p)}]
  <2>1. Shown(p) \in Deployments /\ rows[Shown(p)] \in SUBSET Line
    BY <1>1, <1>5 DEF FetchHistory, Shown, PageType, BuildTypes
  <2>2. pg \in PageType /\ pg.stream = page[p].stream
    BY <1>1, <2>1 DEF PageType
  <2>3. pg.history = [page[p].history EXCEPT ![Shown(p)] = rows[Shown(p)]]
        /\ page[p].history \in [Deployments -> SUBSET Line]
    BY <1>1 DEF PageType
  <2>4. Render(p, pg)  BY <1>5 DEF FetchHistory
  <2> HIDE DEF pg
  <2>5. \A d \in Deployments : page[p].history[d] \subseteq pg.history[d]
    BY <1>1, <2>1, <2>3 DEF ViewOK
  <2> QED  BY <2>2, <2>4, <2>5, RenderServed
<1>6. ASSUME NEW d \in Deployments, PageReceives(p, d)
      PROVE  PageServed(p)'
  BY <1>6, ReceivesServed
<1> QED  BY <1>2, <1>3, <1>4, <1>5, <1>6 DEF Viewing, OpenPage, DeployAndShow

(* The tool's half.  It tells what it has by the highest number of its     *)
(* history, so the rows it reads must have no gap below it: they have none *)
(* while the lines of a build come one after the other.                    *)
OneScanner == \A v, w \in Scanners : v = w

Alone(d) ==
    /\ phase[d] \in {"untriggered", "image"} => writer[d][Main].pc = "idle"
    /\ phase[d] \in {"failing", "ended"} => \A w \in Scanners : writer[d][w].pc = "idle"

Numbering(d) == \E w \in Writers : writer[d][w].pc = "numbered"

Gapless(d) ==
    /\ \A w \in Writers : writer[d][w].pc = "read" => writer[d][w].held = logLineNum[d]
    /\ Numbers(rows[d]) = 1..(IF Numbering(d) THEN logLineNum[d] - 1 ELSE logLineNum[d])

OrderlyBuild == \A d \in Deployments : Alone(d) /\ Gapless(d)

LEMMA Lonely ==
    ASSUME OneScanner, BuildTypes, NEW d \in Deployments, Alone(d),
           NEW v \in Writers, NEW w \in Writers,
           writer[d][v].pc # "idle", writer[d][w].pc # "idle"
    PROVE  v = w
<1>1. phase[d] \in {"untriggered", "image", "failing", "ended"}  BY DEF BuildTypes
<1> QED  BY <1>1 DEF OneScanner, Alone, Writers

LEMMA BeginGapless ==
    ASSUME BuildTypes, OrderlyBuild, NEW d \in Deployments, NEW w \in Writers,
           writer[d][w].pc = "idle", writer' = [writer EXCEPT ![d][w] = Begin(d, w)],
           UNCHANGED <<rows, logLineNum>>
    PROVE  \A e \in Deployments : Gapless(e)'
<1>1. /\ writer'[d][w].pc = "read" /\ writer'[d][w].held = logLineNum[d]
      /\ \A x \in Writers \ {w} : writer'[d][x] = writer[d][x]
      /\ \A e \in Deployments \ {d} : writer'[e] = writer[e]
  BY DEF BuildTypes, Begin, Writing
<1>2. \A e \in Deployments : Numbering(e)' <=> Numbering(e)  BY <1>1 DEF Numbering
<1>3. ASSUME NEW e \in Deployments, NEW x \in Writers, writer'[e][x].pc = "read"
      PROVE  writer'[e][x].held = logLineNum[e]
  BY <1>1, <1>3 DEF OrderlyBuild, Gapless
<1> QED  BY <1>2, <1>3 DEF OrderlyBuild, Gapless

LEMMA NumberGapless ==
    ASSUME OneScanner, BuildTypes, OrderlyBuild, NEW d \in Deployments, NEW w \in Writers,
           Number(d, w)
    PROVE  Gapless(d)'
<1> DEFINE k == logLineNum[d]
<1>1. writer[d][w].pc = "read" /\ Alone(d) /\ Gapless(d)  BY DEF Number, OrderlyBuild
<1>2. k \in Nat /\ writer[d][w].held = k  BY <1>1 DEF BuildTypes, Gapless
<1>3. \A x \in Writers : x # w => writer[d][x].pc = "idle"  BY <1>1, Lonely
<1>4. ~Numbering(d)  BY <1>1, <1>3 DEF Numbering
<1>5. Numbers(rows[d]) = 1..k  BY <1>1, <1>4 DEF Gapless
<1>6. /\ writer'[d][w].pc = "numbered" /\ \A x \in Writers \ {w} : writer'[d][x] = writer[d][x]
      /\ logLineNum'[d] = k + 1 /\ rows' = rows
  BY <1>2 DEF BuildTypes, Doing, Number
<1>7. Numbering(d)' /\ \A x \in Writers : writer'[d][x].pc # "read"
  BY <1>3, <1>6 DEF Numbering
<1>8. logLineNum'[d] - 1 = k  BY <1>2, <1>6
<1> QED  BY <1>5, <1>6, <1>7, <1>8 DEF Gapless

LEMMA InsertGapless ==
    ASSUME OneScanner, BuildOK, OrderlyBuild, NEW d \in Deployments, NEW w \in Writers,
           InsertLine(d, w)
    PROVE  Gapless(d)'
<1> DEFINE k == logLineNum[d]
           line == [topic |-> d, n |-> logLineNum[d], text |-> writer[d][w].text]
<1>1. /\ writer[d][w].pc = "numbered" /\ Alone(d) /\ Gapless(d) /\ BuildTypes /\ Counted(d)
  BY DEF InsertLine, OrderlyBuild, BuildOK
<1>2. k \in Nat /\ k >= 1  BY <1>1 DEF BuildTypes, Counted
<1>3. \A x \in Writers : x # w => writer[d][x].pc = "idle"  BY <1>1, Lonely
<1>4. Numbers(rows[d]) = 1..(k - 1)  BY <1>1 DEF Gapless, Numbering
<1>5. rows'[d] = rows[d] \union {line} /\ line.n = k  BY <1>1 DEF BuildTypes, InsertLine
<1> HIDE DEF line
<1>6. Numbers(rows'[d]) = (1..(k - 1)) \union {k}  BY <1>4, <1>5 DEF Numbers
<1>7. (1..(k - 1)) \union {k} = 1..k  BY <1>2
<1>8. /\ writer'[d][w].pc = "stored" /\ \A x \in Writers \ {w} : writer'[d][x] = writer[d][x]
      /\ logLineNum' = logLineNum
  BY <1>1 DEF BuildTypes, Doing, InsertLine
<1>9. ~Numbering(d)' /\ \A x \in Writers : writer'[d][x].pc # "read"
  BY <1>3, <1>8 DEF Numbering
<1> QED  BY <1>6, <1>7, <1>8, <1>9 DEF Gapless

LEMMA PipelineOrderly ==
    ASSUME OneScanner, BuildOK, OrderlyBuild, NEW d \in Deployments, Pipeline(d)
    PROVE  OrderlyBuild'
<1>1. BuildTypes /\ Main \in Writers  BY DEF BuildOK, Writers
<1>2. ASSUME NEW w \in Writers, Number(d, w) \/ InsertLine(d, w) \/ PublishLine(d, w)
      PROVE  /\ writer[d][w].pc # "idle" /\ phase' = phase
             /\ \A x \in Writers \ {w} : writer'[d][x] = writer[d][x]
             /\ \A e \in Deployments \ {d} : writer'[e] = writer[e] /\ rows'[e] = rows[e]
                  /\ logLineNum'[e] = logLineNum[e]
  BY <1>1, <1>2 DEF BuildTypes, Number, InsertLine, PublishLine
<1>3. ASSUME NEW w \in Writers, ScanLine(d, w)
      PROVE  /\ w # Main /\ phase' = phase /\ phase[d] = "image"
             /\ \A x \in Writers \ {w} : writer'[d][x] = writer[d][x]
             /\ \A e \in Deployments \ {d} : writer'[e] = writer[e]
  BY <1>1, <1>3 DEF BuildTypes, ScanLine
<1>4. ASSUME BuildFails(d) \/ WriteLive(d)
      PROVE  /\ phase'[d] \in {"failing", "ended"}
             /\ \A x \in Writers \ {Main} : writer'[d][x] = writer[d][x] /\ writer[d][x].pc = "idle"
             /\ \A e \in Deployments \ {d} : writer'[e] = writer[e] /\ phase'[e] = phase[e]
  BY <1>1, <1>4 DEF BuildTypes, BuildFails, WriteLive, Quiet
<1>5. ASSUME WriteFailed(d)
      PROVE  /\ writer' = writer /\ phase'[d] = "ended"
             /\ \A x \in Writers : writer[d][x].pc = "idle"
             /\ \A e \in Deployments \ {d} : phase'[e] = phase[e]
  BY <1>1, <1>5 DEF BuildTypes, WriteFailed, Quiet
<1>6. ASSUME NEW e \in Deployments
      PROVE  Alone(e)'
  <2>1. Alone(e) /\ Alone(d)  BY DEF OrderlyBuild
  <2>2. ASSUME NEW w \in Writers, Number(d, w) \/ InsertLine(d, w) \/ PublishLine(d, w)
        PROVE  Alone(e)'
    <3>1. \A x \in Writers : writer[e][x].pc = "idle" => writer'[e][x].pc = "idle"
      BY <1>2, <2>2
    <3> QED  BY <1>1, <1>2, <2>1, <2>2, <3>1 DEF Alone, Writers
  <2>3. ASSUME NEW w \in Writers, ScanLine(d, w)
        PROVE  Alone(e)'
    <3>1. CASE e = d  BY <1>1, <1>3, <2>1, <2>3, <3>1 DEF Alone
    <3>2. CASE e # d  BY <1>3, <2>1, <2>3, <3>2 DEF Alone
    <3> QED  BY <3>1, <3>2
  <2>4. CASE BuildFails(d) \/ WriteLive(d)
    <3>1. CASE e = d
      <4>1. \A w \in Scanners : w \in Writers \ {Main}  BY DEF Writers
      <4>2. phase'[d] \in {"failing", "ended"}  BY <1>4, <2>4
      <4>3. \A w \in Scanners : writer'[d][w].pc = "idle"  BY <1>4, <2>4, <4>1
      <4> QED  BY <3>1, <4>2, <4>3 DEF Alone
    <3>2. CASE e # d  BY <1>4, <2>1, <2>4, <3>2 DEF Alone
    <3> QED  BY <3>1, <3>2
  <2>5. CASE WriteFailed(d)
    <3>1. CASE e = d  BY <1>5, <2>5, <3>1 DEF Alone, Writers
    <3>2. CASE e # d  BY <1>5, <2>1, <2>5, <3>2 DEF Alone
    <3> QED  BY <3>1, <3>2
  <2> QED  BY <2>2, <2>3, <2>4, <2>5 DEF Pipeline
<1>7. ASSUME NEW w \in Writers, Number(d, w) \/ InsertLine(d, w) \/ PublishLine(d, w)
      PROVE  \A e \in Deployments : Gapless(e)'
  <2>1. Gapless(d)'
    <3>1. CASE PublishLine(d, w)
      <4>1. Idle.pc = "idle"  BY DEF Idle, Writing
      <4>2. /\ writer[d][w].pc = "stored" /\ writer'[d][w].pc = "idle"
            /\ rows' = rows /\ logLineNum' = logLineNum
        BY <1>1, <3>1, <4>1 DEF BuildTypes, PublishLine
      <4>3. Numbering(d)' <=> Numbering(d)  BY <1>2, <1>7, <4>2 DEF Numbering
      <4>4. \A x \in Writers : writer'[d][x].pc = "read" => writer'[d][x] = writer[d][x]
        BY <1>2, <1>7, <4>2
      <4> QED  BY <4>2, <4>3, <4>4 DEF OrderlyBuild, Gapless
    <3> QED  BY <1>1, <1>7, <3>1, NumberGapless, InsertGapless
  <2>2. ASSUME NEW e \in Deployments, e # d
        PROVE  Gapless(e)'
    <3>1. writer'[e] = writer[e] /\ rows'[e] = rows[e] /\ logLineNum'[e] = logLineNum[e]
      BY <1>2, <1>7, <2>2
    <3> QED  BY <3>1 DEF OrderlyBuild, Gapless, Numbering
  <2> QED  BY <2>1, <2>2
<1>8. ASSUME NEW w \in Writers, ScanLine(d, w)
      PROVE  \A e \in Deployments : Gapless(e)'
  BY <1>1, <1>8, BeginGapless DEF ScanLine
<1>9. CASE BuildFails(d) \/ WriteLive(d)
  <2>1. writer[d][Main].pc = "idle"  BY <1>1, <1>9 DEF BuildFails, WriteLive, Quiet
  <2>2. \A e \in Deployments : Gapless(e)'
    BY <1>1, <1>9, <2>1, BeginGapless DEF BuildFails, WriteLive
  <2> QED  BY <1>6, <2>2 DEF OrderlyBuild
<1>10. CASE WriteFailed(d)
  <2>1. \A e \in Deployments : Gapless(e)'
    BY <1>10 DEF WriteFailed, OrderlyBuild, Gapless, Numbering
  <2> QED  BY <1>6, <2>1 DEF OrderlyBuild
<1> QED  BY <1>6, <1>7, <1>8, <1>9, <1>10 DEF Pipeline, OrderlyBuild

LEMMA OrderlyKept ==
    ASSUME BuildTypes, OrderlyBuild, UNCHANGED <<logLineNum, writer, rows>>,
           \/ phase' = phase
           \/ \E d \in Deployments :
                phase[d] = "untriggered" /\ phase' = [phase EXCEPT ![d] = "image"]
    PROVE  OrderlyBuild'
<1>1. \A d \in Deployments :
        phase'[d] = phase[d] \/ (phase[d] = "untriggered" /\ phase'[d] = "image")
  BY DEF BuildTypes
<1> QED  BY <1>1 DEF OrderlyBuild, Alone, Gapless, Numbering

(* The calls.                                                              *)
Ranged(call) == Numbers(call.history) = 1..call.highest

CallServed(c) ==
    \A d \in Deployments :
        tail[c].d = d /\ Listening(c) /\ conn[d][c] = "open" =>
            Numbers(Taken(d, c)) \subseteq
                Numbers(tail[c].history) \union Numbers(Lines(tail[c].lines))

LEMMA RangeOf ==
    ASSUME NEW got \in SUBSET Line, IsFiniteSet(got), NEW k \in Nat, Numbers(got) = 1..k
    PROVE  Max({0} \union Numbers(got)) = k
<1>1. /\ Max({0} \union Numbers(got)) \in Nat
      /\ Max({0} \union Numbers(got)) \in {0} \union (1..k)
      /\ \A n \in 1..k : n <= Max({0} \union Numbers(got))
  BY HighestOf
<1> DEFINE m == Max({0} \union Numbers(got))
<1>0. SUFFICES m = k  OBVIOUS
<1> HIDE DEF m
<1>2. m \in Nat /\ (m = 0 \/ m \in 1..k) /\ \A n \in 1..k : n <= m  BY <1>1 DEF m
<1>3. CASE k = 0  BY <1>2, <1>3
<1>4. CASE k # 0
  <2>1. k \in 1..k  BY <1>4
  <2>2. k <= m  BY <1>2, <2>1
  <2> QED  BY <1>2, <1>4, <2>2
<1> QED  BY <1>3, <1>4

LEMMA ReadLogsRanged ==
    ASSUME LogOK, OrderlyBuild, NEW c \in Tails, ReadLogs(c), Ranged(tail[c])
    PROVE  \E call : Becomes(c, call) /\ Ranged(call)
<1> DEFINE d == tail[c].d
           got(ok) == IF ok THEN rows[d] ELSE tail[c].history
           heard(ok) == [tail[c] EXCEPT !.history = got(ok), !.answered = ok,
                           !.basis = tail[c].status, !.highest = Max({0} \union Numbers(got(ok)))]
           live(ok) == [heard(ok) EXCEPT !.pc = "live"]
           other(ok) == [heard(ok) EXCEPT !.pc =
                           IF tail[c].kind = "follow" /\ ~(tail[c].status \in Terminal)
                           THEN "asleep" ELSE "done"]
<1>1. PICK ok \in BOOLEAN : Becomes(c, other(ok)) \/ Becomes(c, live(ok))
  BY DEF ReadLogs, Ask, Becomes
<1>2. /\ tail[c] \in CallType /\ CallOK(tail[c]) /\ tail[c].pc = "logs" /\ d \in Deployments
      /\ tail[c].highest \in Nat
  BY CallFacts DEF CallOK, ReadLogs, CallType
<1>3. \E k \in Nat : Numbers(got(ok)) = 1..k
  <2>1. CASE ok
    <3>1. Gapless(d) /\ logLineNum[d] \in Nat /\ Counted(d)
      BY <1>2 DEF OrderlyBuild, LogOK, BuildOK, BuildTypes
    <3>2. Numbering(d) => logLineNum[d] >= 1  BY <3>1 DEF Numbering, Counted
    <3>3. (IF Numbering(d) THEN logLineNum[d] - 1 ELSE logLineNum[d]) \in Nat  BY <3>1, <3>2
    <3> QED  BY <2>1, <3>1, <3>3 DEF Gapless
  <2>2. CASE ~ok  BY <1>2, <2>2 DEF Ranged
  <2> QED  BY <2>1, <2>2
<1>4. got(ok) \in SUBSET Line /\ IsFiniteSet(got(ok))
  BY <1>2, CallFacts DEF CallOK
<1> HIDE DEF got
<1>5. Numbers(got(ok)) = 1..Max({0} \union Numbers(got(ok)))
  BY <1>3, <1>4, RangeOf
<1>6. /\ heard(ok).history = got(ok) /\ heard(ok).highest = Max({0} \union Numbers(got(ok)))
      /\ heard(ok) = [heard(ok) EXCEPT !.pc = heard(ok).pc]
  BY <1>2 DEF CallType
<1>7. ASSUME NEW x
      PROVE  LET call == [heard(ok) EXCEPT !.pc = x] IN
             call.history = got(ok) /\ call.highest = Max({0} \union Numbers(got(ok)))
  BY <1>2 DEF CallType
<1>8. /\ live(ok).history = got(ok) /\ live(ok).highest = Max({0} \union Numbers(got(ok)))
      /\ other(ok).history = got(ok) /\ other(ok).highest = Max({0} \union Numbers(got(ok)))
  BY <1>7
<1> HIDE DEF heard, live, other
<1>9. Ranged(live(ok)) /\ Ranged(other(ok))  BY <1>5, <1>8 DEF Ranged
<1> QED  BY <1>1, <1>9

LEMMA TailingRanged ==
    ASSUME LogOK, OrderlyBuild, NEW c \in Tails, Tailing(c), \A b \in Tails : Ranged(tail[b])
    PROVE  \A b \in Tails : Ranged(tail[b])'
<1>0. tail[c] \in CallType /\ Ranged(tail[c]) /\ CallsOK /\ tail = [tail EXCEPT ![c] = tail[c]]
  BY CallFacts DEF LogOK, CallsOK
<1>1. SUFFICES \E call : Becomes(c, call) /\ Ranged(call)
  BY <1>0 DEF Becomes, CallsOK, Ranged
<1>2. ASSUME NEW d \in Deployments, NEW kind \in TailKinds, ReadStatus(c, d, kind)
      PROVE  \E call : Becomes(c, call) /\ Ranged(call)
  <2> DEFINE call == [NoCall EXCEPT !.kind = kind, !.pc = "logs", !.d = d, !.status = status[d]]
  <2>1. call.history = {} /\ call.highest = 0  BY DEF NoCall
  <2>2. Becomes(c, call)  BY <1>2 DEF ReadStatus, Ask, Becomes
  <2> HIDE DEF call
  <2>3. Ranged(call)  BY <2>1 DEF Ranged, Numbers
  <2> QED  BY <2>2, <2>3
<1>3. CASE PollAgain(c) \/ PollStatus(c)
  <2> DEFINE next(x) == [tail[c] EXCEPT !.status = status[tail[c].d], !.pc = x]
  <2>1. Becomes(c, next("logs")) \/ Becomes(c, next("flush"))
    BY <1>3 DEF PollAgain, PollStatus, Ask, Becomes
  <2>2. \A x : next(x).history = tail[c].history /\ next(x).highest = tail[c].highest
    BY <1>0 DEF CallType
  <2> HIDE DEF next
  <2> QED  BY <1>0, <2>1, <2>2 DEF Ranged
<1>4. CASE GiveUp(c) \/ TailEnds(c)
  <2> DEFINE next == [tail[c] EXCEPT !.pc = "done"]
  <2>1. Becomes(c, next)  BY <1>4 DEF GiveUp, TailEnds, Finish, Ask, Becomes
  <2>2. next.history = tail[c].history /\ next.highest = tail[c].highest
    BY <1>0 DEF CallType
  <2> HIDE DEF next
  <2> QED  BY <1>0, <2>1, <2>2 DEF Ranged
<1>5. CASE TailReceives(c)
  <2> DEFINE line == Head(channel[tail[c].d][c])
             cut == [[tail[c] EXCEPT !.truncated = TRUE] EXCEPT !.pc = "done"]
             more == [tail[c] EXCEPT !.lines = Append(@, line)]
  <2>1. Becomes(c, tail[c]) \/ Becomes(c, cut) \/ Becomes(c, more)
    BY <1>0, <1>5 DEF TailReceives, Finish, Becomes
  <2>2. cut.history = tail[c].history /\ cut.highest = tail[c].highest  BY <1>0 DEF CallType
  <2> HIDE DEF line
  <2>3. more.history = tail[c].history /\ more.highest = tail[c].highest  BY <1>0 DEF CallType
  <2> HIDE DEF cut, more
  <2> QED  BY <1>0, <2>1, <2>2, <2>3 DEF Ranged
<1> QED  BY <1>2, <1>3, <1>4, <1>5, ReadLogsRanged DEF Tailing

LEMMA CallKept ==
    ASSUME NEW c \in Tails, CallServed(c), \A d \in Deployments : Served(d, c),
           tail'[c].d = tail[c].d, tail'[c].history = tail[c].history,
           tail'[c].lines = tail[c].lines, Listening(c)' => Listening(c)
    PROVE  CallServed(c)'
<1>1. SUFFICES ASSUME NEW d \in Deployments, tail[c].d = d, Listening(c)', conn'[d][c] = "open"
               PROVE  Numbers(Taken(d, c)') \subseteq
                        Numbers(tail[c].history) \union Numbers(Lines(tail[c].lines))
  BY DEF CallServed
<1>2. CASE Taken(d, c)' = {}  BY <1>2 DEF Numbers
<1>3. CASE conn[d][c] = "open" /\ Taken(d, c)' \subseteq Taken(d, c)
  BY <1>1, <1>3, NumbersGrow DEF CallServed
<1> QED  BY <1>1, <1>2, <1>3 DEF Served

LEMMA TailReceivesServed ==
    ASSUME LogOK, StreamsAssumption, NEW c \in Tails, TailReceives(c), CallServed(c),
           Ranged(tail[c])
    PROVE  CallServed(c)'
<1>0. PICK d \in Deployments : d = tail[c].d
  BY CallFacts DEF TailReceives, Listening, LogOK, CallOK
<1> DEFINE line == Head(channel[d][c])
           cut == [[tail[c] EXCEPT !.truncated = TRUE] EXCEPT !.pc = "done"]
           more == [tail[c] EXCEPT !.lines = Append(@, line)]
<1>1. /\ tail[c] \in CallType /\ CallOK(tail[c]) /\ Listening(c) /\ c \in Viewers
      /\ HubOK /\ HubShape /\ tail \in [Tails -> CallType]
  BY CallFacts DEF TailReceives, LogOK, HubOK, CallsOK
<1>2. d \in Deployments /\ d \in Topics /\ conn[d][c] = "open"
  BY <1>0, <1>1 DEF TailReceives
<1>3. channel[d][c] # <<>> /\ channel[d][c] \in Seq(OwnLine(d))
  BY <1>0, <1>1, <1>2 DEF LogOK, LinesOK, Carries, TailReceives
<1>4. line \in OwnLine(d)  BY <1>3, LinesOfTail
<1>5. Reads(Deployments, c)
  <2>1. Tailing(c)  BY DEF Tailing
  <2> QED  BY <2>1, TailingOK
<1>6. channel'[d][c] = Tail(channel[d][c])  BY <1>0, <1>1, <1>2 DEF HubShape, TailReceives
<1>7. Taken(d, c)' \subseteq Taken(d, c) \union {line}
  <2>1. channel[d][c] # <<>> /\ line = Head(channel[d][c])  BY <1>3
  <2> HIDE DEF line
  <2>2. Taken(d, c)' \subseteq Taken(d, c) \union {Head(channel[d][c])}
    BY <1>1, <1>2, <1>5, <1>6, <2>1, ReadsTaken
  <2> QED  BY <2>1, <2>2
<1>8. \/ tail' = tail /\ line.n <= tail[c].highest
      \/ tail'[c] = cut
      \/ tail'[c] = more
  BY <1>0, <1>1 DEF TailReceives, Finish
<1>9. line.n \in Nat /\ line.n >= 1 /\ tail[c].highest \in Nat
  <2>1. line.n \in 1..(ImageLines[d] + 1) /\ ImageLines[d] \in Nat  BY <1>2, <1>4 DEF OwnLine
  <2> QED  BY <1>1, <2>1 DEF CallType
<1> HIDE DEF line
<1>10. cut.pc = "done"  BY <1>1 DEF CallType
<1>11. /\ more.d = d /\ more.history = tail[c].history
       /\ Lines(more.lines) = Lines(tail[c].lines) \union {line}
  <2>1. more.lines = Append(tail[c].lines, line) /\ more.d = d
        /\ more.history = tail[c].history
    BY <1>0, <1>1 DEF CallType
  <2>2. tail[c].lines \in Seq(Line) /\ line \in Line
    BY <1>1, <1>2, <1>4, OwnLineIsLine DEF CallType
  <2> QED  BY <2>1, <2>2, LinesOfAppend
<1>12. Numbers(Taken(d, c)) \subseteq
         Numbers(tail[c].history) \union Numbers(Lines(tail[c].lines))
  BY <1>0, <1>1, <1>2 DEF CallServed
<1>13. Numbers(Taken(d, c)') \subseteq Numbers(Taken(d, c)) \union {line.n}
  BY <1>7 DEF Numbers
<1> HIDE DEF cut, more
<1>14. CASE tail'[c] = cut  BY <1>10, <1>14 DEF CallServed, Listening
<1>15. CASE tail'[c] = more
  <2>1. Numbers(Lines(more.lines)) = Numbers(Lines(tail[c].lines)) \union {line.n}
    BY <1>11 DEF Numbers
  <2> QED  BY <1>1, <1>11, <1>12, <1>13, <1>15, <2>1 DEF CallServed
<1>16. CASE tail' = tail /\ line.n <= tail[c].highest
  <2>1. line.n \in Numbers(tail[c].history)  BY <1>9, <1>16 DEF Ranged
  <2> QED  BY <1>0, <1>12, <1>13, <1>16, <2>1 DEF CallServed
<1> QED  BY <1>8, <1>14, <1>15, <1>16

LEMMA TailingServed ==
    ASSUME LogOK, StreamsAssumption, NEW c \in Tails, Tailing(c), CallServed(c), Ranged(tail[c])
    PROVE  CallServed(c)'
<1>1. /\ tail[c] \in CallType /\ CallsOK /\ \A d \in Deployments : d \in Topics
      /\ c \in Viewers /\ HubShape /\ CallOK(tail[c])
  BY CallFacts DEF LogOK, HubOK
<1>2. CASE tail'[c].pc \notin {"live", "flush"}
  BY <1>2 DEF CallServed, Listening
<1>3. ASSUME NEW d \in Deployments, NEW kind \in TailKinds, ReadStatus(c, d, kind)
      PROVE  tail'[c].pc \notin {"live", "flush"}
  BY <1>1, <1>3 DEF ReadStatus, Ask, NoCall, CallsOK
<1>4. CASE PollAgain(c)
  <2>1. tail'[c].pc = "logs"  BY <1>1, <1>4 DEF PollAgain, Ask, CallsOK, CallType
  <2> QED  BY <1>2, <2>1
<1>5. CASE GiveUp(c) \/ TailEnds(c)
  <2>1. tail'[c].pc = "done"  BY <1>1, <1>5 DEF GiveUp, TailEnds, Finish, Ask, CallsOK, CallType
  <2> QED  BY <1>2, <2>1
<1>6. CASE PollStatus(c)
  <2>1. /\ tail'[c].d = tail[c].d /\ tail'[c].history = tail[c].history
        /\ tail'[c].lines = tail[c].lines /\ Listening(c)
    BY <1>1, <1>6 DEF PollStatus, Ask, CallsOK, CallType, Listening
  <2>2. UNCHANGED hubVars  BY <1>6 DEF PollStatus, Ask
  <2>3. \A d \in Deployments : Served(d, c)  BY <1>1, <2>2, StillServed DEF hubVars
  <2> QED  BY <2>1, <2>3, CallKept
<1>7. CASE ReadLogs(c)
  <2> DEFINE d == tail[c].d
             got(ok) == IF ok THEN rows[d] ELSE tail[c].history
             heard(ok) == [tail[c] EXCEPT !.history = got(ok), !.answered = ok,
                            !.basis = tail[c].status, !.highest = Max({0} \union Numbers(got(ok)))]
             live(ok) == [heard(ok) EXCEPT !.pc = "live"]
             other(ok) == [heard(ok) EXCEPT !.pc =
                            IF tail[c].kind = "follow" /\ ~(tail[c].status \in Terminal)
                            THEN "asleep" ELSE "done"]
  <2>1. PICK ok \in BOOLEAN :
          \/ tail' = [tail EXCEPT ![c] = other(ok)]
          \/ tail' = [tail EXCEPT ![c] = live(ok)] /\ conn' = [conn EXCEPT ![d][c] = "dialling"]
    BY <1>7 DEF ReadLogs, Ask
  <2>2. other(ok).pc \in {"asleep", "done"} /\ live(ok).d = d  BY <1>1 DEF CallType
  <2> HIDE DEF other, live
  <2>3. CASE tail' = [tail EXCEPT ![c] = other(ok)]
    <3>1. tail'[c] = other(ok)  BY <1>1, <2>3 DEF CallsOK
    <3> QED  BY <1>2, <2>2, <3>1
  <2>4. CASE tail' = [tail EXCEPT ![c] = live(ok)] /\ conn' = [conn EXCEPT ![d][c] = "dialling"]
    <3>1. tail'[c] = live(ok)  BY <1>1, <2>4 DEF CallsOK
    <3>2. d \in Deployments  BY <1>1, <1>7 DEF CallOK, ReadLogs
    <3>3. conn'[d][c] = "dialling"  BY <1>1, <2>4, <3>2 DEF HubShape
    <3> QED  BY <2>2, <3>1, <3>3 DEF CallServed
  <2> QED  BY <2>1, <2>3, <2>4
<1> QED  BY <1>2, <1>3, <1>4, <1>5, <1>6, <1>7, TailReceivesServed DEF Tailing

(* The invariant behind NoSilentGap.                                       *)
GapOK ==
    /\ OrderlyBuild
    /\ \A p \in Pages : PageServed(p)
    /\ \A c \in Tails : CallServed(c) /\ Ranged(tail[c])

LEMMA GapInit ==
    ASSUME Init
    PROVE  GapOK
<1>1. ASSUME NEW d \in Deployments
      PROVE  Alone(d) /\ Gapless(d)
  <2>1. /\ rows[d] = {} /\ logLineNum[d] = 0 /\ phase[d] \in {"untriggered", "image"}
        /\ \A w \in Writers : writer[d][w].pc = "idle"
    BY DEF Init, LogInit, Idle, Writing
  <2>2. Alone(d)  BY <2>1 DEF Alone, Writers
  <2>3. ~Numbering(d) /\ Numbers(rows[d]) = {}  BY <2>1 DEF Numbering, Numbers
  <2>4. {} = 1..0  OBVIOUS
  <2> QED  BY <2>1, <2>2, <2>3, <2>4 DEF Gapless
<1>2. \A d \in Deployments, v \in Viewers : conn[d][v] = "none"  BY DEF Init, HubInit
<1>3. \A p \in Pages : PageServed(p)  BY <1>2 DEF PageServed
<1>4. ASSUME NEW c \in Tails
      PROVE  CallServed(c) /\ Ranged(tail[c])
  <2>1. tail[c].pc = "idle" /\ tail[c].history = {} /\ tail[c].highest = 0
    BY DEF Init, LogInit, NoCall
  <2> QED  BY <2>1 DEF CallServed, Listening, Ranged, Numbers
<1> QED  BY <1>1, <1>3, <1>4 DEF GapOK, OrderlyBuild

\* Only a viewer's own steps concern what it has.
LEMMA Waiting ==
    ASSUME GapOK, \A d \in Deployments, v \in Viewers : Served(d, v)
    PROVE  /\ \A p \in Pages : page'[p] = page[p] => PageServed(p)'
           /\ \A c \in Tails : tail'[c] = tail[c] => CallServed(c)' /\ Ranged(tail[c])'
<1>1. \A p \in Pages : p \in Viewers  OBVIOUS
<1>2. \A c \in Tails : c \in Viewers  OBVIOUS
<1>3. ASSUME NEW p \in Pages, page'[p] = page[p]
      PROVE  PageServed(p)'
  BY <1>1, <1>3, PageKept DEF GapOK
<1>4. ASSUME NEW c \in Tails, tail'[c] = tail[c]
      PROVE  CallServed(c)' /\ Ranged(tail[c])'
  <2>1. Listening(c)' => Listening(c)  BY <1>4 DEF Listening
  <2>2. CallServed(c)'  BY <1>2, <1>4, <2>1, CallKept DEF GapOK
  <2> QED  BY <1>4, <2>2 DEF GapOK, Ranged
<1> QED  BY <1>3, <1>4

LEMMA GapStep ==
    ASSUME WithinCap, OneScanner, StreamOK, GapOK, StreamsAssumption, DomainAssumption,
           [Next]_vars
    PROVE  GapOK'
<1>1. /\ LogOK /\ BuildOK /\ BuildTypes /\ HubOK /\ \A d \in Deployments : d \in Topics
      /\ PagesOK /\ CallsOK /\ \A v \in Pages \union Tails : v \in Viewers
  BY DEF StreamOK, LogOK, BuildOK
<1>2. ASSUME NEW d \in Deployments, Pipeline(d)
      PROVE  GapOK'
  <2>1. OrderlyBuild'  BY <1>1, <1>2, PipelineOrderly DEF GapOK
  <2>2. \A e \in Deployments, v \in Viewers : Served(e, v)  BY <1>1, <1>2, BackgroundServes
  <2>3. page' = page /\ tail' = tail
    BY <1>2 DEF Pipeline, ScanLine, Number, InsertLine, PublishLine, BuildFails, WriteFailed,
                WriteLive
  <2> QED  BY <2>1, <2>2, <2>3, Waiting DEF GapOK
<1>3. ASSUME NEW q \in Pages, Viewing(q)
      PROVE  GapOK'
  <2>1. /\ UNCHANGED <<logLineNum, writer, rows, tail>>
        /\ \A p \in Pages \ {q} : page'[p] = page[p]
        /\ \/ phase' = phase
           \/ \E d \in Deployments :
                phase[d] = "untriggered" /\ phase' = [phase EXCEPT ![d] = "image"]
    BY <1>1, <1>3 DEF Viewing, OpenPage, LeavePage, DeployAndShow, FetchDeployment, FetchHistory,
                      PageReceives, Render, PagesOK
  <2>2. OrderlyBuild'  BY <1>1, <2>1, OrderlyKept DEF GapOK
  <2>3. Reads(Deployments, q)  BY <1>1, <1>3, ViewingOK
  <2>4. \A d \in Deployments, v \in Viewers \ {q} : Served(d, v)
    BY <1>1, <2>3, OthersServe
  <2>5. PageServed(q)'  BY <1>1, <1>3, ViewingServed DEF GapOK
  <2>6. ASSUME NEW p \in Pages, p # q
        PROVE  PageServed(p)'
    BY <1>1, <2>1, <2>4, <2>6, PageKept DEF GapOK
  <2>7. ASSUME NEW c \in Tails
        PROVE  CallServed(c)' /\ Ranged(tail[c])'
    <3>1. c # q /\ c \in Viewers  BY <1>1 DEF StreamsAssumption
    <3>2. tail'[c] = tail[c] /\ (Listening(c)' => Listening(c))  BY <2>1 DEF Listening
    <3>3. CallServed(c)'  BY <2>4, <3>1, <3>2, CallKept DEF GapOK
    <3> QED  BY <3>2, <3>3 DEF GapOK, Ranged
  <2> QED  BY <2>2, <2>5, <2>6, <2>7 DEF GapOK
<1>4. ASSUME NEW b \in Tails, Tailing(b)
      PROVE  GapOK'
  <2>1. /\ UNCHANGED <<logLineNum, writer, rows, phase, page>>
        /\ \A c \in Tails \ {b} : tail'[c] = tail[c]
    BY <1>1, <1>4 DEF Tailing, ReadStatus, ReadLogs, PollAgain, GiveUp, PollStatus, TailReceives,
                      TailEnds, Ask, Finish, UnchangedByTail, CallsOK
  <2>2. OrderlyBuild'  BY <1>1, <2>1, OrderlyKept DEF GapOK
  <2>3. Reads(Deployments, b)  BY <1>1, <1>4, TailingOK
  <2>4. \A d \in Deployments, v \in Viewers \ {b} : Served(d, v)
    BY <1>1, <2>3, OthersServe
  <2>5. ASSUME NEW p \in Pages
        PROVE  PageServed(p)'
    <3>1. p # b /\ p \in Viewers  BY <1>1 DEF StreamsAssumption
    <3> QED  BY <2>1, <2>4, <3>1, PageKept DEF GapOK
  <2>6. \A c \in Tails : Ranged(tail[c])'  BY <1>1, <1>4, TailingRanged DEF GapOK
  <2>7. CallServed(b)'  BY <1>1, <1>4, TailingServed DEF GapOK
  <2>8. ASSUME NEW c \in Tails, c # b
        PROVE  CallServed(c)'
    <3>1. c \in Viewers  BY <1>1
    <3>2. tail'[c] = tail[c] /\ (Listening(c)' => Listening(c))  BY <2>1, <2>8 DEF Listening
    <3> QED  BY <2>4, <2>8, <3>1, <3>2, CallKept DEF GapOK
  <2> QED  BY <2>2, <2>5, <2>6, <2>7, <2>8 DEF GapOK
<1>5. ASSUME UNCHANGED logVars, \A d \in Deployments, v \in Viewers : Served(d, v)
      PROVE  GapOK'
  <2>1. UNCHANGED <<logLineNum, writer, rows, phase, page, tail>>  BY <1>5 DEF logVars
  <2>2. OrderlyBuild'  BY <1>1, <2>1, OrderlyKept DEF GapOK
  <2> QED  BY <1>5, <2>1, <2>2, Waiting DEF GapOK
<1>6. CASE BuildStep
  <2>1. CASE Connections /\ Unmoved
    BY <1>1, <1>5, <2>1, BackgroundServes DEF Unmoved
  <2> QED  BY <1>2, <1>3, <1>4, <1>6, <2>1 DEF BuildStep, LogNext
<1>7. CASE DomainStep(DomainNext) \/ UNCHANGED vars
  <2>1. UNCHANGED logVars  BY <1>7 DEF DomainStep, vars
  <2>2. \A d \in Deployments, v \in Viewers : Served(d, v)  BY <1>7, VerificationsServe
  <2> QED  BY <1>5, <2>1, <2>2
<1> QED  BY <1>6, <1>7 DEF Next

LEMMA GapClosed ==
    ASSUME StreamOK, GapOK, StreamsAssumption
    PROVE  NoSilentGap
<1>1. /\ LogOK /\ HubShape /\ PagesOK /\ CallsOK /\ \A d \in Deployments : d \in Topics
      /\ None \notin Deployments
  BY DEF StreamOK, LogOK, HubOK, StreamsAssumption
<1>2. \A d \in Deployments, v \in Viewers :
        published[d] \subseteq Taken(d, v) \union Lines(channel[d][v]) \union withheld[d][v]
  BY DEF Taken
<1>3. \A A, B, C, D : A \subseteq B \union C \union D =>
        Numbers(A) \subseteq Numbers(B) \union Numbers(C) \union Numbers(D)
  BY DEF Numbers
<1>4. \A A, B, C : Numbers(A \union B \union C) = Numbers(A) \union Numbers(B) \union Numbers(C)
  BY DEF Numbers
<1>5. \A A, B : Numbers(A) \union Numbers(B)
                  \subseteq Numbers(A \union {l \in B : l.n \notin Numbers(A)})
  BY DEF Numbers
<1>6. ASSUME NEW p \in Pages, NEW d \in Deployments, d = Shown(p), OwnStream(p),
             conn[d][p] = "open"
      PROVE  Numbers(published[d]) \subseteq
               Numbers(AllLogs(p) \union Lines(channel[d][p]) \union withheld[d][p])
  <2>1. Numbers(published[d]) \subseteq Numbers(Taken(d, p)) \union Numbers(Lines(channel[d][p]))
                                          \union Numbers(withheld[d][p])
    BY <1>1, <1>2, <1>3
  <2>2. Own(page[p])  BY <1>6 DEF OwnStream, Own, Shown
  <2>3. Numbers(Taken(d, p)) \subseteq Seen(page[p], d)  BY <1>6, <2>2 DEF GapOK, PageServed
  <2>4. Seen(page[p], d) = Numbers(History(p)) \union Numbers(Lines(page[p].stream))
    BY <1>6 DEF Seen, History
  <2>5. Seen(page[p], d) \subseteq Numbers(AllLogs(p))  BY <1>5, <2>4 DEF AllLogs
  <2> QED  BY <1>4, <2>1, <2>3, <2>5
<1>7. ASSUME NEW c \in Tails, NEW d \in Deployments, d = tail[c].d, Listening(c),
             conn[d][c] = "open"
      PROVE  Numbers(published[d]) \subseteq
               Numbers(Merged(c) \union Lines(channel[d][c]) \union withheld[d][c])
  <2>1. Numbers(published[d]) \subseteq Numbers(Taken(d, c)) \union Numbers(Lines(channel[d][c]))
                                          \union Numbers(withheld[d][c])
    BY <1>1, <1>2, <1>3
  <2>2. Numbers(Taken(d, c)) \subseteq
          Numbers(tail[c].history) \union Numbers(Lines(tail[c].lines))
    BY <1>7 DEF GapOK, CallServed
  <2>3. Numbers(tail[c].history) \union Numbers(Lines(tail[c].lines)) \subseteq Numbers(Merged(c))
    BY <1>5 DEF Merged
  <2> QED  BY <1>4, <2>1, <2>2, <2>3
<1>8. \A p \in Pages : Shown(p) # None => Shown(p) \in Deployments
  BY <1>1 DEF PagesOK, PageType, Shown
<1>9. \A c \in Tails : Listening(c) => tail[c].d \in Deployments
  BY <1>1 DEF CallsOK, CallOK, Listening
<1> QED  BY <1>6, <1>7, <1>8, <1>9 DEF NoSilentGap

(* A connected page shows, and a listening tool will return, every line    *)
(* number of the session that the hub did not withhold from it or still    *)
(* holds for it (hub.go: Publish, Subscribe; useBuildLogs.ts and           *)
(* DeploymentDetail.tsx; workflows.ts: tailDeploymentLogs).  The hook's    *)
(* cap of 5000 lines is assumed to be more than a build prints, and        *)
(* docker's output to come through one of its two streams: with two        *)
(* scanners the unsynchronised counter of docker.go and pipeline.go can    *)
(* leave out a number that is lower than the highest of the history.       *)
THEOREM NothingMissed ==
    ASSUME WithinCap, OneScanner
    PROVE  Spec => []NoSilentGap
<1>1. StreamsAssumption /\ DomainAssumption  BY StreamsAssumption, DomainAssumption
<1>2. Init => GapOK  BY GapInit
<1>3. StreamOK /\ GapOK /\ [Next]_vars => GapOK'  BY <1>1, GapStep
<1>4. StreamOK /\ GapOK => NoSilentGap  BY <1>1, GapClosed
<1>5. Spec => []StreamOK  BY <1>1, StreamInv
<1> QED  BY <1>2, <1>3, <1>4, <1>5, PTL DEF Spec

-----------------------------------------------------------------------------
(* The verdicts.  While a verification runs its verdict is nowhere yet;    *)
(* what the hub carries of a domain is of this session or an earlier one.  *)
Late == run.pc \in {"idle", "release", "moving"}

Past(d) ==
    {e \in Event : /\ e.topic = d /\ e.session <= sessions
                   /\ e.text \in Verdicts /\ e.session = sessions => Late}

Fits(text, entry) ==
    entry \in IF text = "success" THEN {"ready", "absent"} ELSE {"pending", "absent"}

\* What the goroutine knows of the row it is about to report.
RunOK ==
    /\ run.pc # "idle" => row[run.d].state # "unclaimed"
    /\ run.pc = "provision" /\ Listed(run.d) => row[run.d].dns
    /\ run.pc = "conclude" => Fits(run.verdict, Entry(run.d))

\* A verdict in the session of d is what the row of d says.
VerdictOf(d) ==
    \A e \in published[d] : e.text \in Verdicts =>
        /\ row[d].state # "unclaimed" /\ Fits(e.text, Entry(d))
        /\ run.d = d => run.pc \in {"answered", "release", "moving"}

Honest(v) ==
    /\ \A e \in v.heard : e.topic \in Domains /\ e \in Past(e.topic) /\ e.text \in Verdicts
    /\ ~v.owed => \A e \in v.heard :
                    e \in published[e.topic] => Fits(e.text, v.list[e.topic])

VerdictsOK ==
    /\ \A d \in Domains : Carries(d, Past(d)) /\ VerdictOf(d)
    /\ RunOK
    /\ \A p \in Visits : Honest(visit[p])

LEMMA PastGrows ==
    ASSUME DomainTypes, DomainAssumption,
           \/ sessions' = sessions /\ (Late => Late')
           \/ sessions' = sessions + 1
    PROVE  \A d : Past(d) \subseteq Past(d)'
<1>1. sessions \in Nat
  <2>1. sessions \in 0..MaxSessions /\ MaxSessions \in Nat  BY DEF DomainTypes, DomainAssumption
  <2> QED  BY <2>1
<1>2. SUFFICES ASSUME NEW d, NEW e \in Event, e.topic = d, e.session <= sessions,
                      e.text \in Verdicts /\ e.session = sessions => Late
               PROVE  /\ e.session <= sessions'
                      /\ e.text \in Verdicts /\ e.session = sessions' => Late'
  BY DEF Past
<1>3. e.session \in Nat  BY DEF Event
<1>4. CASE sessions' = sessions /\ (Late => Late')  BY <1>2, <1>4
<1>5. CASE sessions' = sessions + 1
  <2>1. e.session <= sessions' /\ e.session # sessions'  BY <1>1, <1>2, <1>3, <1>5
  <2> QED  BY <2>1
<1> QED  BY <1>4, <1>5

LEMMA CarriesPast ==
    ASSUME HubOK, DomainAssumption, Moves(Domains), \A d \in Domains : Carries(d, Past(d)),
           \A d \in Domains : Past(d) \subseteq Past(d)' /\ published'[d] \subseteq Past(d)'
    PROVE  \A d \in Domains : Carries(d, Past(d))'
<1>1. SUFFICES ASSUME NEW d \in Domains
               PROVE  Carries(d, Past(d))'
  OBVIOUS
<1>2. PICK L : L = Past(d)'  OBVIOUS
<1>3. Carries(d, L)
  <2>1. Past(d) \subseteq L /\ Carries(d, Past(d))  BY <1>2
  <2> QED  BY <2>1, SeqSubset DEF Carries
<1>4. HubShape /\ d \in Topics /\ \A t \in Domains : t \in Topics  BY DEF HubOK, DomainAssumption
<1>5. ASSUME NEW t \in Domains, NEW line \in Message, Publish(t, line)
      PROVE  t = d => line \in L
  <2>1. line \in published'[t]  BY <1>4, <1>5 DEF Publish, HubShape
  <2> QED  BY <1>2, <2>1
<1>6. Carries(d, L)'
  <2>1. CASE \E r : Reads(Domains, r)  BY <1>3, <1>4, <2>1, ReadsCarries
  <2>2. CASE \E t \in Domains, v \in Viewers : Subscribe(t, v) \/ Unsubscribe(t, v)
    BY <1>3, <1>4, <2>2, SubscribeCarries, UnsubscribeCarries
  <2>3. CASE \E t \in Domains : ResetBuffer(t)  BY <1>3, <1>4, <2>3, ResetCarries
  <2>4. ASSUME NEW t \in Domains, NEW line \in Message, Publish(t, line)
        PROVE  Carries(d, L)'
    BY <1>3, <1>4, <1>5, <2>4, PublishCarries
  <2> QED  BY <2>1, <2>2, <2>3, <2>4 DEF Moves
<1> QED  BY <1>2, <1>6 DEF Carries

LEMMA HonestKept ==
    ASSUME NEW v, Honest(v), \A d \in Domains : Past(d) \subseteq Past(d)',
           \A d \in Domains : \A e \in published'[d] :
               e \in published[d] \/ e \notin Past(d) \/ e.text \notin Verdicts
    PROVE  Honest(v)'
<1>1. \A e \in v.heard : e.topic \in Domains /\ e \in Past(e.topic) /\ e.text \in Verdicts
  BY DEF Honest
<1>2. \A e \in v.heard : e \in Past(e.topic)'  BY <1>1
<1>3. ASSUME ~v.owed, NEW e \in v.heard, e \in published'[e.topic]
      PROVE  Fits(e.text, v.list[e.topic])
  <2>1. e \in published[e.topic]  BY <1>1, <1>3
  <2> QED  BY <1>3, <2>1 DEF Honest
<1> QED  BY <1>1, <1>2, <1>3 DEF Honest, Fits

LEMMA AllHonest ==
    ASSUME \A q \in Visits : Honest(visit'[q]), \A d \in Domains : Past(d) \subseteq Past(d)',
           \A d \in Domains : \A e \in published'[d] :
               e \in published[d] \/ e \notin Past(d) \/ e.text \notin Verdicts
    PROVE  \A q \in Visits : Honest(visit[q])'
<1>1. SUFFICES ASSUME NEW q \in Visits
               PROVE  Honest(visit[q])'
  OBVIOUS
<1>2. PICK v : v = visit'[q]  OBVIOUS
<1>3. Honest(v)  BY <1>2
<1>4. Honest(v)'  BY <1>3, HonestKept
<1> QED  BY <1>2, <1>4 DEF Honest

LEMMA Rerendered ==
    ASSUME visit \in [Visits -> VisitState], NEW p \in Visits, NEW v \in VisitState, Honest(v),
           Rerender(p, v), \A q \in Visits : Honest(visit[q])
    PROVE  \A q \in Visits : Honest(visit'[q])
<1>1. ASSUME NEW d \in Domains
      PROVE  Honest(Asking(v, d))
  <2>1. /\ Asking(v, d).heard = v.heard /\ Asking(v, d).owed = v.owed
        /\ Asking(v, d).list = v.list
    BY DEF Asking, VisitState, VisitType
  <2> QED  BY <2>1 DEF Honest
<1>2. visit'[p] = v \/ \E d \in Domains : visit'[p] = Asking(v, d)
  BY DEF Rerender, Due
<1>3. \A q \in Visits \ {p} : visit'[q] = visit[q]  BY DEF Rerender
<1>4. Honest(visit'[p])  BY <1>1, <1>2
<1> QED  BY <1>3, <1>4

\* A step of a page that changes neither the row nor the goroutine.
LEMMA PageVerdicts ==
    ASSUME DomainOK, DomainAssumption, VerdictsOK, Moves(Domains), Elsewhere,
           \A d \in Domains : published'[d] = published[d],
           \A q \in Visits : Honest(visit'[q])
    PROVE  VerdictsOK'
<1>1. /\ DomainTypes /\ HubOK /\ sessions' = sessions /\ run' = run /\ row' = row
      /\ \A d \in Domains : Carries(d, Past(d)) /\ VerdictOf(d)
  BY DEF DomainOK, Elsewhere, VerdictsOK
<1>2. \A d : Past(d)' = Past(d)  BY <1>1 DEF Past, Late
<1>3. \A d \in Domains : published'[d] \subseteq Past(d)'  BY <1>1, <1>2 DEF Carries
<1>4. \A d \in Domains : Carries(d, Past(d))'  BY <1>1, <1>2, <1>3, CarriesPast
<1>5. \A d \in Domains : VerdictOf(d)'
  BY <1>1 DEF VerdictOf, Entry, Listed
<1>6. RunOK'  BY <1>1 DEF VerdictsOK, RunOK, Entry, Listed
<1>7. \A q \in Visits : Honest(visit[q])'  BY <1>2, AllHonest
<1> QED  BY <1>4, <1>5, <1>6, <1>7 DEF VerdictsOK

LEMMA AcceptedVerdicts ==
    ASSUME DomainOK, DomainAssumption, StreamsAssumption, VerdictsOK, NEW d \in Domains,
           Accepted(d), UNCHANGED hubVars, \A q \in Visits : Honest(visit'[q])
    PROVE  VerdictsOK'
<1>1. /\ DomainTypes /\ HubOK /\ sessions' = sessions + 1 /\ row' = row
      /\ run'.d = d /\ run'.pc = "answered" /\ Listed(d) /\ published' = published
      /\ \A e \in Domains : Carries(e, Past(e)) /\ VerdictOf(e)
  BY DEF DomainOK, Accepted, VerdictsOK, hubVars, NoRun
<1>2. \A e : Past(e) \subseteq Past(e)'  BY <1>1, PastGrows
<1>3. Moves(Domains)
  <2>1. Reads(Domains, Nobody)  BY <1>1, StillReads
  <2> QED  BY <2>1 DEF Moves
<1>4. \A e \in Domains : published'[e] \subseteq Past(e)'
  <2>1. \A e \in Domains : published[e] \subseteq Past(e)  BY <1>1 DEF Carries
  <2> QED  BY <1>1, <1>2, <2>1
<1>5. \A e \in Domains : Carries(e, Past(e))'  BY <1>1, <1>2, <1>3, <1>4, CarriesPast
<1>6. \A e \in Domains : VerdictOf(e)'  BY <1>1 DEF VerdictOf, Entry, Listed
<1>7. RunOK'  BY <1>1 DEF RunOK, Listed
<1>8. \A q \in Visits : Honest(visit[q])'  BY <1>1, <1>2, AllHonest
<1> QED  BY <1>5, <1>6, <1>7, <1>8 DEF VerdictsOK

LEMMA VerifyVerdicts ==
    ASSUME DomainOK, DomainAssumption, StreamsAssumption, VerdictsOK, NEW p \in Visits,
           ServeVerify(p)
    PROVE  VerdictsOK'
<1>1. /\ visit \in [Visits -> VisitState] /\ visit[p] \in VisitState
      /\ visit[p].asking \in Domains \union {Nobody} /\ HubOK
  BY VisitFacts
<1>2. visit[p].asking \in Domains  BY <1>1 DEF ServeVerify, VisitState
<1>3. ASSUME NEW x, visit' = [visit EXCEPT ![p].reply = x]
      PROVE  \A q \in Visits : Honest(visit'[q])
  <2>1. /\ visit'[p].heard = visit[p].heard /\ visit'[p].owed = visit[p].owed
        /\ visit'[p].list = visit[p].list
        /\ \A q \in Visits \ {p} : visit'[q] = visit[q]
    BY <1>1, <1>3 DEF VisitState, VisitType
  <2>2. Honest(visit[p])  BY DEF VerdictsOK
  <2>3. Honest(visit'[p])  BY <2>1, <2>2 DEF Honest
  <2> QED  BY <2>1, <2>3 DEF VerdictsOK
<1>4. UNCHANGED hubVars /\ \A q \in Visits : Honest(visit'[q])
  BY <1>3 DEF ServeVerify
<1>5. CASE Accepted(visit[p].asking)  BY <1>2, <1>4, <1>5, AcceptedVerdicts
<1>6. CASE Elsewhere
  <2>1. Moves(Domains)
    <3>1. Reads(Domains, Nobody)  BY <1>1, <1>4, StillReads
    <3> QED  BY <3>1 DEF Moves
  <2>2. published' = published  BY <1>4 DEF hubVars
  <2> QED  BY <1>4, <1>6, <2>1, <2>2, PageVerdicts
<1> QED  BY <1>5, <1>6 DEF ServeVerify

\* The owner's other requests: the list is owed from then on.
LEMMA OwnerVerdicts ==
    ASSUME DomainOK, DomainAssumption, StreamsAssumption, VerdictsOK, NEW p \in Visits,
           NEW d \in Domains, AddDomain(p, d) \/ DeleteDomain(p, d) \/ MoveDomain(p, d)
    PROVE  VerdictsOK'
<1>1. /\ visit \in [Visits -> VisitState] /\ visit[p] \in VisitState
      /\ row \in [Domains -> RowType] /\ HubOK /\ DomainTypes
      /\ (verifying = Nobody <=> run.pc = "idle") /\ verifying = run.d
      /\ Nobody \notin Domains /\ run \in RunType
      /\ \A e \in Domains : Carries(e, Past(e)) /\ VerdictOf(e)
  BY VisitFacts DEF DomainTypes, DomainAssumption, StreamsAssumption, VerdictsOK
<1>2. CASE UNCHANGED <<row, verifying, run, visit, sessions, hubVars>>
  <2>1. Moves(Domains) /\ published' = published
    <3>1. Reads(Domains, Nobody)  BY <1>1, <1>2, StillReads
    <3> QED  BY <1>2, <3>1 DEF Moves, hubVars
  <2> QED  BY <1>2, <2>1, PageVerdicts DEF Elsewhere, VerdictsOK
<1>3. ASSUME visit' = [visit EXCEPT ![p].owed = TRUE], UNCHANGED <<sessions, hubVars>>,
             Late => Late', RunOK', \A e \in Domains : VerdictOf(e)'
      PROVE  VerdictsOK'
  <2>1. /\ visit'[p].heard = visit[p].heard /\ visit'[p].owed
        /\ \A q \in Visits \ {p} : visit'[q] = visit[q]
    BY <1>1, <1>3 DEF VisitState, VisitType
  <2>2. \A q \in Visits : Honest(visit'[q])  BY <2>1 DEF Honest, VerdictsOK
  <2>3. \A e : Past(e) \subseteq Past(e)'  BY <1>1, <1>3, PastGrows
  <2>4. published' = published  BY <1>3 DEF hubVars
  <2>5. Moves(Domains)
    <3>1. Reads(Domains, Nobody)  BY <1>1, <1>3, StillReads
    <3> QED  BY <3>1 DEF Moves
  <2>6. \A e \in Domains : published'[e] \subseteq Past(e)'
    <3>1. \A e \in Domains : published[e] \subseteq Past(e)  BY <1>1 DEF Carries
    <3> QED  BY <2>3, <2>4, <3>1
  <2>7. \A e \in Domains : Carries(e, Past(e))'
    BY <1>1, <2>3, <2>5, <2>6, CarriesPast
  <2>8. \A q \in Visits : Honest(visit[q])'  BY <2>2, <2>3, <2>4, AllHonest
  <2> QED  BY <1>3, <2>7, <2>8 DEF VerdictsOK
<1>4. ASSUME NEW x \in {"listed", "deleted"}, row' = [row EXCEPT ![d].state = x],
             UNCHANGED <<run, hubVars>>
      PROVE  /\ (Late => Late') /\ published' = published
             /\ row'[d].state = x /\ row'[d].dns = row[d].dns
             /\ \A e \in Domains \ {d} : row'[e] = row[e]
  BY <1>1, <1>4 DEF Late, RowType, hubVars
<1>5. CASE AddDomain(p, d)
  <2>1. /\ row[d].state = "unclaimed" /\ row' = [row EXCEPT ![d].state = "listed"]
        /\ UNCHANGED <<run, sessions, hubVars>> /\ visit' = [visit EXCEPT ![p].owed = TRUE]
    BY <1>5 DEF AddDomain
  <2>2. /\ (Late => Late') /\ published' = published
        /\ \A e \in Domains \ {d} : row'[e] = row[e]
    BY <1>4, <2>1
  <2>3. run.d # d  BY <1>1, <2>1 DEF VerdictsOK, RunOK
  <2>4. run.pc # "idle" => run.d \in Domains /\ row'[run.d] = row[run.d]
    BY <1>1, <2>2, <2>3 DEF RunType
  <2>5. RunOK'  BY <2>1, <2>4 DEF VerdictsOK, RunOK, Listed, Entry, Ready
  <2>6. VerdictOf(d)'
    <3>1. \A e \in published[d] : e.text \notin Verdicts  BY <1>1, <2>1 DEF VerdictOf
    <3>2. published'[d] = published[d]  BY <2>2
    <3> QED  BY <3>1, <3>2 DEF VerdictOf
  <2>7. \A e \in Domains \ {d} : VerdictOf(e)'
    BY <1>1, <2>1, <2>2 DEF VerdictOf, Entry, Listed, Ready
  <2> QED  BY <1>3, <2>1, <2>2, <2>5, <2>6, <2>7
<1>6. CASE DeleteDomain(p, d)
  <2>1. /\ row' = [row EXCEPT ![d].state = "deleted"]
        /\ UNCHANGED <<run, sessions, hubVars>> /\ visit' = [visit EXCEPT ![p].owed = TRUE]
    BY <1>6 DEF DeleteDomain
  <2>2. /\ (Late => Late') /\ published' = published /\ row'[d].state = "deleted"
        /\ \A e \in Domains \ {d} : row'[e] = row[e]
    BY <1>4, <2>1
  <2>3. Entry(d)' = "absent" /\ ~Listed(d)'  BY <2>2 DEF Entry, Listed, Ready
  <2>4. \A text : Fits(text, "absent")  BY DEF Fits
  <2>5. RunOK'
    <3>1. CASE run.d = d  BY <2>1, <2>2, <2>3, <2>4, <3>1 DEF RunOK
    <3>2. CASE run.d # d
      <4>1. run.pc # "idle" => row'[run.d] = row[run.d]
        BY <1>1, <2>2, <3>2 DEF RunType
      <4> QED  BY <2>1, <4>1 DEF VerdictsOK, RunOK, Listed, Entry, Ready
    <3> QED  BY <3>1, <3>2
  <2>6. VerdictOf(d)'
    <3>1. VerdictOf(d)  BY <1>1
    <3> QED  BY <2>1, <2>2, <2>3, <2>4, <3>1 DEF VerdictOf
  <2>7. \A e \in Domains \ {d} : VerdictOf(e)'
    BY <1>1, <2>1, <2>2 DEF VerdictOf, Entry, Listed, Ready
  <2> QED  BY <1>3, <2>1, <2>2, <2>5, <2>6, <2>7
<1>7. CASE MoveDomain(p, d)
  <2>1. CASE verifying = Nobody
    <3>1. /\ Listed(d) /\ run' = [NoRun EXCEPT !.d = d, !.pc = "moving"]
          /\ visit' = [visit EXCEPT ![p].owed = TRUE] /\ UNCHANGED <<row, sessions, hubVars>>
      BY <1>7, <2>1 DEF MoveDomain
    <3>2. run'.pc = "moving" /\ run'.d = d  BY <3>1 DEF NoRun
    <3>3. Late' /\ RunOK'  BY <3>1, <3>2 DEF Late, RunOK, Listed
    <3>4. \A e \in Domains : VerdictOf(e)'
      BY <1>1, <3>1, <3>2 DEF VerdictOf, Entry, Listed, Ready, hubVars
    <3> QED  BY <1>3, <3>1, <3>3, <3>4
  <2>2. CASE verifying # Nobody
    BY <1>2, <1>7, <2>2 DEF MoveDomain
  <2> QED  BY <2>1, <2>2
<1> QED  BY <1>5, <1>6, <1>7

LEMMA PageSteps ==
    ASSUME DomainOK, DomainAssumption, StreamsAssumption, VerdictsOK, NEW p \in Visits,
           \/ OpenSettings(p) \/ LeaveSettings(p) \/ FetchDomains(p) \/ ReplyArrives(p)
           \/ Minimise(p)
           \/ \E d \in Domains : ClickVerify(p, d) \/ HearEvent(p, d) \/ SocketFails(p, d)
    PROVE  VerdictsOK'
<1>1. /\ visit \in [Visits -> VisitState] /\ visit[p] \in VisitState /\ HubOK
      /\ visit[p].asking \in Domains \union {Nobody}
      /\ \A q \in Visits : Honest(visit[q])
      /\ \A d \in Domains : Carries(d, Past(d)) /\ VerdictOf(d)
  BY VisitFacts DEF VerdictsOK
<1>2. Moves(Domains)
  <2>1. DomainNext  BY DEF DomainNext, Visiting
  <2> QED  BY <2>1, DomainStepOK DEF DomainMoves
<1>3. Elsewhere /\ published' = published
  BY DEF OpenSettings, LeaveSettings, FetchDomains, ReplyArrives, Minimise, ClickVerify,
         HearEvent, SocketFails, Redial, hubVars, hubHistory
<1>4. SUFFICES \A q \in Visits : Honest(visit'[q])
  BY <1>2, <1>3, PageVerdicts
<1>5. ASSUME NEW v \in VisitState, Rerender(p, v), v.list = visit[p].list,
             \/ v.heard = visit[p].heard /\ (v.owed = visit[p].owed \/ v.owed)
             \/ v.heard = {}
      PROVE  \A q \in Visits : Honest(visit'[q])
  <2>1. Honest(v)  BY <1>1, <1>5 DEF Honest
  <2> QED  BY <1>1, <1>5, <2>1, Rerendered
<1>6. CASE OpenSettings(p)
  <2> DEFINE v == [visit[p] EXCEPT !.open = TRUE, !.owed = TRUE]
  <2>1. v \in VisitState /\ v.list = visit[p].list /\ v.heard = visit[p].heard /\ v.owed
    BY <1>1 DEF VisitType, VisitState
  <2>2. Rerender(p, v)  BY <1>6 DEF OpenSettings
  <2> HIDE DEF v
  <2> QED  BY <1>5, <2>1, <2>2
<1>7. CASE LeaveSettings(p)
  <2> DEFINE v == [ClosedVisit EXCEPT !.list = visit[p].list]
  <2>1. visit' = [visit EXCEPT ![p] = v] /\ v.heard = {}
    BY <1>7 DEF LeaveSettings, ClosedVisit
  <2> HIDE DEF v
  <2>2. Honest(v)  BY <2>1 DEF Honest
  <2> QED  BY <1>1, <2>1, <2>2
<1>8. CASE FetchDomains(p)
  <2> DEFINE list == [d \in Domains |-> Entry(d)]
             v == [visit[p] EXCEPT !.owed = FALSE, !.list = list]
  <2>1. Rerender(p, v)  BY <1>8 DEF FetchDomains
  <2>2. \A d \in Domains : Entry(d) \in {"unknown", "absent", "pending", "ready"}  BY DEF Entry
  <2>3. list \in [Domains -> {"unknown", "absent", "pending", "ready"}]
        /\ \A d \in Domains : list[d] = Entry(d)
    BY <2>2
  <2> HIDE DEF list
  <2>4. v \in VisitState /\ v.list = list /\ v.heard = visit[p].heard
    BY <1>1, <2>3 DEF VisitType, VisitState
  <2> HIDE DEF v
  <2>5. \A e \in visit[p].heard : e.topic \in Domains /\ e \in Past(e.topic) /\ e.text \in Verdicts
    BY <1>1 DEF Honest
  <2>6. \A e \in visit[p].heard : e \in published[e.topic] => Fits(e.text, list[e.topic])
    BY <1>1, <2>3, <2>5 DEF VerdictOf
  <2>7. Honest(v)  BY <2>4, <2>5, <2>6 DEF Honest
  <2> QED  BY <1>1, <2>1, <2>4, <2>7, Rerendered
<1>9. CASE ReplyArrives(p)
  <2> DEFINE settled == [visit[p] EXCEPT !.asking = Nobody, !.reply = "none"]
             following == [settled EXCEPT !.verifying = visit[p].asking, !.state = "following",
                                          !.heard = {}]
  <2>1. Rerender(p, following) \/ Rerender(p, settled)  BY <1>9 DEF ReplyArrives
  <2>2. /\ settled \in VisitState /\ settled.list = visit[p].list
        /\ settled.heard = visit[p].heard /\ settled.owed = visit[p].owed
    BY <1>1 DEF VisitType, VisitState
  <2>3. following \in VisitState /\ following.list = visit[p].list /\ following.heard = {}
    BY <1>1 DEF VisitType, VisitState
  <2> HIDE DEF settled, following
  <2> QED  BY <1>5, <2>1, <2>2, <2>3
<1>10. CASE Minimise(p)
  <2> DEFINE v == [visit[p] EXCEPT !.verifying = Nobody]
  <2>1. /\ v \in VisitState /\ v.list = visit[p].list /\ v.heard = visit[p].heard
        /\ v.owed = visit[p].owed
    BY <1>1 DEF VisitType, VisitState
  <2>2. Rerender(p, v)  BY <1>10 DEF Minimise
  <2> HIDE DEF v
  <2> QED  BY <1>5, <2>1, <2>2
<1>11. ASSUME NEW d \in Domains, ClickVerify(p, d)
       PROVE  \A q \in Visits : Honest(visit'[q])
  <2> DEFINE v == Asking(visit[p], d)
  <2>1. /\ v.list = visit[p].list /\ v.heard = visit[p].heard /\ v.owed = visit[p].owed
        /\ visit' = [visit EXCEPT ![p] = v]
    BY <1>1, <1>11 DEF VisitType, VisitState, Asking, ClickVerify
  <2> HIDE DEF v
  <2>2. Honest(v)  BY <1>1, <2>1 DEF Honest
  <2> QED  BY <1>1, <2>1, <2>2
<1>12. ASSUME NEW d \in Domains, HearEvent(p, d)
       PROVE  \A q \in Visits : Honest(visit'[q])
  <2> DEFINE line == Head(channel[d][p])
             v == [visit[p] EXCEPT !.state = line.text, !.heard = {line}, !.owed = TRUE]
  <2>1. channel[d][p] # <<>>
        /\ Rerender(p, IF line.text \in Verdicts THEN v ELSE visit[p])
    BY <1>12 DEF HearEvent
  <2>2. p \in Viewers  BY DEF DomainAssumption
  <2>3. line \in Past(d)  BY <1>1, <2>1, <2>2, LinesOfTail DEF Carries
  <2> HIDE DEF line
  <2>4. line.topic = d /\ line \in Event  BY <2>3 DEF Past
  <2>5. CASE line.text \in Verdicts
    <3>1. v \in VisitState /\ v.heard = {line} /\ v.owed
      BY <1>1, <2>4, <2>5 DEF VisitType, VisitState
    <3> HIDE DEF v
    <3>2. Honest(v)  BY <2>3, <2>4, <2>5, <3>1 DEF Honest
    <3> QED  BY <1>1, <2>1, <2>5, <3>1, <3>2, Rerendered
  <2>6. CASE line.text \notin Verdicts  BY <1>1, <2>1, <2>6, Rerendered
  <2> QED  BY <2>5, <2>6
<1>13. ASSUME NEW d \in Domains, SocketFails(p, d)
       PROVE  \A q \in Visits : Honest(visit'[q])
  <2> DEFINE v == [visit[p] EXCEPT !.state = "error", !.owed = TRUE]
  <2>1. v \in VisitState /\ v.list = visit[p].list /\ v.heard = visit[p].heard /\ v.owed
    BY <1>1 DEF VisitType, VisitState, Verdicts
  <2>2. Rerender(p, v) \/ UNCHANGED visit  BY <1>13 DEF SocketFails
  <2> HIDE DEF v
  <2> QED  BY <1>1, <1>5, <2>1, <2>2
<1> QED  BY <1>6, <1>7, <1>8, <1>9, <1>10, <1>11, <1>12, <1>13

\* A step of the goroutine.
LEMMA RunVerdicts ==
    ASSUME DomainOK, DomainAssumption, VerdictsOK, Moves(Domains), RunOK',
           sessions' = sessions, visit' = visit, Late => Late',
           \A d \in Domains : VerdictOf(d)',
           \A d \in Domains : \A e \in published'[d] :
               \/ e \in published[d]
               \/ e \in Past(d)' /\ (e \notin Past(d) \/ e.text \notin Verdicts)
    PROVE  VerdictsOK'
<1>1. DomainTypes /\ HubOK /\ \A d \in Domains : Carries(d, Past(d))
  BY DEF DomainOK, VerdictsOK
<1>2. \A d : Past(d) \subseteq Past(d)'  BY <1>1, PastGrows
<1>3. \A d \in Domains : published'[d] \subseteq Past(d)'
  <2>1. \A d \in Domains : published[d] \subseteq Past(d)  BY <1>1 DEF Carries
  <2> QED  BY <1>2, <2>1
<1>4. \A d \in Domains : Carries(d, Past(d))'  BY <1>1, <1>2, <1>3, CarriesPast
<1>5. \A q \in Visits : Honest(visit'[q])  BY DEF VerdictsOK
<1>6. \A q \in Visits : Honest(visit[q])'  BY <1>2, <1>5, AllHonest
<1> QED  BY <1>4, <1>6 DEF VerdictsOK

LEMMA VerificationVerdicts ==
    ASSUME DomainOK, DomainAssumption, StreamsAssumption, VerdictsOK, Verification
    PROVE  VerdictsOK'
<1>1. /\ DomainTypes /\ HubOK /\ row \in [Domains -> RowType] /\ run \in RunType
      /\ Nobody \notin Domains /\ RunOK /\ \A d \in Domains : VerdictOf(d)
      /\ verifying = run.d /\ (verifying = Nobody <=> run.pc = "idle")
  BY DEF DomainOK, DomainTypes, StreamsAssumption, DomainAssumption, VerdictsOK
<1>2. Moves(Domains)
  <2>1. DomainNext  BY DEF DomainNext
  <2> QED  BY <2>1, DomainStepOK DEF DomainMoves
<1>3. UNCHANGED <<sessions, visit>> /\ run.pc # "idle"
  BY DEF Verification, StartSession, CheckDNS, RecordMissing, RecordFound, Provision, Conclude,
         Release
<1>4. run.d \in Domains /\ run.d \in Topics  BY <1>1, <1>3 DEF RunType, DomainAssumption
<1>5. PICK k : k = run.d  OBVIOUS
<1>6. k \in Domains /\ k \in Topics /\ row[k] \in RowType /\ row[k].state # "unclaimed"
  BY <1>1, <1>3, <1>4, <1>5 DEF RunOK
<1>7. ASSUME run' \in RunType, run'.d = k, run.pc \in {"dns", "missing", "found", "provision"},
             run'.pc \in {"missing", "found", "provision", "conclude"}, RunOK',
             \A d \in Domains \ {k} : row'[d] = row[d],
             \A d \in Domains : \A e \in published'[d] :
                 e \in published[d] \/ (e \in Past(d)' /\ e.text \notin Verdicts)
      PROVE  VerdictsOK'
  <2>1. Late => Late'  BY <1>7 DEF Late
  <2>2. VerdictOf(k)'
    <3>1. \A e \in published[k] : e.text \notin Verdicts
      BY <1>1, <1>5, <1>6, <1>7 DEF VerdictOf
    <3> QED  BY <1>6, <1>7, <3>1 DEF VerdictOf
  <2>3. ASSUME NEW d \in Domains, d # k
        PROVE  VerdictOf(d)'
    <3>1. Entry(d)' = Entry(d) /\ row'[d] = row[d]  BY <1>7, <2>3 DEF Entry, Listed, Ready
    <3>2. \A e \in published'[d] : e.text \in Verdicts => e \in published[d]  BY <1>7
    <3> QED  BY <1>1, <1>7, <2>3, <3>1, <3>2 DEF VerdictOf
  <2> QED  BY <1>2, <1>3, <1>7, <2>1, <2>2, <2>3, RunVerdicts
<1>8. ASSUME NEW r \in RowType, r.state = row[k].state, row' = Written(k, r)
      PROVE  /\ row'[k].state = row[k].state /\ \A d \in Domains \ {k} : row'[d] = row[d]
             /\ Listed(k)' <=> Listed(k)
             /\ Listed(k) => row'[k] = r
             /\ ~Listed(k) => Entry(k)' = "absent"
  BY <1>1, <1>6, <1>8 DEF Written, Listed, Entry
<1>9. CASE StartSession
  <2>1. run' = [run EXCEPT !.pc = "dns"] /\ run.pc = "answered" /\ row' = row /\ ResetBuffer(k)
    BY <1>5, <1>9 DEF StartSession
  <2>2. run'.d = k /\ run'.pc = "dns"  BY <1>1, <1>5, <2>1 DEF RunType
  <2>3. published'[k] = {} /\ \A d \in Domains \ {k} : published'[d] = published[d]
    <3>1. published \in [Topics -> SUBSET Message]  BY <1>1 DEF HubOK, HubShape
    <3>2. \A d \in Domains : d \in Topics  BY DEF DomainAssumption
    <3> QED  BY <1>6, <2>1, <3>1, <3>2 DEF ResetBuffer
  <2>4. RunOK'  BY <1>6, <2>1, <2>2 DEF RunOK
  <2>5. Late => Late'  BY <2>1 DEF Late
  <2>6. VerdictOf(k)'  BY <2>3 DEF VerdictOf
  <2>7. ASSUME NEW d \in Domains, d # k
        PROVE  VerdictOf(d)'
    <3>1. Entry(d)' = Entry(d)  BY <2>1 DEF Entry, Listed, Ready
    <3> QED  BY <1>1, <2>1, <2>2, <2>3, <2>7, <3>1 DEF VerdictOf
  <2> QED  BY <1>2, <1>3, <2>3, <2>4, <2>5, <2>6, <2>7, RunVerdicts
<1>10. ASSUME NEW text \in {"step"} \union Verdicts, Emit(text), text \in Verdicts => Late'
       PROVE  \E event \in Past(k)' :
                /\ event.text = text /\ event.session = sessions
                /\ published'[k] = published[k] \union {event}
                /\ \A d \in Domains \ {k} : published'[d] = published[d]
  <2> DEFINE event == [topic |-> run.d, n |-> run.n + 1, text |-> text, session |-> sessions]
  <2>1. run.n + 1 \in Nat /\ sessions \in Nat
    <3>1. run.n \in Nat /\ sessions \in 0..MaxSessions /\ MaxSessions \in Nat
      BY <1>1 DEF DomainTypes, RunType, DomainAssumption
    <3> QED  BY <3>1
  <2>2. /\ event \in Event /\ event.topic = k /\ event.session = sessions /\ event.text = text
        /\ event.session <= sessions
    BY <1>5, <1>6, <2>1 DEF Event
  <2>3. Publish(k, event)  BY <1>5, <1>10 DEF Emit
  <2> HIDE DEF event
  <2>4. event \in Past(k)'
    <3>1. sessions' = sessions  BY <1>3
    <3> QED  BY <1>10, <2>2, <3>1 DEF Past
  <2>5. published \in [Topics -> SUBSET Message]  BY <1>1 DEF HubOK, HubShape
  <2>6. /\ published'[k] = published[k] \union {event}
        /\ \A d \in Domains \ {k} : published'[d] = published[d]
    BY <1>6, <2>3, <2>5 DEF Publish, DomainAssumption
  <2> QED  BY <2>2, <2>4, <2>6
<1>11. CASE CheckDNS
  <2>1. PICK pc \in {"found", "missing"} : run' = [run EXCEPT !.n = @ + 1, !.pc = pc]
    <3>1. PICK found \in BOOLEAN :
            run' = [run EXCEPT !.n = @ + 1, !.pc = IF found THEN "found" ELSE "missing"]
      BY <1>11 DEF CheckDNS
    <3> QED  BY <3>1
  <2>2. Emit("step") /\ row' = row /\ run.pc = "dns"  BY <1>11 DEF CheckDNS
  <2>3. run'.d = k /\ run'.pc = pc /\ run' \in RunType
    <3>1. run.n + 1 \in Nat
      <4>1. run.n \in Nat  BY <1>1 DEF RunType
      <4> QED  BY <4>1
    <3> QED  BY <1>1, <1>5, <2>1, <3>1 DEF RunType
  <2>4. RunOK'  BY <1>6, <2>2, <2>3 DEF RunOK
  <2>5. "step" \notin Verdicts  BY DEF Verdicts
  <2>6. \A d \in Domains : \A e \in published'[d] :
          e \in published[d] \/ (e \in Past(d)' /\ e.text \notin Verdicts)
    BY <1>10, <2>2, <2>5
  <2> QED  BY <1>7, <2>2, <2>3, <2>4, <2>6
<1>12. CASE RecordMissing
  <2> DEFINE r == [row[k] EXCEPT !.dns = FALSE, !.ssl = "pending"]
  <2>1. /\ row' = Written(k, r) /\ run' = [run EXCEPT !.pc = "conclude", !.verdict = "error"]
        /\ run.pc = "missing" /\ UNCHANGED hubVars
    BY <1>5, <1>12 DEF RecordMissing
  <2>2. r \in RowType /\ r.state = row[k].state /\ ~Ready(r)  BY <1>6 DEF RowType, Ready
  <2>3. run'.d = k /\ run'.pc = "conclude" /\ run'.verdict = "error" /\ run' \in RunType
    BY <1>1, <1>5, <2>1 DEF RunType, Verdicts
  <2> HIDE DEF r
  <2>4. /\ row'[k].state = row[k].state /\ \A d \in Domains \ {k} : row'[d] = row[d]
        /\ Listed(k)' <=> Listed(k)
        /\ Listed(k) => row'[k] = r
        /\ ~Listed(k) => Entry(k)' = "absent"
    BY <1>8, <2>1, <2>2
  <2>5. Entry(k)' \in {"pending", "absent"}  BY <2>2, <2>4 DEF Entry, Ready
  <2>6. RunOK'  BY <1>6, <2>3, <2>4, <2>5 DEF RunOK, Fits
  <2>7. published' = published  BY <2>1 DEF hubVars
  <2> QED  BY <1>7, <2>1, <2>3, <2>4, <2>6, <2>7
<1>13. CASE RecordFound
  <2> DEFINE r == [row[k] EXCEPT !.dns = TRUE]
  <2>1. /\ row' = Written(k, r) /\ run' = [run EXCEPT !.pc = "provision"]
        /\ run.pc = "found" /\ UNCHANGED hubVars
    BY <1>5, <1>13 DEF RecordFound
  <2>2. r \in RowType /\ r.state = row[k].state /\ r.dns  BY <1>6 DEF RowType
  <2>3. run'.d = k /\ run'.pc = "provision" /\ run' \in RunType
    BY <1>1, <1>5, <2>1 DEF RunType
  <2> HIDE DEF r
  <2>4. /\ row'[k].state = row[k].state /\ \A d \in Domains \ {k} : row'[d] = row[d]
        /\ Listed(k)' <=> Listed(k)
        /\ Listed(k) => row'[k] = r
    BY <1>8, <2>1, <2>2
  <2>5. Listed(k)' => row'[k].dns  BY <2>2, <2>4
  <2>6. RunOK'  BY <1>6, <2>3, <2>4, <2>5 DEF RunOK
  <2>7. published' = published  BY <2>1 DEF hubVars
  <2> QED  BY <1>7, <2>1, <2>3, <2>4, <2>6, <2>7
<1>14. CASE Provision
  <2>1. PICK verdict \in Verdicts :
          /\ row' = Written(k, [row[k] EXCEPT !.ssl =
                        IF verdict = "success" THEN "active" ELSE "error"])
          /\ run' = [run EXCEPT !.pc = "conclude", !.verdict = verdict]
    BY <1>5, <1>14 DEF Provision
  <2> DEFINE ssl == IF verdict = "success" THEN "active" ELSE "error"
             r == [row[k] EXCEPT !.ssl = ssl]
  <2>2. ssl \in {"active", "error"} /\ (ssl = "active" <=> verdict = "success")  OBVIOUS
  <2>3. row' = Written(k, r) /\ run.pc = "provision" /\ UNCHANGED hubVars
    BY <1>14, <2>1 DEF Provision
  <2> HIDE DEF ssl
  <2>4. r \in RowType /\ r.state = row[k].state /\ r.ssl = ssl /\ r.dns = row[k].dns
    BY <1>6, <2>2 DEF RowType
  <2>5. run'.d = k /\ run'.pc = "conclude" /\ run'.verdict = verdict /\ run' \in RunType
    BY <1>1, <1>5, <2>1 DEF RunType
  <2> HIDE DEF r
  <2>6. /\ row'[k].state = row[k].state /\ \A d \in Domains \ {k} : row'[d] = row[d]
        /\ Listed(k)' <=> Listed(k)
        /\ Listed(k) => row'[k] = r
        /\ ~Listed(k) => Entry(k)' = "absent"
    BY <1>8, <2>3, <2>4
  <2>7. Listed(k) => r.dns  BY <1>1, <1>5, <2>3, <2>4 DEF RunOK
  <2>8. Entry(k)' \in IF verdict = "success" THEN {"ready", "absent"} ELSE {"pending", "absent"}
    <3>1. CASE ~Listed(k)  BY <2>6, <3>1
    <3>2. CASE Listed(k)
      <4>1. row'[k] = r /\ Listed(k)'  BY <2>6, <3>2
      <4>2. Ready(row'[k]) <=> verdict = "success"
        BY <2>2, <2>4, <2>7, <3>2, <4>1 DEF Ready
      <4>3. Entry(k)' = IF verdict = "success" THEN "ready" ELSE "pending"
        BY <4>1, <4>2 DEF Entry, Ready
      <4> QED  BY <4>3
    <3> QED  BY <3>1, <3>2
  <2>9. RunOK'  BY <1>6, <2>5, <2>6, <2>8 DEF RunOK, Fits
  <2>10. published' = published  BY <2>3 DEF hubVars
  <2> QED  BY <1>7, <2>3, <2>5, <2>6, <2>9, <2>10
<1>15. CASE Conclude
  <2>1. Emit(run.verdict) /\ run' = [run EXCEPT !.pc = "release"] /\ row' = row
        /\ run.pc = "conclude"
    BY <1>15 DEF Conclude
  <2>2. run.verdict \in Verdicts /\ run'.d = k /\ run'.pc = "release"
    BY <1>1, <1>5, <2>1 DEF RunType
  <2>3. Late' /\ ~Late  BY <2>1, <2>2 DEF Late
  <2>4. PICK event \in Past(k)' :
          /\ event.text = run.verdict /\ event.session = sessions
          /\ published'[k] = published[k] \union {event}
          /\ \A d \in Domains \ {k} : published'[d] = published[d]
    BY <1>10, <2>1, <2>2, <2>3
  <2>5. event \notin Past(k)  BY <2>2, <2>3, <2>4 DEF Past
  <2>6. \A d \in Domains : Entry(d)' = Entry(d)  BY <2>1 DEF Entry, Listed, Ready
  <2>7. Fits(run.verdict, Entry(k))  BY <1>1, <1>5, <2>1 DEF RunOK
  <2>8. VerdictOf(k)'
    BY <1>1, <1>5, <1>6, <2>1, <2>2, <2>4, <2>6, <2>7 DEF VerdictOf
  <2>9. \A d \in Domains \ {k} : VerdictOf(d)'
    BY <1>1, <2>1, <2>2, <2>4, <2>6 DEF VerdictOf
  <2>10. RunOK'  BY <1>6, <2>1, <2>2 DEF RunOK
  <2>11. \A d \in Domains : \A e \in published'[d] :
          \/ e \in published[d]
          \/ e \in Past(d)' /\ (e \notin Past(d) \/ e.text \notin Verdicts)
    BY <2>4, <2>5
  <2> QED  BY <1>2, <1>3, <2>3, <2>8, <2>9, <2>10, <2>11, RunVerdicts
<1>16. CASE Release
  <2>1. run' = NoRun /\ row' = row /\ published' = published
    BY <1>16 DEF Release, hubVars
  <2>2. run'.pc = "idle" /\ run'.d = Nobody  BY <2>1 DEF NoRun
  <2>3. Late' /\ RunOK'  BY <2>2 DEF Late, RunOK
  <2>4. \A d \in Domains : Entry(d)' = Entry(d)  BY <2>1 DEF Entry, Listed, Ready
  <2>5. \A d \in Domains : VerdictOf(d)'  BY <1>1, <2>1, <2>2, <2>4 DEF VerdictOf
  <2> QED  BY <1>2, <1>3, <2>1, <2>3, <2>5, RunVerdicts
<1> QED  BY <1>9, <1>11, <1>12, <1>13, <1>14, <1>15, <1>16 DEF Verification

\* A build's step leaves the domains' topics alone.
LEMMA BuildVerdicts ==
    ASSUME StreamOK, DomainAssumption, StreamsAssumption, VerdictsOK, BuildStep
    PROVE  VerdictsOK'
<1>1. UNCHANGED <<row, run, sessions, visit>> /\ HubOK /\ Deployments \in SUBSET Topics
  BY DEF BuildStep, domainVars, StreamOK, LogOK
<1>2. Moves(Deployments)  BY LogStep DEF BuildStep, StreamOK
<1>3. ASSUME NEW d \in Domains
      PROVE  published'[d] = published[d] /\ Carries(d, Past(d))'
  <2>1. d \in Topics /\ d \notin Deployments  BY DEF DomainAssumption, StreamsAssumption
  <2>2. published'[d] = published[d]
    <3>1. CASE Viewers = {}
      <4>1. CASE \E t \in Deployments :
              ResetBuffer(t) \/ \E line \in Message : Publish(t, line)
        BY <1>1, <2>1, <4>1 DEF HubOK, HubShape, ResetBuffer, Publish
      <4>2. CASE \E r : Reads(Deployments, r)  BY <4>2 DEF Reads, hubHistory
      <4> QED  BY <1>2, <3>1, <4>1, <4>2 DEF Moves
    <3>2. CASE Viewers # {}  BY <1>1, <1>2, <2>1, <3>2, MovesApart
    <3> QED  BY <3>1, <3>2
  <2>3. Carries(d, Past(d))  BY DEF VerdictsOK
  <2>4. PICK L : L = Past(d)  OBVIOUS
  <2>5. Carries(d, L)'  BY <1>1, <1>2, <2>1, <2>3, <2>4, MovesCarries DEF Carries
  <2>6. Past(d)' = L  BY <1>1, <2>4 DEF Past, Late
  <2> QED  BY <2>2, <2>5, <2>6 DEF Carries
<1>4. \A d \in Domains : Entry(d)' = Entry(d)  BY <1>1 DEF Entry, Listed, Ready
<1>5. \A d \in Domains : VerdictOf(d)'  BY <1>1, <1>3, <1>4 DEF VerdictsOK, VerdictOf
<1>6. RunOK'  BY <1>1 DEF VerdictsOK, RunOK, Entry, Listed, Ready
<1>7. \A d : Past(d)' = Past(d)  BY <1>1 DEF Past, Late
<1>8. \A q \in Visits : Honest(visit'[q])  BY <1>1 DEF VerdictsOK
<1>9. \A q \in Visits : Honest(visit[q])'  BY <1>3, <1>7, <1>8, AllHonest
<1> QED  BY <1>3, <1>5, <1>6, <1>9 DEF VerdictsOK

LEMMA VerdictsStep ==
    ASSUME StreamOK, DomainAssumption, StreamsAssumption, VerdictsOK, [Next]_vars
    PROVE  VerdictsOK'
<1>1. DomainOK  BY DEF StreamOK, LogOK, DomainOK
<1>3. CASE UNCHANGED vars
  <2>1. UNCHANGED hubVars /\ Elsewhere /\ visit' = visit
    BY <1>3 DEF vars, domainVars, Elsewhere
  <2>2. Moves(Domains)
    <3>1. Reads(Domains, Nobody)  BY <1>1, <2>1, StillReads DEF DomainOK
    <3> QED  BY <3>1 DEF Moves
  <2>3. published' = published  BY <2>1 DEF hubVars
  <2> QED  BY <1>1, <2>1, <2>2, <2>3, PageVerdicts DEF VerdictsOK
<1>4. CASE DomainNext
  <2>1. CASE Verification  BY <1>1, <2>1, VerificationVerdicts
  <2>2. ASSUME NEW p \in Visits, Visiting(p)
        PROVE  VerdictsOK'
    BY <1>1, <2>2, PageSteps, VerifyVerdicts, OwnerVerdicts DEF Visiting
  <2>3. ASSUME NEW d \in Domains, VerifyElsewhere(d)
        PROVE  VerdictsOK'
    <3>1. \A q \in Visits : Honest(visit'[q])  BY <2>3 DEF VerifyElsewhere, VerdictsOK
    <3> QED  BY <1>1, <2>3, <3>1, AcceptedVerdicts DEF VerifyElsewhere
  <2>4. CASE Sockets /\ UNCHANGED domainVars
    <3>1. Elsewhere /\ visit' = visit  BY <2>4 DEF Elsewhere, domainVars
    <3>2. Moves(Domains)  BY <1>1, <2>4, SocketsOK DEF DomainMoves
    <3>3. published' = published
      BY <2>4 DEF Sockets, Subscribe, Unsubscribe, Refuse, hubHistory
    <3> QED  BY <1>1, <3>1, <3>2, <3>3, PageVerdicts DEF VerdictsOK
  <2> QED  BY <1>4, <2>1, <2>2, <2>3, <2>4 DEF DomainNext
<1> QED  BY <1>3, <1>4, BuildVerdicts DEF Next, DomainStep

LEMMA VerdictsInit ==
    ASSUME Init
    PROVE  VerdictsOK
<1>1. \A d \in Domains : Carries(d, Past(d))
  <2>1. Domains \in SUBSET Topics /\ \A L : <<>> \in Seq(L)  BY EmptySeq, DomainAssumption
  <2> QED  BY <2>1 DEF Init, HubInit, Carries
<1>2. \A d \in Domains : VerdictOf(d)
  <2>1. \A d \in Domains : d \in Topics  BY DomainAssumption DEF DomainAssumption
  <2> QED  BY <2>1 DEF Init, HubInit, VerdictOf
<1>3. RunOK  BY DEF Init, DomainInit, RunOK, NoRun
<1>4. ASSUME NEW p \in Visits
      PROVE  Honest(visit[p])
  <2>1. visit[p].heard = {}  BY DEF Init, DomainInit, ClosedVisit
  <2> QED  BY <2>1 DEF Honest
<1> QED  BY <1>1, <1>2, <1>3, <1>4 DEF VerdictsOK

(* Once a settings page has read its list again after a verdict it heard,  *)
(* the list says what the verdict said, as long as that verdict is of the  *)
(* session in course: the goroutine writes the row before it emits "done"  *)
(* (domains.go: Verify), and nothing but a deletion or the next            *)
(* verification, which empties the session (hub.go: ResetBuffer), rewrites *)
(* the row.                                                                *)
THEOREM VerdictIsShown == Spec => []ListShowsVerdict
<1>1. StreamsAssumption /\ DomainAssumption  BY StreamsAssumption, DomainAssumption
<1>2. Init => VerdictsOK  BY VerdictsInit
<1>3. StreamOK /\ VerdictsOK /\ [Next]_vars => VerdictsOK'  BY <1>1, VerdictsStep
<1>4. VerdictsOK => ListShowsVerdict  BY DEF VerdictsOK, Honest, ListShowsVerdict, Fits
<1>5. Spec => []StreamOK  BY <1>1, StreamInv
<1> QED  BY <1>2, <1>3, <1>4, <1>5, PTL DEF Spec
=============================================================================

-------------------------- MODULE EventStreamProofs --------------------------
(***************************************************************************)
(* Proofs about the two ways an execution's events reach its clients, for  *)
(* any number of clients, runs and events and any ring sizes.              *)
(* StreamBuffer: over all its connections a client receives events in      *)
(* order and once, misses only what the rings dropped before it asked, and *)
(* no subscription sleeps on an event.                                     *)
(* DebugStreams: a debug run that is over leaves nothing in the manager.   *)
(***************************************************************************)
EXTENDS StreamBuffer, DebugStreams, FiniteSetTheorems, WellFoundedInduction, TLAPS

-----------------------------------------------------------------------------
(* StreamBuffer. *)

\* Before the buffer opens there is nothing in it.
UnopenedInv == buffer = "none" => log = {} /\ audio = {}

\* A subscription goes on where its client stopped, and holds only later events.
CursorInv ==
    \A c \in Clients :
        /\ at[c] \in Connected => cursor[c] = LastReceived(c)
        /\ batch[c] # {} => at[c] = "reading"
        /\ \A s \in batch[c] : s > cursor[c]

IInv == TypeOK /\ UnopenedInv /\ CursorInv /\ ReceivedInOrder /\ WaiterIsWoken

-----------------------------------------------------------------------------
(* Operators. *)

\* The least of a set of numbers, which the subscription yields first.
LEMMA LeastNumber ==
    ASSUME NEW S, S \subseteq Nat, S # {}
    PROVE  Min(S) \in S /\ \A s \in S : Min(S) <= s
<1>1. PICK x \in S : \A y \in S : ~ (<<y, x>> \in OpToRel(<, Nat))
  BY WFMin, NatLessThanWellFounded
<1>2. \A y \in S : x <= y
  <2> SUFFICES ASSUME NEW y \in S PROVE x <= y
    OBVIOUS
  <2>1. <<y, x>> \in OpToRel(<, Nat) <=> y < x
    BY DEF OpToRel
  <2>2. ~ (y < x)
    BY <1>1, <2>1
  <2>3. x \in Nat /\ y \in Nat
    OBVIOUS
  <2> QED BY <2>2, <2>3
<1> QED BY <1>2 DEF Min

\* A ring of event numbers gains at most the new one and keeps to its limit.
LEMMA PushBound ==
    ASSUME NEW n \in Nat, NEW ring, ring \subseteq 1 .. n, NEW limit \in Nat,
           Cardinality(ring) <= limit
    PROVE  /\ Push(ring, limit, n + 1) \subseteq ring \cup {n + 1}
           /\ Cardinality(Push(ring, limit, n + 1)) <= limit
<1> DEFINE grown == ring \cup {n + 1}
<1>1. IsFiniteSet(ring) /\ Cardinality(ring) \in Nat
  <2>1. IsFiniteSet(1 .. n)
    BY FS_Interval
  <2> QED BY <2>1, FS_Subset, FS_CardinalityType
<1>2. IsFiniteSet(grown) /\ Cardinality(grown) = Cardinality(ring) + 1
  <2>1. n + 1 \notin ring
    OBVIOUS
  <2> QED BY <1>1, <2>1, FS_AddElement
<1>3. Min(grown) \in grown
  <2>1. grown \subseteq Nat /\ grown # {}
    OBVIOUS
  <2> QED BY <2>1, LeastNumber
<1>4. Cardinality(grown \ {Min(grown)}) = Cardinality(grown) - 1
  BY <1>2, <1>3, FS_RemoveElement
<1> QED BY <1>1, <1>2, <1>4 DEF Push

\* A notification leaves nobody waiting and moves nobody else.
LEMMA NotifiedPlaces ==
    ASSUME at \in [Clients -> Places]
    PROVE  /\ Notified \in [Clients -> Places]
           /\ \A c \in Clients :
                /\ Notified[c] # "waiting"
                /\ Notified[c] \in Connected <=> at[c] \in Connected
                /\ at[c] = "reading" => Notified[c] = "reading"
BY DEF Notified, Places, Connected

\* What the client has last received is one of the events.
LEMMA LastReceivedType ==
    ASSUME TypeOK, NEW c \in Clients
    PROVE  LastReceived(c) \in 0 .. Len(kind)
<1>1. got[c] \in Seq(1 .. Len(kind)) /\ Len(kind) \in Nat
  BY DEF TypeOK
<1> QED BY <1>1 DEF LastReceived

-----------------------------------------------------------------------------
(* The run's steps. *)

\* Any append of an event with its notification.
LEMMA AppendStep ==
    ASSUME IInv, NEW k \in EventKinds,
           kind' = Append(kind, k), at' = Notified,
           log' \subseteq log \cup {Len(kind) + 1},
           audio' \subseteq audio \cup {Len(kind) + 1},
           Cardinality(log') <= MaxEvents, Cardinality(audio') <= MaxAudio,
           buffer = "open", UNCHANGED <<buffer, batch, cursor, got, losses>>
    PROVE  IInv'
<1>1. Len(kind') = Len(kind) + 1 /\ kind' \in Seq(EventKinds) /\ Len(kind) \in Nat
  BY DEF IInv, TypeOK
<1>2. 1 .. Len(kind) \subseteq 1 .. Len(kind') /\ 0 .. Len(kind) \subseteq 0 .. Len(kind')
  BY <1>1
<1>3. TypeOK'
  <2>1. log' \subseteq 1 .. Len(kind') /\ audio' \subseteq 1 .. Len(kind')
    <3>1. Len(kind) + 1 \in 1 .. Len(kind')
      BY <1>1
    <3>2. log \subseteq 1 .. Len(kind) /\ audio \subseteq 1 .. Len(kind)
      BY DEF IInv, TypeOK
    <3> QED BY <1>2, <3>1, <3>2
  <2>2. got' \in [Clients -> Seq(1 .. Len(kind'))]
    <3>1. Seq(1 .. Len(kind)) \subseteq Seq(1 .. Len(kind'))
      BY <1>1, <1>2
    <3> QED BY <3>1 DEF IInv, TypeOK
  <2>3. batch' \in [Clients -> SUBSET (1 .. Len(kind'))]
    BY <1>2 DEF IInv, TypeOK
  <2>4. cursor' \in [Clients -> 0 .. Len(kind')]
    BY <1>2 DEF IInv, TypeOK
  <2>5. at' \in [Clients -> Places]
    BY NotifiedPlaces DEF IInv, TypeOK
  <2> QED BY <1>1, <2>1, <2>2, <2>3, <2>4, <2>5 DEF IInv, TypeOK
<1>4. UnopenedInv'
  BY DEF UnopenedInv
<1>5. CursorInv'
  BY NotifiedPlaces DEF IInv, TypeOK, CursorInv, LastReceived
<1>6. ReceivedInOrder'
  BY DEF IInv, ReceivedInOrder
<1>7. WaiterIsWoken'
  BY NotifiedPlaces DEF IInv, TypeOK, WaiterIsWoken
<1> QED BY <1>3, <1>4, <1>5, <1>6, <1>7 DEF IInv

\* A step that moves requests and touches neither events nor what was read.
LEMMA MoveStep ==
    ASSUME IInv, NEW c \in Clients, NEW place \in Places,
           at' = [at EXCEPT ![c] = place],
           place # "waiting", batch[c] = {},
           place \in Connected => at[c] \in Connected,
           UNCHANGED <<stored, reader>>, losses' \in Nat
    PROVE  IInv'
<1>1. TypeOK'
  BY DEF IInv, TypeOK, stored, reader
<1>2. UnopenedInv'
  BY DEF IInv, UnopenedInv, stored
<1>3. CursorInv'
  <2> SUFFICES ASSUME NEW d \in Clients
               PROVE  /\ at'[d] \in Connected => cursor'[d] = LastReceived(d)'
                      /\ batch'[d] # {} => at'[d] = "reading"
                      /\ \A s \in batch'[d] : s > cursor'[d]
    BY DEF CursorInv
  <2>1. LastReceived(d)' = LastReceived(d)
    BY DEF LastReceived, reader
  <2> QED BY <2>1 DEF IInv, TypeOK, CursorInv, reader
<1>4. ReceivedInOrder'
  BY DEF IInv, ReceivedInOrder, reader
<1>5. WaiterIsWoken'
  BY DEF IInv, TypeOK, WaiterIsWoken, Pending, stored, reader
<1> QED BY <1>1, <1>2, <1>3, <1>4, <1>5 DEF IInv

\* The initial state.
LEMMA InitIInv == Init => IInv
<1> SUFFICES ASSUME Init PROVE IInv
  OBVIOUS
<1>1. Len(kind) = 0 /\ kind \in Seq(EventKinds) /\ \A T : <<>> \in Seq(T)
  BY DEF Init
<1>2. TypeOK
  BY <1>1, FS_EmptySet, BufferAssumption DEF Init, TypeOK, Places
<1>3. UnopenedInv /\ CursorInv /\ ReceivedInOrder /\ WaiterIsWoken
  BY DEF Init, UnopenedInv, CursorInv, ReceivedInOrder, WaiterIsWoken, Connected
<1> QED BY <1>2, <1>3 DEF IInv

\* open_buffer, the three ways to emit, and the expiry.
LEMMA RunSteps ==
    IInv /\ (Open \/ EmitControl \/ EmitAudio \/ Finish \/ Expire) => IInv'
<1> SUFFICES ASSUME IInv, Open \/ EmitControl \/ EmitAudio \/ Finish \/ Expire
             PROVE  IInv'
  OBVIOUS
<1> DEFINE n == Len(kind) + 1
<1>a. /\ Push(log, MaxEvents, n) \subseteq log \cup {n}
      /\ Cardinality(Push(log, MaxEvents, n)) <= MaxEvents
      /\ Push(audio, MaxAudio, n) \subseteq audio \cup {n}
      /\ Cardinality(Push(audio, MaxAudio, n)) <= MaxAudio
  <2>1. Len(kind) \in Nat
    BY DEF IInv, TypeOK
  <2> QED BY <2>1, PushBound, BufferAssumption DEF IInv, TypeOK
<1>b. Cardinality(log) <= MaxEvents /\ Cardinality(audio) <= MaxAudio
  BY DEF IInv, TypeOK
<1>1. CASE Open
  <2>1. log = {} /\ audio = {}
    BY <1>1 DEF Open, IInv, UnopenedInv
  <2>2. TypeOK' /\ UnopenedInv' /\ ReceivedInOrder'
    BY <1>1, <2>1 DEF Open, IInv, TypeOK, UnopenedInv, ReceivedInOrder, reader
  <2>3. CursorInv'
    BY <1>1 DEF Open, IInv, CursorInv, LastReceived, reader
  <2>4. WaiterIsWoken'
    BY <1>1, <2>1 DEF Open, WaiterIsWoken, Pending, reader
  <2> QED BY <2>2, <2>3, <2>4 DEF IInv
<1>2. CASE EmitControl
  BY <1>a, <1>b, <1>2, AppendStep DEF EmitControl, EventKinds, reader
<1>3. CASE EmitAudio
  BY <1>a, <1>b, <1>3, AppendStep DEF EmitAudio, EventKinds, reader
<1>4. CASE Finish
  BY <1>a, <1>b, <1>4, AppendStep DEF Finish, EventKinds, reader
<1>5. CASE Expire
  <2>1. TypeOK' /\ UnopenedInv' /\ ReceivedInOrder' /\ WaiterIsWoken'
    BY <1>5, FS_EmptySet, BufferAssumption DEF Expire, IInv, TypeOK, UnopenedInv, ReceivedInOrder, WaiterIsWoken, reader
  <2>2. CursorInv'
    BY <1>5 DEF Expire, IInv, CursorInv, LastReceived, reader
  <2> QED BY <2>1, <2>2 DEF IInv
<1> QED BY <1>1, <1>2, <1>3, <1>4, <1>5

-----------------------------------------------------------------------------
(* A client's steps. *)

\* Connecting puts the cursor on the last event received.
LEMMA ConnectStep == \A c \in Clients : IInv /\ Connect(c) => IInv'
<1> SUFFICES ASSUME NEW c \in Clients, IInv, Connect(c) PROVE IInv'
  OBVIOUS
<1>1. batch[c] = {}
  BY DEF Connect, IInv, CursorInv
<1>2. LastReceived(c) \in 0 .. Len(kind)
  BY LastReceivedType DEF IInv
<1>3. TypeOK' /\ UnopenedInv' /\ ReceivedInOrder'
  BY <1>2 DEF Connect, Goto, IInv, TypeOK, Places, Connected, UnopenedInv,
              ReceivedInOrder, stored
<1>4. CursorInv'
  <2> SUFFICES ASSUME NEW d \in Clients
               PROVE  /\ at'[d] \in Connected => cursor'[d] = LastReceived(d)'
                      /\ batch'[d] # {} => at'[d] = "reading"
                      /\ \A s \in batch'[d] : s > cursor'[d]
    BY DEF CursorInv
  <2>1. LastReceived(d)' = LastReceived(d)
    BY DEF LastReceived, Connect
  <2>2. CASE d = c
    BY <1>1, <2>1, <2>2 DEF Connect, IInv, TypeOK
  <2>3. CASE d # c
    BY <2>1, <2>3 DEF Connect, Goto, IInv, TypeOK, CursorInv
  <2> QED BY <2>2, <2>3
<1>5. WaiterIsWoken'
  BY DEF Connect, Goto, IInv, TypeOK, WaiterIsWoken, Pending, stored
<1> QED BY <1>3, <1>4, <1>5 DEF IInv

\* Looking again: it waits only when nothing is pending.
LEMMA RescanStep == \A c \in Clients : IInv /\ Rescan(c) => IInv'
<1> SUFFICES ASSUME NEW c \in Clients, IInv, Rescan(c) PROVE IInv'
  OBVIOUS
<1>1. Pending(c) \in SUBSET (1 .. Len(kind)) /\ \A s \in Pending(c) : s > cursor[c]
  BY DEF IInv, TypeOK, Pending
<1>2. TypeOK' /\ UnopenedInv' /\ ReceivedInOrder'
  BY <1>1 DEF Rescan, Goto, IInv, TypeOK, Places, Connected, UnopenedInv,
              ReceivedInOrder, stored
<1>3. CursorInv'
  <2> SUFFICES ASSUME NEW d \in Clients
               PROVE  /\ at'[d] \in Connected => cursor'[d] = LastReceived(d)'
                      /\ batch'[d] # {} => at'[d] = "reading"
                      /\ \A s \in batch'[d] : s > cursor'[d]
    BY DEF CursorInv
  <2>1. LastReceived(d)' = LastReceived(d)
    BY DEF LastReceived, Rescan
  <2>2. CASE d = c
    BY <1>1, <2>1, <2>2 DEF Rescan, Goto, IInv, TypeOK, CursorInv, Connected
  <2>3. CASE d # c
    BY <2>1, <2>3 DEF Rescan, Goto, IInv, TypeOK, CursorInv
  <2> QED BY <2>2, <2>3
<1>4. WaiterIsWoken'
  BY DEF Rescan, Goto, IInv, TypeOK, WaiterIsWoken, Pending, stored
<1> QED BY <1>2, <1>3, <1>4 DEF IInv

\* Yielding the least event of the batch: later than all received before it.
LEMMA YieldStep == \A c \in Clients : IInv /\ Yield(c) => IInv'
<1> SUFFICES ASSUME NEW c \in Clients, IInv, Yield(c) PROVE IInv'
  OBVIOUS
<1> DEFINE s == Min(batch[c])
           n == Len(got[c])
<1>1. /\ batch[c] \subseteq 1 .. Len(kind) /\ batch[c] # {} /\ Len(kind) \in Nat
      /\ at[c] = "reading"
      /\ got[c] \in Seq(1 .. Len(kind)) /\ n \in Nat
  BY DEF Yield, Deliver, IInv, TypeOK
<1>2. s \in batch[c] /\ \A t \in batch[c] : s <= t
  BY <1>1, LeastNumber
<1>3. s \in 1 .. Len(kind) /\ s > LastReceived(c)
  BY <1>1, <1>2 DEF IInv, CursorInv, Connected
<1>4. /\ got' = [got EXCEPT ![c] = Append(got[c], s)]
      /\ cursor' = [cursor EXCEPT ![c] = s]
      /\ UNCHANGED <<stored, losses>>
  BY DEF Yield, Deliver
<1>5. /\ at'[c] \in {"reading", "ended"}
      /\ at' \in [Clients -> Places] /\ batch' \in [Clients -> SUBSET (1 .. Len(kind))]
      /\ \A d \in Clients \ {c} : at'[d] = at[d] /\ batch'[d] = batch[d]
      /\ batch'[c] \subseteq batch[c] \ {s}
      /\ batch'[c] # {} => at'[c] = "reading"
  <2>1. CASE kind[s] = "terminal"
    BY <1>1, <2>1 DEF Yield, Deliver, Goto, IInv, TypeOK, Places, Connected
  <2>2. CASE kind[s] # "terminal"
    BY <1>1, <2>2 DEF Yield, Deliver, Goto, IInv, TypeOK, Places, Connected
  <2> QED BY <2>1, <2>2
<1>6. /\ Append(got[c], s) \in Seq(1 .. Len(kind))
      /\ Len(Append(got[c], s)) = n + 1
      /\ Append(got[c], s)[n + 1] = s
      /\ \A i \in 1 .. n : Append(got[c], s)[i] = got[c][i]
  BY <1>1, <1>3
<1>7. got'[c] = Append(got[c], s) /\ \A d \in Clients \ {c} : got'[d] = got[d]
  BY <1>4 DEF IInv, TypeOK
<1>8. TypeOK'
  <2>1. kind' = kind
    BY <1>4 DEF stored
  <2>2. got' \in [Clients -> Seq(1 .. Len(kind))]
    BY <1>4, <1>6 DEF IInv, TypeOK
  <2>3. cursor' \in [Clients -> 0 .. Len(kind)]
    BY <1>1, <1>3, <1>4 DEF IInv, TypeOK
  <2> QED BY <1>4, <1>5, <2>1, <2>2, <2>3 DEF IInv, TypeOK, stored
<1>9. UnopenedInv'
  BY <1>4 DEF IInv, UnopenedInv, stored
<1>10. CursorInv'
  <2> SUFFICES ASSUME NEW d \in Clients
               PROVE  /\ at'[d] \in Connected => cursor'[d] = LastReceived(d)'
                      /\ batch'[d] # {} => at'[d] = "reading"
                      /\ \A t \in batch'[d] : t > cursor'[d]
    BY DEF CursorInv
  <2>1. CASE d = c
    <3>1. LastReceived(c)' = s /\ cursor'[c] = s
      <4>1. cursor'[c] = s
        BY <1>4 DEF IInv, TypeOK
      <4>2. Len(got'[c]) = n + 1 /\ got'[c][n + 1] = s
        BY <1>6, <1>7
      <4>3. got'[c] # <<>>
        BY <1>1, <4>2
      <4> QED BY <4>1, <4>2, <4>3 DEF LastReceived
    <3>2. \A t \in batch[c] \ {s} : t > s
      BY <1>1, <1>2, <1>3
    <3> QED BY <1>5, <2>1, <3>1, <3>2
  <2>2. CASE d # c
    BY <1>4, <1>5, <1>7, <2>2 DEF IInv, TypeOK, CursorInv, LastReceived
  <2> QED BY <2>1, <2>2
<1>11. ReceivedInOrder'
  <2>1. \A i \in 1 .. n : got[c][i] <= LastReceived(c)
    <3> SUFFICES ASSUME NEW i \in 1 .. n PROVE got[c][i] <= LastReceived(c)
      OBVIOUS
    <3>1. LastReceived(c) = got[c][n] /\ n \in DOMAIN got[c] /\ i \in DOMAIN got[c]
      BY <1>1 DEF LastReceived
    <3>2. got[c][i] \in Nat /\ got[c][n] \in Nat
      BY <1>1, <3>1
    <3>3. CASE i = n
      BY <3>1, <3>2, <3>3
    <3>4. CASE i < n
      BY <3>1, <3>2, <3>4 DEF IInv, ReceivedInOrder
    <3> QED BY <1>1, <3>3, <3>4
  <2>2. \A i \in 1 .. n : got[c][i] < s
    <3> SUFFICES ASSUME NEW i \in 1 .. n PROVE got[c][i] < s
      OBVIOUS
    <3>1. got[c][i] \in Nat /\ LastReceived(c) \in Nat
      BY <1>1, LastReceivedType DEF IInv
    <3> QED BY <1>3, <2>1, <3>1
  <2> SUFFICES ASSUME NEW d \in Clients, NEW i \in DOMAIN got'[d],
                      NEW j \in DOMAIN got'[d], i < j
               PROVE  got'[d][i] < got'[d][j]
    BY DEF ReceivedInOrder
  <2>3. CASE d = c
    <3>1. DOMAIN got'[c] = 1 .. n + 1
      BY <1>1, <1>6, <1>7
    <3>2. i \in 1 .. n
      BY <1>1, <2>3, <3>1
    <3>3. CASE j = n + 1
      BY <1>6, <1>7, <2>2, <2>3, <3>2, <3>3
    <3>4. CASE j # n + 1
      <4>1. j \in 1 .. n /\ DOMAIN got[c] = 1 .. n
        BY <1>1, <2>3, <3>1, <3>4
      <4>2. got[c][i] < got[c][j]
        BY <3>2, <4>1 DEF IInv, ReceivedInOrder
      <4> QED BY <1>6, <1>7, <2>3, <3>2, <4>1, <4>2
    <3> QED BY <3>3, <3>4
  <2>4. CASE d # c
    BY <1>7, <2>4 DEF IInv, ReceivedInOrder
  <2> QED BY <2>3, <2>4
<1>12. WaiterIsWoken'
  BY <1>4, <1>5 DEF IInv, TypeOK, WaiterIsWoken, Pending, stored
<1> QED BY <1>8, <1>9, <1>10, <1>11, <1>12 DEF IInv

\* Losing the connection discards what the subscription held.
LEMMA LoseStep == \A c \in Clients : IInv /\ Lose(c) => IInv'
<1> SUFFICES ASSUME NEW c \in Clients, IInv, Lose(c) PROVE IInv'
  OBVIOUS
<1>1. TypeOK' /\ UnopenedInv' /\ ReceivedInOrder'
  BY DEF Lose, Goto, IInv, TypeOK, Places, UnopenedInv, ReceivedInOrder, stored
<1>2. CursorInv'
  <2> SUFFICES ASSUME NEW d \in Clients
               PROVE  /\ at'[d] \in Connected => cursor'[d] = LastReceived(d)'
                      /\ batch'[d] # {} => at'[d] = "reading"
                      /\ \A s \in batch'[d] : s > cursor'[d]
    BY DEF CursorInv
  <2>1. LastReceived(d)' = LastReceived(d)
    BY DEF LastReceived, Lose
  <2>2. CASE d = c
    BY <2>1, <2>2 DEF Lose, Goto, IInv, TypeOK, Connected
  <2>3. CASE d # c
    BY <2>1, <2>3 DEF Lose, Goto, IInv, TypeOK, CursorInv
  <2> QED BY <2>2, <2>3
<1>3. WaiterIsWoken'
  BY DEF Lose, Goto, IInv, TypeOK, WaiterIsWoken, Pending, stored
<1> QED BY <1>1, <1>2, <1>3 DEF IInv

\* Every other step of a request only moves it.
LEMMA RespondStep == \A c \in Clients : IInv /\ Respond(c) => IInv'
<1> SUFFICES ASSUME NEW c \in Clients, IInv, Respond(c) PROVE IInv'
  OBVIOUS
<1>1. losses \in Nat /\ \A d \in Clients : batch[d] # {} => at[d] = "reading"
  BY DEF IInv, TypeOK, CursorInv
<1>2. CASE Accept(c)
  BY <1>1, <1>2, MoveStep DEF Accept, Goto, Places, Connected
<1>3. CASE Refuse(c)
  BY <1>1, <1>3, MoveStep DEF Refuse, Goto, Places, Connected
<1>4. CASE Subscribe(c)
  BY <1>1, <1>4, MoveStep DEF Subscribe, Goto, Places, Connected
<1>5. CASE Break(c)
  BY <1>1, <1>5, MoveStep DEF Break, Goto, Places, Connected
<1>6. CASE KeepAlive(c)
  BY <1>1, <1>6, MoveStep DEF KeepAlive, Goto, Places, Connected
<1> QED BY <1>2, <1>3, <1>4, <1>5, <1>6, RescanStep, YieldStep DEF Respond

\* A stuttering step.
LEMMA StutterStep == IInv /\ UNCHANGED vars => IInv'
BY DEF IInv, TypeOK, UnopenedInv, CursorInv, ReceivedInOrder, WaiterIsWoken, Pending,
       LastReceived, vars

\* The invariant is inductive.
LEMMA NextIInv == IInv /\ [Next]_vars => IInv'
BY RunSteps, ConnectStep, RespondStep, LoseStep, StutterStep DEF Next

\* The invariant holds of every behaviour.
LEMMA Invariance == Spec => []IInv
BY InitIInv, NextIInv, PTL DEF Spec

\* For any sizes: over all its connections, a client of InMemoryStreamBuffer
\* receives events by increasing number, so none of them twice.
THEOREM ReplayIsOrdered == Spec => []ReceivedInOrder
<1>1. IInv => ReceivedInOrder
  BY DEF IInv
<1> QED BY Invariance, <1>1, PTL

\* For any sizes: no subscription waits while an event it could yield is there,
\* so appending an event and notifying is enough to have it delivered.
THEOREM NoLostWakeup == Spec => []WaiterIsWoken
<1>1. IInv => WaiterIsWoken
  BY DEF IInv
<1> QED BY Invariance, <1>1, PTL

\* For any sizes: neither ring outgrows its limit and every number retained is one
\* that was assigned (the deques' maxlen in InMemoryStreamBuffer).
THEOREM TypeCorrect == Spec => []TypeOK
<1>1. IInv => TypeOK
  BY DEF IInv
<1> QED BY Invariance, <1>1, PTL

-----------------------------------------------------------------------------
(* What a client may miss. *)

\* Each ring holds its own class, and while the buffer is there an event is
\* retained or a whole ring of its class came after it.
RingsInv ==
    /\ \A s \in log : kind[s] # "audio"
    /\ \A s \in audio : kind[s] = "audio"
    /\ buffer = "none" => kind = <<>>
    /\ buffer = "open" => \A s \in 1 .. Len(kind) : s \in log \cup audio \/ Overrun(s)

\* Between what a subscription has read and what it still holds, only overrun
\* events are missing.
BatchInv ==
    \A c \in Clients : \A t \in batch[c] : \A s \in cursor[c] + 1 .. t :
        s \in batch[c] \/ Overrun(s)

GapInv == RingsInv /\ BatchInv /\ NothingSkipped

\* What a full ring drops is older than all it keeps, and it keeps a full ring.
LEMMA PushDrops ==
    ASSUME NEW n \in Nat, NEW ring, ring \subseteq 1 .. n, NEW limit \in Nat,
           Cardinality(ring) <= limit,
           NEW s \in ring \cup {n + 1}, s \notin Push(ring, limit, n + 1)
    PROVE  /\ Cardinality(Push(ring, limit, n + 1)) = limit
           /\ \A t \in Push(ring, limit, n + 1) : t > s
<1> DEFINE grown == ring \cup {n + 1}
<1>1. IsFiniteSet(ring) /\ Cardinality(ring) \in Nat
  <2>1. IsFiniteSet(1 .. n)
    BY FS_Interval
  <2> QED BY <2>1, FS_Subset, FS_CardinalityType
<1>2. IsFiniteSet(grown) /\ Cardinality(grown) = Cardinality(ring) + 1
  <2>1. n + 1 \notin ring
    OBVIOUS
  <2> QED BY <1>1, <2>1, FS_AddElement
<1>3. grown \subseteq Nat /\ grown # {}
  OBVIOUS
<1>4. Min(grown) \in grown /\ \A t \in grown : Min(grown) <= t
  BY <1>3, LeastNumber
<1>5. Cardinality(grown) > limit /\ Push(ring, limit, n + 1) = grown \ {Min(grown)}
  BY DEF Push
<1>6. s = Min(grown)
  BY <1>5
<1>7. Cardinality(grown \ {Min(grown)}) = Cardinality(grown) - 1
  BY <1>2, <1>4, FS_RemoveElement
<1>8. \A t \in grown \ {Min(grown)} : t > Min(grown)
  <2> SUFFICES ASSUME NEW t \in grown, t # Min(grown) PROVE t > Min(grown)
    OBVIOUS
  <2>1. t \in Nat /\ Min(grown) \in Nat
    BY <1>3, <1>4
  <2> QED BY <1>4, <2>1
<1>9. Cardinality(grown \ {Min(grown)}) = limit
  BY <1>1, <1>2, <1>5, <1>7
<1> QED BY <1>5, <1>6, <1>8, <1>9

\* Appending events leaves an overrun event overrun.
LEMMA OverrunKept ==
    ASSUME NEW k, kind \in Seq(EventKinds), kind' = Append(kind, k),
           NEW s \in 1 .. Len(kind), Overrun(s)
    PROVE  Overrun(s)'
<1> DEFINE A == {t \in s + 1 .. Len(kind) : SameRing(s, t)}
           B == {t \in s + 1 .. Len(kind') : SameRing(s, t)'}
<1>1. Len(kind) \in Nat /\ Len(kind') = Len(kind) + 1
      /\ \A t \in 1 .. Len(kind) : kind'[t] = kind[t]
  OBVIOUS
<1>2. A \subseteq B
  BY <1>1 DEF SameRing
<1>3. IsFiniteSet(B)
  <2>1. IsFiniteSet(s + 1 .. Len(kind'))
    BY <1>1, FS_Interval
  <2> QED BY <2>1, FS_Subset
<1>4. Cardinality(A) <= Cardinality(B) /\ Cardinality(A) \in Nat /\ Cardinality(B) \in Nat
  BY <1>2, <1>3, FS_Subset, FS_CardinalityType
<1>5. (IF kind[s] = "audio" THEN MaxAudio ELSE MaxEvents) \in Nat
  BY BufferAssumption
<1>6. Cardinality(A) >= (IF kind[s] = "audio" THEN MaxAudio ELSE MaxEvents)
  BY DEF Overrun
<1>7. Cardinality(B) >= (IF kind'[s] = "audio" THEN MaxAudio ELSE MaxEvents)
  BY <1>1, <1>4, <1>5, <1>6
<1> QED BY <1>7 DEF Overrun

\* Pushing onto the ring of its class: what was in it is kept or overrun.
LEMMA PushKeeps ==
    ASSUME NEW k \in EventKinds, kind \in Seq(EventKinds), kind' = Append(kind, k),
           NEW ring, ring \subseteq 1 .. Len(kind),
           \A t \in ring : (kind[t] = "audio") <=> (k = "audio"),
           NEW limit, limit = (IF k = "audio" THEN MaxAudio ELSE MaxEvents),
           Cardinality(ring) <= limit,
           NEW s \in ring \cup {Len(kind) + 1}
    PROVE  s \in Push(ring, limit, Len(kind) + 1) \/ Overrun(s)'
<1> DEFINE n == Len(kind)
           P == Push(ring, limit, n + 1)
           B == {t \in s + 1 .. Len(kind') : SameRing(s, t)'}
<1>1. n \in Nat /\ Len(kind') = n + 1 /\ kind'[n + 1] = k
      /\ \A t \in 1 .. n : kind'[t] = kind[t]
  OBVIOUS
<1>2. limit \in Nat
  BY BufferAssumption
<1> SUFFICES ASSUME s \notin P PROVE Overrun(s)'
  OBVIOUS
<1>3. Cardinality(P) = limit /\ \A t \in P : t > s
  BY <1>1, <1>2, PushDrops
<1>4. P \subseteq ring \cup {n + 1}
  BY <1>1, <1>2, PushBound
<1>5. \A t \in ring \cup {n + 1} : (kind'[t] = "audio") <=> (k = "audio")
  BY <1>1
<1>6. P \subseteq B
  <2>1. \A t \in P : t \in s + 1 .. n + 1
    <3> SUFFICES ASSUME NEW t \in P PROVE t \in s + 1 .. n + 1
      OBVIOUS
    <3>1. ring \cup {n + 1} \subseteq 1 .. n + 1
      <4>1. 1 .. n \subseteq 1 .. n + 1 /\ n + 1 \in 1 .. n + 1
        BY <1>1
      <4>2. ring \subseteq 1 .. n
        OBVIOUS
      <4> HIDE DEF n
      <4> QED BY <4>1, <4>2
    <3>2. t \in 1 .. n + 1 /\ s \in 1 .. n + 1
      BY <1>4, <3>1
    <3>3. t \in P => t > s
      BY <1>3
    <3> HIDE DEF P
    <3> QED BY <1>1, <3>2, <3>3
  <2>2. \A t \in P : SameRing(s, t)'
    BY <1>4, <1>5 DEF SameRing
  <2> QED BY <1>1, <2>1, <2>2
<1>7. IsFiniteSet(B)
  <2>1. IsFiniteSet(s + 1 .. Len(kind'))
    BY <1>1, FS_Interval
  <2> QED BY <2>1, FS_Subset
<1>8. Cardinality(P) <= Cardinality(B)
  BY <1>6, <1>7, FS_Subset
<1>9. limit = (IF kind'[s] = "audio" THEN MaxAudio ELSE MaxEvents)
  BY <1>5
<1>10. Cardinality(B) >= (IF kind'[s] = "audio" THEN MaxAudio ELSE MaxEvents)
  <2>1. Cardinality(B) \in Nat
    BY <1>7, FS_CardinalityType
  <2> QED BY <1>2, <1>3, <1>8, <1>9, <2>1
<1> QED BY <1>10 DEF Overrun

\* An append leaves what subscriptions hold and clients have as it was.
LEMMA AppendKeepsReaders ==
    ASSUME IInv, GapInv, NEW k \in EventKinds, kind' = Append(kind, k),
           UNCHANGED reader
    PROVE  BatchInv' /\ NothingSkipped'
<1>1. /\ kind \in Seq(EventKinds) /\ Len(kind) \in Nat
      /\ batch \in [Clients -> SUBSET (1 .. Len(kind))]
      /\ cursor \in [Clients -> 0 .. Len(kind)]
  BY DEF IInv, TypeOK
<1>2. \A s \in 1 .. Len(kind) : Overrun(s) => Overrun(s)'
  BY <1>1, OverrunKept
<1>3. BatchInv'
  <2> SUFFICES ASSUME NEW c \in Clients, NEW t \in batch'[c], NEW s \in cursor'[c] + 1 .. t
               PROVE  s \in batch'[c] \/ Overrun(s)'
    BY DEF BatchInv
  <2>1. t \in batch[c] /\ s \in cursor[c] + 1 .. t /\ batch'[c] = batch[c]
    BY DEF reader
  <2>2. cursor[c] \in Nat /\ t \in 1 .. Len(kind)
    BY <1>1, <2>1
  <2>3. s \in 1 .. Len(kind)
    BY <1>1, <2>1, <2>2
  <2> QED BY <1>2, <2>1, <2>3 DEF GapInv, BatchInv
<1>4. NothingSkipped'
  <2> SUFFICES ASSUME NEW c \in Clients, NEW s \in 1 .. LastReceived(c)'
               PROVE  s \in Received(c)' \/ Overrun(s)'
    BY DEF NothingSkipped
  <2>1. LastReceived(c)' = LastReceived(c) /\ Received(c)' = Received(c)
    BY DEF reader, LastReceived, Received
  <2>2. LastReceived(c) \in 0 .. Len(kind)
    BY LastReceivedType DEF IInv
  <2>3. s \in 1 .. Len(kind)
    BY <1>1, <2>1, <2>2
  <2> QED BY <1>2, <2>1, <2>3 DEF GapInv, NothingSkipped
<1> QED BY <1>3, <1>4

\* An append, as seen by the two rings.
LEMMA AppendGap ==
    ASSUME IInv, GapInv, NEW k \in EventKinds, kind' = Append(kind, k),
           buffer = "open", UNCHANGED <<buffer, reader>>,
           IF k = "audio"
           THEN log' = log /\ audio' = Push(audio, MaxAudio, Len(kind) + 1)
           ELSE audio' = audio /\ log' = Push(log, MaxEvents, Len(kind) + 1)
    PROVE  GapInv'
<1> DEFINE n == Len(kind) + 1
<1>1. /\ kind \in Seq(EventKinds) /\ Len(kind) \in Nat
      /\ log \subseteq 1 .. Len(kind) /\ audio \subseteq 1 .. Len(kind)
      /\ Cardinality(log) <= MaxEvents /\ Cardinality(audio) <= MaxAudio
  BY DEF IInv, TypeOK
<1>2. Len(kind') = n /\ kind'[n] = k /\ \A t \in 1 .. Len(kind) : kind'[t] = kind[t]
  BY <1>1
<1>3. \A t \in log : kind[t] # "audio"
  BY DEF GapInv, RingsInv
<1>4. \A t \in audio : kind[t] = "audio"
  BY DEF GapInv, RingsInv
<1>5. /\ \A t \in log' : kind'[t] # "audio"
      /\ \A t \in audio' : kind'[t] = "audio"
  <2>1. CASE k = "audio"
    <3>1. audio' \subseteq audio \cup {n} /\ log' = log
      BY <1>1, <2>1, PushBound, BufferAssumption
    <3> QED BY <1>1, <1>2, <1>3, <1>4, <2>1, <3>1
  <2>2. CASE k # "audio"
    <3>1. log' \subseteq log \cup {n} /\ audio' = audio
      BY <1>1, <2>2, PushBound, BufferAssumption
    <3> QED BY <1>1, <1>2, <1>3, <1>4, <2>2, <3>1
  <2> QED BY <2>1, <2>2
<1>6. \A s \in 1 .. n : s \in log' \cup audio' \/ Overrun(s)'
  <2> SUFFICES ASSUME NEW s \in 1 .. n PROVE s \in log' \cup audio' \/ Overrun(s)'
    OBVIOUS
  <2>1. s = n \/ s \in 1 .. Len(kind)
    BY <1>1
  <2>2. s = n \/ s \in log \cup audio \/ (s \in 1 .. Len(kind) /\ Overrun(s))
    BY <2>1 DEF GapInv, RingsInv
  <2>3. CASE s \in 1 .. Len(kind) /\ Overrun(s)
    BY <1>1, <2>3, OverrunKept
  <2>4. CASE k = "audio" /\ s \in audio \cup {n}
    BY <1>1, <1>4, <2>4, PushKeeps
  <2>5. CASE k # "audio" /\ s \in log \cup {n}
    BY <1>1, <1>3, <2>5, PushKeeps
  <2>6. CASE k = "audio" /\ s \in log
    BY <2>6
  <2>7. CASE k # "audio" /\ s \in audio
    BY <2>7
  <2> QED BY <2>2, <2>3, <2>4, <2>5, <2>6, <2>7
<1>7. RingsInv'
  BY <1>2, <1>5, <1>6 DEF RingsInv
<1>8. BatchInv' /\ NothingSkipped'
  BY AppendKeepsReaders
<1> QED BY <1>7, <1>8 DEF GapInv

\* A step that leaves the events and what clients have received as they are.
LEMMA QuietGap ==
    ASSUME GapInv, UNCHANGED <<stored, got>>,
           \A c \in Clients : \/ batch'[c] = batch[c] /\ cursor'[c] = cursor[c]
                              \/ batch'[c] = {}
    PROVE  GapInv'
<1>1. \A s : Overrun(s)' <=> Overrun(s)
  BY DEF Overrun, SameRing, stored
<1>2. RingsInv'
  BY <1>1 DEF GapInv, RingsInv, stored
<1>3. BatchInv'
  BY <1>1 DEF GapInv, BatchInv
<1>4. NothingSkipped'
  BY <1>1 DEF GapInv, NothingSkipped, LastReceived, Received
<1> QED BY <1>2, <1>3, <1>4 DEF GapInv

\* A scan finds every retained event after the cursor.
LEMMA RescanGap == \A c \in Clients : IInv /\ GapInv /\ Rescan(c) => GapInv'
<1> SUFFICES ASSUME NEW c \in Clients, IInv, GapInv, Rescan(c) PROVE GapInv'
  OBVIOUS
<1>1. \A s : Overrun(s)' <=> Overrun(s)
  BY DEF Overrun, SameRing, stored, Rescan
<1>2. RingsInv'
  BY <1>1 DEF GapInv, RingsInv, stored, Rescan
<1>3. NothingSkipped'
  BY <1>1 DEF GapInv, NothingSkipped, LastReceived, Received, Rescan
<1>4. /\ batch'[c] = Pending(c) /\ cursor' = cursor /\ buffer = "open"
      /\ \A d \in Clients \ {c} : batch'[d] = batch[d]
      /\ log \subseteq 1 .. Len(kind) /\ audio \subseteq 1 .. Len(kind)
      /\ Len(kind) \in Nat /\ cursor[c] \in 0 .. Len(kind)
  BY DEF Rescan, IInv, TypeOK
<1>5. BatchInv'
  <2> SUFFICES ASSUME NEW d \in Clients, NEW t \in batch'[d], NEW s \in cursor'[d] + 1 .. t
               PROVE  s \in batch'[d] \/ Overrun(s)'
    BY DEF BatchInv
  <2>1. CASE d = c
    <3>1. t \in Pending(c) /\ s \in cursor[c] + 1 .. t /\ cursor[c] \in Nat
      BY <1>4, <2>1
    <3>4. t \in 1 .. Len(kind)
      BY <1>4, <3>1 DEF Pending
    <3>2. s \in 1 .. Len(kind) /\ s > cursor[c]
      BY <1>4, <3>1, <3>4
    <3>3. s \in log \cup audio \/ Overrun(s)
      BY <1>4, <3>2 DEF GapInv, RingsInv
    <3> QED BY <1>1, <1>4, <2>1, <3>2, <3>3 DEF Pending
  <2>2. CASE d # c
    BY <1>1, <1>4, <2>2 DEF GapInv, BatchInv
  <2> QED BY <2>1, <2>2
<1> QED BY <1>2, <1>3, <1>5 DEF GapInv

\* What lies between the last event received and the next one is overrun.
LEMMA YieldGap == \A c \in Clients : IInv /\ GapInv /\ Yield(c) => GapInv'
<1> SUFFICES ASSUME NEW c \in Clients, IInv, GapInv, Yield(c) PROVE GapInv'
  OBVIOUS
<1> DEFINE m == Min(batch[c])
           n == Len(got[c])
<1>1. /\ batch[c] \subseteq 1 .. Len(kind) /\ batch[c] # {} /\ Len(kind) \in Nat
      /\ at[c] = "reading" /\ cursor[c] = LastReceived(c)
      /\ got[c] \in Seq(1 .. Len(kind)) /\ n \in Nat
  BY DEF Yield, Deliver, IInv, TypeOK, CursorInv, Connected
<1>2. m \in batch[c] /\ \A t \in batch[c] : m <= t
  BY <1>1, LeastNumber
<1>3. m \in 1 .. Len(kind) /\ LastReceived(c) \in 0 .. Len(kind)
  BY <1>1, <1>2, LastReceivedType DEF IInv
<1>4. /\ got'[c] = Append(got[c], m) /\ cursor'[c] = m
      /\ \A d \in Clients \ {c} : got'[d] = got[d] /\ cursor'[d] = cursor[d]
      /\ UNCHANGED stored
  BY DEF Yield, Deliver, IInv, TypeOK
<1>5. /\ batch'[c] \in {{}, batch[c] \ {m}}
      /\ \A d \in Clients \ {c} : batch'[d] = batch[d]
  <2>1. CASE kind[m] = "terminal"
    BY <2>1 DEF Yield, Deliver, IInv, TypeOK
  <2>2. CASE kind[m] # "terminal"
    BY <2>2 DEF Yield, Deliver, IInv, TypeOK
  <2> QED BY <2>1, <2>2
<1>6. \A s : Overrun(s)' <=> Overrun(s)
  BY <1>4 DEF Overrun, SameRing, stored
<1>7. RingsInv'
  BY <1>4, <1>6 DEF GapInv, RingsInv, stored
<1>8. BatchInv'
  <2> SUFFICES ASSUME NEW d \in Clients, NEW t \in batch'[d], NEW s \in cursor'[d] + 1 .. t
               PROVE  s \in batch'[d] \/ Overrun(s)'
    BY DEF BatchInv
  <2>1. CASE d = c
    <3>1. batch'[c] = batch[c] \ {m} /\ t \in batch[c] /\ s \in m + 1 .. t
      BY <1>4, <1>5, <2>1
    <3>2. m > cursor[c]
      BY <1>2 DEF IInv, CursorInv
    <3>3. s \in cursor[c] + 1 .. t /\ s # m
      BY <1>1, <1>3, <3>1, <3>2
    <3> QED BY <1>6, <2>1, <3>1, <3>3 DEF GapInv, BatchInv
  <2>2. CASE d # c
    BY <1>4, <1>5, <1>6, <2>2 DEF GapInv, BatchInv
  <2> QED BY <2>1, <2>2
<1>9. NothingSkipped'
  <2> SUFFICES ASSUME NEW d \in Clients, NEW s \in 1 .. LastReceived(d)'
               PROVE  s \in Received(d)' \/ Overrun(s)
    BY <1>6 DEF NothingSkipped
  <2>1. CASE d = c
    <3>1. Len(got'[c]) = n + 1 /\ got'[c][n + 1] = m /\ DOMAIN got'[c] = 1 .. n + 1
      BY <1>1, <1>3, <1>4
    <3>2. \A i \in 1 .. n : got'[c][i] = got[c][i]
      BY <1>1, <1>3, <1>4
    <3>3. LastReceived(c)' = m
      <4>1. got'[c] # <<>>
        BY <1>1, <3>1
      <4> QED BY <3>1, <4>1 DEF LastReceived
    <3>4. Received(c) \subseteq Received(c)'
      <4>1. DOMAIN got[c] = 1 .. n /\ 1 .. n \subseteq 1 .. n + 1
        BY <1>1
      <4> QED BY <3>1, <3>2, <4>1 DEF Received
    <3>5. m \in Received(c)'
      <4>1. n + 1 \in DOMAIN got'[c]
        BY <1>1, <3>1
      <4> QED BY <3>1, <4>1 DEF Received
    <3>6. s \in 1 .. m
      BY <2>1, <3>3
    <3>7. CASE s <= LastReceived(c)
      <4>1. s \in 1 .. LastReceived(c)
        BY <1>3, <3>6, <3>7
      <4> QED BY <2>1, <3>4, <4>1 DEF GapInv, NothingSkipped
    <3>8. CASE s > LastReceived(c) /\ s # m
      <4>1. s \in cursor[c] + 1 .. m
        BY <1>1, <1>3, <3>6, <3>8
      <4>2. s \notin batch[c]
        BY <1>2, <1>3, <3>6, <3>8
      <4> QED BY <1>2, <4>1, <4>2 DEF GapInv, BatchInv
    <3>9. s \in Nat /\ LastReceived(c) \in Nat
      BY <1>3, <3>6
    <3> QED BY <2>1, <3>5, <3>7, <3>8, <3>9
  <2>2. CASE d # c
    BY <1>4, <2>2 DEF GapInv, NothingSkipped, LastReceived, Received
  <2> QED BY <2>1, <2>2
<1> QED BY <1>7, <1>8, <1>9 DEF GapInv

\* The initial state has no events.
LEMMA InitGap == Init => GapInv
BY DEF Init, GapInv, RingsInv, BatchInv, NothingSkipped, LastReceived

\* Every step keeps it.
LEMMA NextGap == IInv /\ GapInv /\ [Next]_vars => GapInv'
<1> SUFFICES ASSUME IInv, GapInv, [Next]_vars PROVE GapInv'
  OBVIOUS
<1>1. CASE Open
  <2>1. kind = <<>> /\ kind' = kind /\ log' = log /\ audio' = audio /\ UNCHANGED reader
    BY <1>1 DEF Open, GapInv, RingsInv
  <2>2. RingsInv'
    BY <1>1, <2>1 DEF Open, GapInv, RingsInv
  <2>3. \A s : Overrun(s)' <=> Overrun(s)
    BY <2>1 DEF Overrun, SameRing
  <2>4. BatchInv' /\ NothingSkipped'
    BY <2>1, <2>3 DEF GapInv, BatchInv, NothingSkipped, LastReceived, Received, reader
  <2> QED BY <2>2, <2>4 DEF GapInv
<1>2. CASE EmitControl
  BY <1>2, AppendGap DEF EmitControl, EventKinds
<1>3. CASE EmitAudio
  BY <1>3, AppendGap DEF EmitAudio, EventKinds
<1>4. CASE Finish
  BY <1>4, AppendGap DEF Finish, EventKinds
<1>5. CASE Expire
  <2>1. kind' = kind /\ log' = {} /\ audio' = {} /\ buffer' = "dropped" /\ UNCHANGED reader
    BY <1>5 DEF Expire
  <2>2. RingsInv'
    BY <2>1 DEF RingsInv
  <2>3. \A s : Overrun(s)' <=> Overrun(s)
    BY <2>1 DEF Overrun, SameRing
  <2>4. BatchInv' /\ NothingSkipped'
    BY <2>1, <2>3 DEF GapInv, BatchInv, NothingSkipped, LastReceived, Received, reader
  <2> QED BY <2>2, <2>4 DEF GapInv
<1>6. ASSUME NEW c \in Clients, Connect(c) PROVE GapInv'
  <2>1. batch[c] = {}
    BY <1>6 DEF Connect, IInv, CursorInv
  <2>2. batch' = batch /\ \A d \in Clients \ {c} : cursor'[d] = cursor[d]
    BY <1>6 DEF Connect, IInv, TypeOK
  <2> QED BY <1>6, <2>1, <2>2, QuietGap DEF Connect
<1>7. ASSUME NEW c \in Clients, Respond(c) PROVE GapInv'
  <2>1. CASE Accept(c)
    BY <2>1, QuietGap DEF Accept, reader
  <2>2. CASE Refuse(c)
    BY <2>2, QuietGap DEF Refuse, reader
  <2>3. CASE Subscribe(c)
    BY <2>3, QuietGap DEF Subscribe, reader
  <2>4. CASE Break(c)
    BY <2>4, QuietGap DEF Break, reader
  <2>5. CASE KeepAlive(c)
    BY <2>5, QuietGap DEF KeepAlive, reader
  <2> QED BY <1>7, <2>1, <2>2, <2>3, <2>4, <2>5, RescanGap, YieldGap DEF Respond
<1>8. ASSUME NEW c \in Clients, Lose(c) PROVE GapInv'
  <2>1. \A d \in Clients : batch'[d] = batch[d] \/ batch'[d] = {}
    BY <1>8 DEF Lose, IInv, TypeOK
  <2> QED BY <1>8, <2>1, QuietGap DEF Lose
<1>9. CASE UNCHANGED vars
  BY <1>9, QuietGap DEF vars, stored
<1> QED BY <1>1, <1>2, <1>3, <1>4, <1>5, <1>6, <1>7, <1>8, <1>9 DEF Next

\* For any sizes: over all its connections a client of InMemoryStreamBuffer only
\* misses an event when a whole ring of later events of its class was appended,
\* so audio never costs it a text or step event.
THEOREM OnlyOverrunIsMissed == Spec => []NothingSkipped
<1>1. Init => IInv /\ GapInv
  BY InitIInv, InitGap
<1>2. IInv /\ GapInv /\ [Next]_vars => (IInv /\ GapInv)'
  BY NextIInv, NextGap
<1>3. IInv /\ GapInv => NothingSkipped
  BY DEF GapInv
<1> QED BY <1>1, <1>2, <1>3, PTL DEF Spec

-----------------------------------------------------------------------------
(* DebugStreams. *)

PhaseType ==
    phase \in [Runs -> {"idle", "starting", "waiting", "running", "over", "lost"}]

\* A queue never outlives its buffer, a buffer is there only between
\* create_stream and the cleanup of an ended run, and that cleanup is scheduled
\* as long as the buffer is there. The last is what a delta that opens a dropped
\* buffer again could break: it cannot, since the run that emits it has its
\* terminal event still to come.
TableInv ==
    \A r \in Runs :
        /\ HasStream(r) => r \in buffered
        /\ r \in buffered => phase[r] \in {"waiting", "running", "over"}
        /\ phase[r] = "over" /\ r \in buffered => r \in timers

DebugInv == PhaseType /\ TableInv

LEMMA InitDebug == DebugInit => DebugInv
BY DEF DebugInit, DebugInv, PhaseType, TableInv, HasStream

\* The end of a response, whichever stream it followed, and the timer take a
\* queue, its ready event and its buffer away together.
LEMMA CleanupKeepsTable ==
    ASSUME DebugInv, NEW e, Cleanup(e), UNCHANGED phase, timers' = timers \ {e} \/ timers' = timers
    PROVE  DebugInv'
BY DEF DebugInv, PhaseType, TableInv, HasStream, Cleanup

LEMMA NextDebug == DebugInv /\ [DebugNext]_debugVars => DebugInv'
<1> SUFFICES ASSUME DebugInv, [DebugNext]_debugVars PROVE DebugInv'
  OBVIOUS
<1> USE DEF HasStream
<1>1. ASSUME NEW r \in Runs, CreateStream(r) PROVE DebugInv'
  BY <1>1 DEF CreateStream, MovesOn, DebugInv, PhaseType, TableInv
<1>2. ASSUME NEW r \in Runs, PrepareFails(r) PROVE DebugInv'
  BY <1>2 DEF PrepareFails, MovesOn, table, DebugInv, PhaseType, TableInv
<1>3. ASSUME NEW r \in Runs, ClientReady(r) \/ WaitTimesOut(r) PROVE DebugInv'
  BY <1>3 DEF ClientReady, WaitTimesOut, MovesOn, table, DebugInv, PhaseType, TableInv
<1>4. ASSUME NEW r \in Runs, EmitDelta(r) PROVE DebugInv'
  BY <1>4 DEF EmitDelta, DebugInv, PhaseType, TableInv
<1>5. ASSUME NEW r \in Runs, EmitTerminal(r) PROVE DebugInv'
  BY <1>5 DEF EmitTerminal, MovesOn, table, DebugInv, PhaseType, TableInv
<1>6. ASSUME NEW r \in Runs, DropLater(r) PROVE DebugInv'
  BY <1>6, CleanupKeepsTable DEF DropLater
<1>7. ASSUME NEW r \in Runs, Listen(r) PROVE DebugInv'
  BY <1>7 DEF Listen, MovesOn, table, DebugInv, PhaseType, TableInv
<1>8. ASSUME NEW r \in Runs, Discover(r) \/ GiveUp(r) PROVE DebugInv'
  BY <1>8 DEF Discover, GiveUp, table, DebugInv, PhaseType, TableInv
<1>9. ASSUME NEW r \in Runs, Hear(r) PROVE DebugInv'
  BY <1>9, CleanupKeepsTable DEF Hear
<1>10. ASSUME NEW r \in Runs, HangUp(r) PROVE DebugInv'
  <2>1. CASE follows[r] = NoRun
    BY <1>10, <2>1 DEF HangUp, table, DebugInv, PhaseType, TableInv
  <2>2. CASE follows[r] # NoRun
    BY <1>10, <2>2, CleanupKeepsTable DEF HangUp
  <2> QED BY <2>1, <2>2
<1>11. CASE UNCHANGED debugVars
  BY <1>11 DEF debugVars, table, DebugInv, PhaseType, TableInv
<1> QED
  BY <1>1, <1>2, <1>3, <1>4, <1>5, <1>6, <1>7, <1>8, <1>9, <1>10, <1>11
  DEF DebugNext, RunStep, ListenerStep

\* When a run is over and its cleanup has happened, the manager keeps nothing
\* of it, for any number of runs and responses.  (cleanup_stream)
THEOREM NothingKeptOfARun == DebugSpec => []NoStreamLeftBehind
<1>1. DebugInv => NoStreamLeftBehind
  BY DEF DebugInv, TableInv, NoStreamLeftBehind, HasStream
<1> QED BY <1>1, InitDebug, NextDebug, PTL DEF DebugSpec

=============================================================================

-------------------------- MODULE CostSignals_proofs --------------------------
(****************************************************************************)
(* For any number of connections, pairs, costs and nested savepoints: no    *)
(* cost that may still be committed is without its recalculation, and no    *)
(* price is computed from one that may still be taken back.  For a single   *)
(* connection: saved costs reach the prices, and announced ones the costs.  *)
(* Last, the scenarios of MCSignals, the queue of the matrix among them.    *)
(****************************************************************************)
EXTENDS MCSignals, Integers, WellFoundedInduction, TLAPS

\* What NothingStarved says of the stack and the dictionary of one connection.
Kept(frames, dict) ==
    \A d \in DOMAIN frames, pair \in Pair :
        frames[d].writes[pair] # Null =>
            /\ pair \in dict
            /\ \E e \in 1 .. d : Registered(frames[e].hooks, Flush)

Types ==
    /\ stack \in [Conn -> Seq(Frame)]
    /\ running \in [Conn -> Seq(Hook)]
    /\ pending \in [Conn -> SUBSET Pair]
    /\ seen = [c \in Conn |-> seen[c]]
    /\ costs \in Nat

\* Callbacks run only when the transaction is over.
Outside == \A c \in Conn : running[c] # <<>> => stack[c] = <<>>

\* What was read belongs to the callback that runs.
Reading == \A c \in Conn : seen[c] # NoWrites => running[c] # <<>> /\ Head(running[c]) = Flush

IInv == Types /\ Outside /\ Reading /\ \A c \in Conn : Kept(stack[c], pending[c])

-----------------------------------------------------------------------------
(* Hooks and frames *)

LEMMA FlushIsHook == Flush \in Hook
  BY DEF Flush, Event, Hook

LEMMA FrameTypes ==
    /\ NewFrame \in Frame
    /\ \A f \in Frame, hook \in Hook : [f EXCEPT !.hooks = Append(@, hook)] \in Frame
    /\ \A old, new \in [Pair -> Nat \cup {Null}] : Over(old, new) \in [Pair -> Nat \cup {Null}]
<1>1. NoWrites \in [Pair -> Nat \cup {Null}]
    BY DEF NoWrites
<1>2. NewFrame \in Frame
    BY <1>1 DEF NewFrame, Frame
<1>3. ASSUME NEW f \in Frame, NEW hook \in Hook
      PROVE  [f EXCEPT !.hooks = Append(@, hook)] \in Frame
    <2>1. Append(f.hooks, hook) \in Seq(Hook)
        BY DEF Frame
    <2> QED
        BY <2>1 DEF Frame
<1>4. \A old, new \in [Pair -> Nat \cup {Null}] : Over(old, new) \in [Pair -> Nat \cup {Null}]
    BY DEF Over
<1> QED
    BY <1>2, <1>3, <1>4

\* Appending keeps what is registered, and so does joining two sequences.
LEMMA RegisteredStays ==
    ASSUME NEW hooks \in Seq(Hook), NEW more \in Seq(Hook), NEW hook
    PROVE  /\ Registered(hooks, hook) => Registered(hooks \o more, hook)
           /\ Registered(more, hook) => Registered(hooks \o more, hook)
<1>1. ASSUME NEW i \in DOMAIN hooks PROVE i \in DOMAIN (hooks \o more) /\ (hooks \o more)[i] = hooks[i]
    OBVIOUS
<1>2. ASSUME NEW i \in DOMAIN more
      PROVE  Len(hooks) + i \in DOMAIN (hooks \o more) /\ (hooks \o more)[Len(hooks) + i] = more[i]
    OBVIOUS
<1> QED
    BY <1>1, <1>2 DEF Registered

LEMMA RegisteredByAppend ==
    ASSUME NEW hooks \in Seq(Hook), NEW hook \in Hook, NEW other
    PROVE  /\ Registered(Append(hooks, hook), hook)
           /\ Registered(hooks, other) => Registered(Append(hooks, hook), other)
<1>1. Len(hooks) + 1 \in DOMAIN Append(hooks, hook) /\ Append(hooks, hook)[Len(hooks) + 1] = hook
    OBVIOUS
<1>2. ASSUME NEW i \in DOMAIN hooks PROVE i \in DOMAIN Append(hooks, hook) /\ Append(hooks, hook)[i] = hooks[i]
    OBVIOUS
<1> QED
    BY <1>1, <1>2 DEF Registered

LEMMA FrontOfSeq ==
    ASSUME NEW s \in Seq(Frame), s # <<>>
    PROVE  /\ Front(s) \in Seq(Frame) /\ Len(Front(s)) = Len(s) - 1
           /\ \A i \in 1 .. Len(s) - 1 : Front(s)[i] = s[i]
           /\ Last(s) \in Frame
<1>1. Len(s) \in Nat /\ Len(s) > 0
    OBVIOUS
<1>2. \A i \in 1 .. Len(s) - 1 : s[i] \in Frame
    BY <1>1
<1>3. Front(s) \in Seq(Frame) /\ Len(Front(s)) = Len(s) - 1
    BY <1>1, <1>2 DEF Front
<1>4. \A i \in 1 .. Len(s) - 1 : Front(s)[i] = s[i]
    BY DEF Front
<1>5. Last(s) \in Frame
    BY <1>1 DEF Last
<1> QED
    BY <1>3, <1>4, <1>5

-----------------------------------------------------------------------------
(* What transactions do to a stack *)

LEMMA PushKeeps ==
    ASSUME NEW s \in Seq(Frame), NEW dict, Kept(s, dict)
    PROVE  Append(s, NewFrame) \in Seq(Frame) /\ Kept(Append(s, NewFrame), dict)
<1>1. Append(s, NewFrame) \in Seq(Frame)
    BY FrameTypes
<1>2. ASSUME NEW d \in DOMAIN Append(s, NewFrame), NEW pair \in Pair,
             Append(s, NewFrame)[d].writes[pair] # Null
      PROVE  d \in DOMAIN s /\ \A e \in 1 .. d : Append(s, NewFrame)[e] = s[e]
    <2>1. d \in 1 .. Len(s) + 1
        BY FrameTypes
    <2>2. d # Len(s) + 1
        BY <1>2, FrameTypes DEF NewFrame, NoWrites
    <2> QED
        BY <2>1, <2>2
<1>3. Kept(Append(s, NewFrame), dict)
    BY <1>2 DEF Kept
<1> QED
    BY <1>1, <1>3

LEMMA PopKeeps ==
    ASSUME NEW s \in Seq(Frame), s # <<>>, NEW dict, Kept(s, dict)
    PROVE  Front(s) \in Seq(Frame) /\ Kept(Front(s), dict)
<1>1. DOMAIN Front(s) = 1 .. Len(s) - 1
    BY DEF Front
<1>2. \A d \in DOMAIN Front(s) : d \in DOMAIN s /\ \A e \in 1 .. d : Front(s)[e] = s[e]
    BY <1>1, FrontOfSeq
<1>3. Kept(Front(s), dict)
    BY <1>2 DEF Kept
<1> QED
    BY <1>3, FrontOfSeq

\* The frames of a stack after a savepoint is released.
Joined(s) ==
    LET below == Front(s)
    IN  [below EXCEPT ![Len(below)] =
            [writes |-> Over(Last(below).writes, Last(s).writes),
             hooks  |-> Last(below).hooks \o Last(s).hooks]]

LEMMA JoinedFrames ==
    ASSUME NEW s \in Seq(Frame), NEW n \in Nat \ {0}, Len(s) = n + 1
    PROVE  /\ s[n] \in Frame /\ s[n + 1] \in Frame
           /\ Joined(s) \in Seq(Frame) /\ DOMAIN Joined(s) = 1 .. n
           /\ Joined(s)[n] = [writes |-> Over(s[n].writes, s[n + 1].writes),
                              hooks  |-> s[n].hooks \o s[n + 1].hooks]
           /\ \A i \in 1 .. n - 1 : Joined(s)[i] = s[i]
<1> DEFINE outer == s[n]
           top == s[n + 1]
           both == [writes |-> Over(outer.writes, top.writes), hooks |-> outer.hooks \o top.hooks]
<1>1. n \in Nat /\ n > 0 /\ Len(s) = n + 1
    OBVIOUS
<1>2. outer \in Frame /\ top \in Frame
    BY <1>1
<1>3. both \in Frame
    <2>1. Over(outer.writes, top.writes) \in [Pair -> Nat \cup {Null}]
        BY <1>2, FrameTypes DEF Frame
    <2>2. outer.hooks \o top.hooks \in Seq(Hook)
        BY <1>2 DEF Frame
    <2> QED
        BY <2>1, <2>2 DEF Frame
<1>4. /\ Front(s) \in Seq(Frame) /\ Len(Front(s)) = n
      /\ Last(s) = top /\ Last(Front(s)) = outer
    <2>1. s # <<>>
        OBVIOUS
    <2>2. /\ Front(s) \in Seq(Frame) /\ Len(Front(s)) = Len(s) - 1
          /\ \A i \in 1 .. Len(s) - 1 : Front(s)[i] = s[i]
        BY <2>1, FrontOfSeq
    <2>3. Len(Front(s)) = n /\ Front(s)[n] = s[n]
        BY <1>1, <2>2
    <2> QED
        BY <1>1, <2>2, <2>3 DEF Last
<1>5. /\ Joined(s) \in Seq(Frame) /\ DOMAIN Joined(s) = 1 .. n
      /\ Joined(s)[n] = both
      /\ \A i \in 1 .. n - 1 : Joined(s)[i] = s[i]
    <2>1. Joined(s) = [Front(s) EXCEPT ![n] = both]
        BY <1>4 DEF Joined
    <2>2. Joined(s) \in Seq(Frame) /\ DOMAIN Joined(s) = 1 .. n /\ Joined(s)[n] = both
        <3> DEFINE f == Front(s)
        <3>1. f \in Seq(Frame) /\ Len(f) = n /\ n \in 1 .. n
            BY <1>1, <1>4
        <3> HIDE DEF f
        <3>2. /\ [f EXCEPT ![n] = both] \in Seq(Frame)
              /\ DOMAIN [f EXCEPT ![n] = both] = 1 .. n
              /\ [f EXCEPT ![n] = both][n] = both
            <4> HIDE DEF both
            <4> QED
                BY <3>1, <1>3
        <3> QED
            BY <2>1, <3>2 DEF f
    <2>3. \A i \in 1 .. Len(s) - 1 : Front(s)[i] = s[i]
        <3>1. s # <<>>
            BY <1>1
        <3> QED
            BY <3>1, FrontOfSeq
    <2>4. \A i \in 1 .. n - 1 : Joined(s)[i] = s[i]
        BY <2>1, <2>3, <1>1, <1>4
    <2> QED
        BY <2>2, <2>4
<1> QED
    BY <1>2, <1>5

LEMMA JoinKeeps ==
    ASSUME NEW s \in Seq(Frame), NEW n \in Nat \ {0}, Len(s) = n + 1,
           NEW dict, Kept(s, dict)
    PROVE  Joined(s) \in Seq(Frame) /\ Kept(Joined(s), dict)
<1> DEFINE outer == s[n]
           top == s[n + 1]
           both == [writes |-> Over(outer.writes, top.writes), hooks |-> outer.hooks \o top.hooks]
<1>1. n \in Nat /\ n > 0 /\ Len(s) = n + 1
    OBVIOUS
<1>2. outer \in Frame /\ top \in Frame
    BY <1>1
<1>5. /\ Joined(s) \in Seq(Frame) /\ DOMAIN Joined(s) = 1 .. n
      /\ Joined(s)[n] = both
      /\ \A i \in 1 .. n - 1 : Joined(s)[i] = s[i]
    BY JoinedFrames
<1>6. \A e \in 1 .. n : Registered(s[e].hooks, Flush) => Registered(Joined(s)[e].hooks, Flush)
    <2>1. outer.hooks \in Seq(Hook) /\ top.hooks \in Seq(Hook)
        BY <1>2 DEF Frame
    <2>2. Registered(outer.hooks, Flush) => Registered(both.hooks, Flush)
        BY <2>1, RegisteredStays
    <2>3. ASSUME NEW e \in 1 .. n, e # n PROVE Joined(s)[e] = s[e]
        BY <1>1, <1>5, <2>3
    <2> QED
        BY <1>5, <2>2, <2>3
<1>7. Registered(top.hooks, Flush) => Registered(Joined(s)[n].hooks, Flush)
    <2>1. outer.hooks \in Seq(Hook) /\ top.hooks \in Seq(Hook)
        BY <1>2 DEF Frame
    <2> QED
        BY <1>5, <2>1, RegisteredStays
<1>8. ASSUME NEW d \in 1 .. n, NEW pair \in Pair, Joined(s)[d].writes[pair] # Null
      PROVE  pair \in dict /\ \E e \in 1 .. d : Registered(Joined(s)[e].hooks, Flush)
    <2>1. CASE d < n
        <3>1. s[d].writes[pair] # Null /\ d \in DOMAIN s
            BY <1>1, <1>5, <1>8, <2>1
        <3>2. pair \in dict /\ \E e \in 1 .. d : Registered(s[e].hooks, Flush)
            BY <3>1 DEF Kept
        <3> QED
            BY <1>1, <1>6, <3>2
    <2>2. CASE d = n
        <3>1. Over(outer.writes, top.writes)[pair] # Null
            BY <1>5, <1>8, <2>2
        <3>2. outer.writes[pair] # Null \/ top.writes[pair] # Null
            BY <3>1 DEF Over
        <3>3. CASE outer.writes[pair] # Null
            <4>1. pair \in dict /\ \E e \in 1 .. n : Registered(s[e].hooks, Flush)
                BY <1>1, <3>3 DEF Kept
            <4> QED
                BY <1>6, <4>1, <2>2
        <3>4. CASE top.writes[pair] # Null
            <4>1. pair \in dict /\ \E e \in 1 .. n + 1 : Registered(s[e].hooks, Flush)
                BY <1>1, <3>4 DEF Kept
            <4> QED
                BY <1>1, <1>6, <1>7, <4>1, <2>2
        <3> QED
            BY <3>2, <3>3, <3>4
    <2>3. d < n \/ d = n
        BY <1>1, <1>8
    <2> QED
        BY <2>1, <2>2, <2>3
<1> QED
    BY <1>5, <1>8 DEF Kept

\* The frames of a stack after a hook is registered in the innermost one.
LEMMA HookKeeps ==
    ASSUME NEW s \in Seq(Frame), s # <<>>, NEW dict, Kept(s, dict), NEW hook \in Hook
    PROVE  LET t == [s EXCEPT ![Len(s)].hooks = Append(@, hook)]
           IN  t \in Seq(Frame) /\ Kept(t, dict)
<1> DEFINE t == [s EXCEPT ![Len(s)].hooks = Append(@, hook)]
<1>1. Len(s) \in DOMAIN s /\ s[Len(s)] \in Frame
    OBVIOUS
<1>2. t \in Seq(Frame) /\ DOMAIN t = DOMAIN s
    BY <1>1, FrameTypes
<1>3. \A d \in DOMAIN s : t[d].writes = s[d].writes
    BY <1>1 DEF Frame
<1>4. \A d \in DOMAIN s : Registered(s[d].hooks, Flush) => Registered(t[d].hooks, Flush)
    BY <1>1, RegisteredByAppend DEF Frame
<1>5. Kept(t, dict)
    <2> SUFFICES ASSUME NEW d \in DOMAIN s, NEW pair \in Pair, s[d].writes[pair] # Null
                 PROVE  pair \in dict /\ \E e \in 1 .. d : Registered(t[e].hooks, Flush)
        BY <1>2, <1>3 DEF Kept
    <2>1. pair \in dict /\ \E e \in 1 .. d : Registered(s[e].hooks, Flush)
        BY DEF Kept
    <2>2. \A e \in 1 .. d : e \in DOMAIN s
        OBVIOUS
    <2> QED
        BY <1>4, <2>1, <2>2
<1> QED
    BY <1>2, <1>5
\* The frames and the dictionary after a cost is saved.  If no flush is registered,
\* nothing is written that the new dictionary could lose.
LEMMA SaveKeeps ==
    ASSUME NEW s \in Seq(Frame), s # <<>>, NEW dict, Kept(s, dict),
           NEW pair \in Pair, NEW v \in Nat, NEW scheduled \in BOOLEAN,
           scheduled <=> \E d \in DOMAIN s : Registered(s[d].hooks, Flush)
    PROVE  LET t == [s EXCEPT ![Len(s)] =
                        [writes |-> [@.writes EXCEPT ![pair] = v],
                         hooks  |-> IF scheduled THEN @.hooks ELSE Append(@.hooks, Flush)]]
           IN  t \in Seq(Frame) /\ Kept(t, IF scheduled THEN dict \cup {pair} ELSE {pair})
<1> DEFINE top == s[Len(s)]
           frame == [writes |-> [top.writes EXCEPT ![pair] = v],
                     hooks  |-> IF scheduled THEN top.hooks ELSE Append(top.hooks, Flush)]
           t == [s EXCEPT ![Len(s)] = frame]
           new == IF scheduled THEN dict \cup {pair} ELSE {pair}
<1>1. Len(s) \in Nat /\ Len(s) > 0 /\ Len(s) \in DOMAIN s /\ top \in Frame
    OBVIOUS
<1>2. frame \in Frame
    <2>1. [top.writes EXCEPT ![pair] = v] \in [Pair -> Nat \cup {Null}]
        BY <1>1 DEF Frame
    <2>2. top.hooks \in Seq(Hook) /\ Append(top.hooks, Flush) \in Seq(Hook)
        BY <1>1, FlushIsHook DEF Frame
    <2> QED
        BY <2>1, <2>2 DEF Frame
<1>3. t \in Seq(Frame) /\ DOMAIN t = DOMAIN s
    <2> HIDE DEF frame
    <2> QED
        BY <1>1, <1>2
<1>4. t[Len(s)] = frame /\ \A e \in DOMAIN s : e # Len(s) => t[e] = s[e]
    <2> HIDE DEF frame
    <2> QED
        BY <1>1
<1>5. \A e \in DOMAIN s : Registered(s[e].hooks, Flush) => Registered(t[e].hooks, Flush)
    <2>1. Registered(top.hooks, Flush) => Registered(frame.hooks, Flush)
        BY <1>1, FlushIsHook, RegisteredByAppend DEF Frame
    <2> HIDE DEF t, frame
    <2> QED
        BY <1>4, <2>1
<1>6. ~scheduled => Registered(frame.hooks, Flush)
    BY <1>1, FlushIsHook, RegisteredByAppend DEF Frame
<1>7. ASSUME NEW d \in DOMAIN s, NEW p \in Pair, t[d].writes[p] # Null
      PROVE  p \in new /\ \E e \in 1 .. d : Registered(t[e].hooks, Flush)
    <2>1. d \in 1 .. Len(s) /\ \A e \in 1 .. d : e \in DOMAIN s
        OBVIOUS
    <2>2. CASE s[d].writes[p] # Null
        <3>1. p \in dict /\ \E e \in 1 .. d : Registered(s[e].hooks, Flush)
            BY <2>2 DEF Kept
        <3>2. scheduled
            BY <2>1, <3>1
        <3> HIDE DEF t
        <3> QED
            BY <1>5, <2>1, <3>1, <3>2
    <2>3. CASE s[d].writes[p] = Null
        <3>1. d = Len(s) /\ p = pair
            <4>1. d = Len(s)
                BY <1>4, <1>7, <2>3
            <4>2. [top.writes EXCEPT ![pair] = v][p] # Null
                BY <1>4, <1>7, <4>1
            <4> QED
                BY <1>1, <2>3, <4>1, <4>2 DEF Frame
        <3>2. CASE scheduled
            <4>1. PICK e \in DOMAIN s : Registered(s[e].hooks, Flush)
                BY <3>2
            <4>2. e \in 1 .. d /\ Registered(t[e].hooks, Flush)
                <5> HIDE DEF t
                <5> QED
                    BY <1>5, <3>1, <4>1
            <4> QED
                BY <3>1, <3>2, <4>2
        <3>3. CASE ~scheduled
            <4>1. Registered(t[d].hooks, Flush) /\ d \in 1 .. d
                <5>1. frame.hooks = t[d].hooks /\ d \in Nat /\ d > 0
                    BY <1>1, <1>4, <3>1
                <5> HIDE DEF t, frame
                <5> QED
                    BY <1>6, <3>3, <5>1
            <4> QED
                BY <3>1, <3>3, <4>1
        <3> QED
            BY <3>2, <3>3
    <2> QED
        BY <2>2, <2>3
<1>8. Kept(t, new)
    <2> HIDE DEF t, new
    <2> QED
        BY <1>3, <1>7 DEF Kept
<1> QED
    BY <1>3, <1>8

LEMMA EmptyKeeps == ASSUME NEW dict PROVE <<>> \in Seq(Frame) /\ Kept(<<>>, dict)
  BY DEF Kept

-----------------------------------------------------------------------------
(* The invariant *)

LEMMA InitIsInductive == Init => IInv
<1> SUFFICES ASSUME Init PROVE IInv
    OBVIOUS
<1>1. \A c \in Conn : stack[c] = <<>>
    BY DEF Init
<1> QED
    BY <1>1, EmptyKeeps DEF Init, IInv, Types, Outside, Reading

\* What changes on one connection only.
LEMMA OneConnection ==
    ASSUME IInv, NEW c \in Conn,
           NEW s \in Seq(Frame), NEW dict \in SUBSET Pair, NEW hooks \in Seq(Hook), NEW read,
           Kept(s, dict), hooks # <<>> => s = <<>>,
           read # NoWrites => hooks # <<>> /\ Head(hooks) = Flush,
           stack' = [stack EXCEPT ![c] = s],
           pending' = [pending EXCEPT ![c] = dict],
           running' = [running EXCEPT ![c] = hooks],
           seen' = [seen EXCEPT ![c] = read],
           costs' \in Nat
    PROVE  IInv'
<1>1. Types'
    BY DEF IInv, Types
<1>2. Outside'
    BY DEF IInv, Types, Outside
<1>4. Reading'
    BY DEF IInv, Types, Reading
<1>3. ASSUME NEW o \in Conn PROVE Kept(stack'[o], pending'[o])
    BY DEF IInv, Types
<1> QED
    BY <1>1, <1>2, <1>3, <1>4 DEF IInv

\* A step of a connection that has no transaction.
LEMMA OutsideTransaction ==
    ASSUME IInv, NEW c \in Conn, stack[c] = <<>>, stack' = stack,
           NEW dict \in SUBSET Pair, NEW hooks \in Seq(Hook), NEW read,
           read # NoWrites => hooks # <<>> /\ Head(hooks) = Flush,
           pending' = [pending EXCEPT ![c] = dict],
           running' = [running EXCEPT ![c] = hooks],
           seen' = [seen EXCEPT ![c] = read],
           costs' \in Nat
    PROVE  IInv'
<1>1. stack' = [stack EXCEPT ![c] = <<>>]
    BY DEF IInv, Types
<1>2. <<>> \in Seq(Frame) /\ Kept(<<>>, dict)
    BY EmptyKeeps
<1> QED
    BY <1>1, <1>2, OneConnection

LEMMA StepKeeps == IInv /\ [Next]_vars => IInv'
<1> SUFFICES ASSUME IInv, [Next]_vars PROVE IInv'
    OBVIOUS
<1>0. ASSUME NEW c \in Conn
      PROVE  /\ stack[c] \in Seq(Frame) /\ pending[c] \in SUBSET Pair
             /\ running[c] \in Seq(Hook) /\ Kept(stack[c], pending[c])
             /\ running[c] # <<>> => stack[c] = <<>>
             /\ seen[c] # NoWrites => running[c] # <<>> /\ Head(running[c]) = Flush
             /\ seen = [seen EXCEPT ![c] = seen[c]]
             /\ stack = [stack EXCEPT ![c] = stack[c]]
             /\ pending = [pending EXCEPT ![c] = pending[c]]
             /\ running = [running EXCEPT ![c] = running[c]]
             /\ costs \in Nat /\ costs + 1 \in Nat
    BY DEF IInv, Types, Outside, Reading
<1>1. ASSUME NEW c \in Conn, NEW pair \in Pair, Save(c, pair) PROVE IInv'
    <2> DEFINE s == stack[c]
               t == [s EXCEPT ![Len(s)] =
                        [writes |-> [@.writes EXCEPT ![pair] = costs + 1],
                         hooks  |-> IF AlreadyScheduled(c) THEN @.hooks ELSE Append(@.hooks, Flush)]]
    <2>1. s # <<>> /\ stack' = [stack EXCEPT ![c] = t]
        BY <1>0, <1>1 DEF Save, InTransaction, Depth, IInv, Types
    <2>2. AlreadyScheduled(c) \in BOOLEAN
        BY DEF AlreadyScheduled, Scheduled
    <2>3. AlreadyScheduled(c) <=> \E d \in DOMAIN s : Registered(s[d].hooks, Flush)
        BY DEF AlreadyScheduled, Scheduled
    <2>4. t \in Seq(Frame) /\ Kept(t, Collected(c, pair))
        BY <1>0, <2>1, <2>2, <2>3, SaveKeeps DEF Collected
    <2>5. /\ Collected(c, pair) \in SUBSET Pair
          /\ pending' = [pending EXCEPT ![c] = Collected(c, pair)]
          /\ running' = running /\ seen' = seen /\ running[c] = <<>> /\ costs' = costs + 1
        BY <1>0, <1>1 DEF Save, Collected
    <2> HIDE DEF t
    <2>8. /\ stack' = [stack EXCEPT ![c] = t]
          /\ pending' = [pending EXCEPT ![c] = Collected(c, pair)]
          /\ running' = [running EXCEPT ![c] = running[c]]
          /\ seen' = [seen EXCEPT ![c] = seen[c]]
          /\ costs' \in Nat
        BY <1>0, <2>1, <2>5
    <2>9. /\ running[c] \in Seq(Hook)
          /\ (running[c] # <<>> => t = <<>>)
          /\ (seen[c] # NoWrites => running[c] # <<>> /\ Head(running[c]) = Flush)
          /\ t \in Seq(Frame) /\ Collected(c, pair) \in SUBSET Pair /\ Kept(t, Collected(c, pair))
        BY <1>0, <2>4, <2>5
    <2> QED
        BY <2>8, <2>9, OneConnection
<1>2. ASSUME NEW c \in Conn, NEW pair \in Pair, SaveAutocommit(c, pair) PROVE IInv'
    <2>1. /\ stack[c] = <<>> /\ running[c] = <<>> /\ Collected(c, pair) \in SUBSET Pair
          /\ <<Flush>> \in Seq(Hook) /\ <<Flush>> # <<>> /\ Head(<<Flush>>) = Flush
        BY <1>0, <1>2, FlushIsHook DEF SaveAutocommit, Quiet, Collected
    <2>2. /\ stack' = stack /\ seen' = seen /\ costs' = costs + 1
          /\ pending' = [pending EXCEPT ![c] = Collected(c, pair)]
          /\ running' = [running EXCEPT ![c] = <<Flush>>]
        BY <1>2 DEF SaveAutocommit
    <2>3. seen' = [seen EXCEPT ![c] = seen[c]] /\ costs' \in Nat
        BY <1>0, <2>2
    <2> QED
        BY <2>1, <2>2, <2>3, OutsideTransaction
<1>3. ASSUME NEW c \in Conn, NEW pair \in Pair, Announce(c, pair) PROVE IInv'
    <2> DEFINE event == Event(pair, costs + 1)
               s == stack[c]
               t == [s EXCEPT ![Len(s)].hooks = Append(@, event)]
    <2>1. event \in Hook
        BY <1>0 DEF Event, Hook
    <2>2. pending' = pending /\ seen' = seen /\ running[c] = <<>> /\ costs' = costs + 1
        BY <1>3 DEF Announce
    <2>3. CASE InTransaction(c)
        <3>1. s # <<>> /\ running' = running /\ stack' = [stack EXCEPT ![c] = t]
            BY <1>0, <1>3, <2>3 DEF Announce, InTransaction, Depth, IInv, Types
        <3> HIDE DEF event
        <3>2. t \in Seq(Frame) /\ Kept(t, pending[c])
            BY <1>0, <2>1, <3>1, HookKeeps
        <3> HIDE DEF t
        <3>8. /\ stack' = [stack EXCEPT ![c] = t]
              /\ pending' = [pending EXCEPT ![c] = pending[c]]
              /\ running' = [running EXCEPT ![c] = running[c]]
              /\ seen' = [seen EXCEPT ![c] = seen[c]]
              /\ costs' \in Nat
            BY <1>0, <2>2, <3>1
        <3> QED
            BY <1>0, <2>2, <3>2, <3>8, OneConnection
    <2>4. CASE ~InTransaction(c)
        <3>1. s = <<>> /\ stack' = stack /\ running' = [running EXCEPT ![c] = <<event>>]
            BY <1>3, <2>4 DEF Announce, InTransaction
        <3>2. <<event>> \in Seq(Hook)
            BY <2>1
        <3> HIDE DEF event
        <3>3. <<event>> # <<>> /\ seen[c] = NoWrites
            BY <1>0, <2>2
        <3>8. /\ pending' = [pending EXCEPT ![c] = pending[c]] /\ pending[c] \in SUBSET Pair
              /\ seen' = [seen EXCEPT ![c] = NoWrites] /\ costs' \in Nat
            BY <1>0, <2>2, <3>3
        <3> QED
            BY <3>1, <3>2, <3>8, OutsideTransaction
    <2> QED
        BY <2>3, <2>4
<1>4. ASSUME NEW c \in Conn, FlushRead(c) PROVE IInv'
    <2>1. /\ running[c] # <<>> /\ Head(running[c]) = Flush
          /\ Tail(running[c]) \in Seq(Hook) /\ stack[c] = <<>>
        BY <1>0, <1>4 DEF FlushRead
    <2>2. PICK hooks, read :
              /\ hooks \in Seq(Hook)
              /\ running' = [running EXCEPT ![c] = hooks] /\ seen' = [seen EXCEPT ![c] = read]
              /\ read # NoWrites => hooks = running[c]
        BY <1>0, <1>4, <2>1 DEF FlushRead
    <2>3. stack' = stack /\ costs' = costs /\ pending' = [pending EXCEPT ![c] = {}]
        BY <1>4 DEF FlushRead
    <2>4. (read # NoWrites => hooks # <<>> /\ Head(hooks) = Flush) /\ costs' \in Nat
        BY <1>0, <2>1, <2>2, <2>3
    <2> QED
        BY <2>1, <2>2, <2>3, <2>4, OutsideTransaction
<1>5. ASSUME NEW c \in Conn, FlushWrite(c) \/ FlushFail(c) PROVE IInv'
    <2>1. running[c] # <<>> /\ Tail(running[c]) \in Seq(Hook) /\ stack[c] = <<>>
        BY <1>0, <1>5 DEF FlushWrite, FlushFail
    <2>2. PICK hooks \in Seq(Hook) : running' = [running EXCEPT ![c] = hooks]
        <3>1. CASE FlushWrite(c)
            BY <2>1, <3>1 DEF FlushWrite
        <3>2. CASE FlushFail(c)
            <4>1. <<>> \in Seq(Hook)
                OBVIOUS
            <4> QED
                BY <3>2, <4>1 DEF FlushFail
        <3> QED
            BY <1>5, <3>1, <3>2
    <2>3. UNCHANGED <<stack, pending, costs>> /\ seen' = [seen EXCEPT ![c] = NoWrites]
        BY <1>5 DEF FlushWrite, FlushFail
    <2>4. /\ pending' = [pending EXCEPT ![c] = pending[c]] /\ pending[c] \in SUBSET Pair
          /\ stack' = stack /\ costs' \in Nat
        BY <1>0, <2>3
    <2> QED
        BY <2>1, <2>2, <2>3, <2>4, OutsideTransaction
<1>6. ASSUME NEW c \in Conn, Apply(c) PROVE IInv'
    <2>1. /\ running[c] # <<>> /\ stack[c] = <<>> /\ seen[c] = NoWrites
          /\ Tail(running[c]) \in Seq(Hook) /\ <<Flush>> \o Tail(running[c]) \in Seq(Hook)
        BY <1>0, <1>6, FlushIsHook DEF Apply
    <2>2. PICK hooks \in Seq(Hook) : running' = [running EXCEPT ![c] = hooks]
        BY <1>6, <2>1 DEF Apply
    <2>3. PICK dict \in SUBSET Pair : pending' = [pending EXCEPT ![c] = dict]
        <3>1. CASE pending' = pending
            BY <1>0, <3>1
        <3>2. CASE pending' # pending
            <4>1. /\ pending' = [pending EXCEPT ![c] = Collected(c, Head(running[c]).pair)]
                  /\ Head(running[c]).pair \in Primary
                BY <1>6, <3>2 DEF Apply
            <4>2. Collected(c, Head(running[c]).pair) \in SUBSET Pair
                BY <1>0, <4>1, CostAssumption DEF Collected
            <4> QED
                BY <4>1, <4>2
        <3> QED
            BY <3>1, <3>2
    <2>4. UNCHANGED <<stack, seen, costs>>
        BY <1>6 DEF Apply
    <2>5. seen' = [seen EXCEPT ![c] = NoWrites] /\ stack' = stack /\ costs' \in Nat
        BY <1>0, <2>1, <2>4
    <2> QED
        BY <2>1, <2>2, <2>3, <2>5, OutsideTransaction
<1>7. ASSUME NEW c \in Conn, Begin(c) PROVE IInv'
    <2>1. stack[c] = <<>> /\ running[c] = <<>>
        BY <1>7 DEF Begin, Quiet
    <2>2. <<NewFrame>> \in Seq(Frame) /\ Kept(<<NewFrame>>, pending[c])
        <3>1. Append(<<>>, NewFrame) = <<NewFrame>>
            OBVIOUS
        <3>2. /\ Append(<<>>, NewFrame) \in Seq(Frame)
              /\ Kept(Append(<<>>, NewFrame), pending[c])
            BY EmptyKeeps, PushKeeps
        <3> QED
            BY <3>1, <3>2
    <2>8. /\ stack' = [stack EXCEPT ![c] = <<NewFrame>>]
          /\ pending' = [pending EXCEPT ![c] = pending[c]]
          /\ running' = [running EXCEPT ![c] = running[c]]
          /\ seen' = [seen EXCEPT ![c] = seen[c]]
          /\ costs' \in Nat
        BY <1>0, <1>7 DEF Begin
    <2> QED
        BY <1>0, <2>1, <2>2, <2>8, OneConnection
<1>8. ASSUME NEW c \in Conn, Savepoint(c) PROVE IInv'
    <2>1. Append(stack[c], NewFrame) \in Seq(Frame) /\ Kept(Append(stack[c], NewFrame), pending[c])
        BY <1>0, PushKeeps
    <2>2. running[c] = <<>>
        BY <1>0, <1>8 DEF Savepoint, InTransaction
    <2>8. /\ stack' = [stack EXCEPT ![c] = Append(stack[c], NewFrame)]
          /\ pending' = [pending EXCEPT ![c] = pending[c]]
          /\ running' = [running EXCEPT ![c] = running[c]]
          /\ seen' = [seen EXCEPT ![c] = seen[c]]
          /\ costs' \in Nat
        BY <1>0, <1>8 DEF Savepoint
    <2> QED
        BY <1>0, <2>1, <2>2, <2>8, OneConnection
<1>9. ASSUME NEW c \in Conn, Release(c) PROVE IInv'
    <2>1. PICK n \in Nat \ {0} : Len(stack[c]) = n + 1
        <3>1. Len(stack[c]) \in Nat /\ Len(stack[c]) > 1
            BY <1>0, <1>9 DEF Release, Depth
        <3>2. \A len \in Nat : len > 1 => len - 1 \in Nat \ {0} /\ len = (len - 1) + 1
            OBVIOUS
        <3> QED
            BY <3>1, <3>2
    <2>2. Joined(stack[c]) \in Seq(Frame) /\ Kept(Joined(stack[c]), pending[c])
        BY <1>0, <2>1, JoinKeeps
    <2>3. running[c] = <<>>
        BY <1>0, <2>1
    <2>4. stack' = [stack EXCEPT ![c] = Joined(stack[c])] /\ UNCHANGED <<pending, running, seen, costs>>
        BY <1>9 DEF Release, Joined
    <2>8. /\ stack' = [stack EXCEPT ![c] = Joined(stack[c])]
          /\ pending' = [pending EXCEPT ![c] = pending[c]]
          /\ running' = [running EXCEPT ![c] = running[c]]
          /\ seen' = [seen EXCEPT ![c] = seen[c]]
          /\ costs' \in Nat
        BY <1>0, <2>4
    <2> QED
        BY <1>0, <2>2, <2>3, <2>8, OneConnection
<1>10. ASSUME NEW c \in Conn, RollbackSavepoint(c) PROVE IInv'
    <2>1. stack[c] # <<>>
        BY <1>0, <1>10 DEF RollbackSavepoint, Depth
    <2>2. Front(stack[c]) \in Seq(Frame) /\ Kept(Front(stack[c]), pending[c])
        BY <1>0, <2>1, PopKeeps
    <2>3. running[c] = <<>>
        BY <1>0, <2>1
    <2>8. /\ stack' = [stack EXCEPT ![c] = Front(stack[c])]
          /\ pending' = [pending EXCEPT ![c] = pending[c]]
          /\ running' = [running EXCEPT ![c] = running[c]]
          /\ seen' = [seen EXCEPT ![c] = seen[c]]
          /\ costs' \in Nat
        BY <1>0, <1>10 DEF RollbackSavepoint
    <2> QED
        BY <1>0, <2>2, <2>3, <2>8, OneConnection
<1>11. ASSUME NEW c \in Conn, Rollback(c) PROVE IInv'
    <2>1. running[c] = <<>>
        BY <1>0, <1>11 DEF Rollback, InTransaction
    <2>8. /\ stack' = [stack EXCEPT ![c] = <<>>]
          /\ pending' = [pending EXCEPT ![c] = pending[c]]
          /\ running' = [running EXCEPT ![c] = running[c]]
          /\ seen' = [seen EXCEPT ![c] = seen[c]]
          /\ costs' \in Nat
        BY <1>0, <1>11 DEF Rollback
    <2> QED
        BY <1>0, <2>1, <2>8, EmptyKeeps, OneConnection
<1>12. ASSUME NEW c \in Conn, Commit(c) PROVE IInv'
    <2>1. stack[c][1].hooks \in Seq(Hook)
        <3>1. 1 \in DOMAIN stack[c] /\ stack[c][1] \in Frame
            BY <1>0, <1>12 DEF Commit, Depth
        <3> QED
            BY <3>1 DEF Frame
    <2>2. running[c] = <<>> /\ seen[c] = NoWrites
        BY <1>0, <1>12 DEF Commit, Depth
    <2> DEFINE hooks == stack[c][1].hooks
    <2>8. /\ stack' = [stack EXCEPT ![c] = <<>>]
          /\ pending' = [pending EXCEPT ![c] = pending[c]]
          /\ running' = [running EXCEPT ![c] = hooks]
          /\ seen' = [seen EXCEPT ![c] = seen[c]]
          /\ costs' \in Nat
        BY <1>0, <1>12 DEF Commit
    <2> QED
        BY <1>0, <2>1, <2>2, <2>8, EmptyKeeps, OneConnection
<1>13. CASE UNCHANGED vars
    BY <1>13 DEF vars, IInv, Types, Outside, Reading
<1> QED
    BY <1>1, <1>2, <1>3, <1>4, <1>5, <1>6, <1>7, <1>8, <1>9, <1>10, <1>11, <1>12, <1>13 DEF Next

\* on_purchase_cost_saved (signals/baseline.py:60-72): a cost that may still be
\* committed has its pair in the dictionary and a flush registered that goes only
\* when the cost goes, however deep the savepoints and in whatever order they end.
THEOREM NoCostIsStarved == Spec => []NothingStarved
<1>1. IInv => NothingStarved
    BY DEF IInv, Kept, NothingStarved
<1> QED
    BY <1>1, InitIsInductive, StepKeeps, PTL DEF Spec

-----------------------------------------------------------------------------
(* Types *)

\* Any set of natural numbers has a least one, a bounded one a greatest one.
LEMMA HasLeast ==
    ASSUME NEW S \in SUBSET Nat, S # {}
    PROVE  \E m \in S : \A k \in S : m <= k
<1>1. PICK m \in S : \A k \in S : ~(<<k, m>> \in OpToRel(<, Nat))
    BY NatLessThanWellFounded, WFMin
<1>2. \A k \in S : ~(k < m)
    BY <1>1 DEF OpToRel
<1> QED
    BY <1>2

LEMMA HasGreatest ==
    ASSUME NEW n \in Nat, NEW S \in SUBSET (1..n), S # {}
    PROVE  \E m \in S : \A k \in S : k <= m
<1> DEFINE rest == {i \in Nat : \E k \in S : i + k = n}
<1>1. ASSUME NEW k \in S PROVE k \in Nat /\ n - k \in rest
    <2>1. k \in Nat /\ k <= n
        OBVIOUS
    <2> QED
        BY <2>1
<1>2. rest \in SUBSET Nat /\ rest # {}
    BY <1>1
<1>3. PICK t \in rest : \A i \in rest : t <= i
    BY <1>2, HasLeast
<1>4. PICK m \in S : t + m = n
    OBVIOUS
<1>5. ASSUME NEW k \in S PROVE k <= m
    <2>1. k \in Nat /\ m \in Nat /\ n - k \in Nat /\ t <= n - k /\ t \in Nat
        BY <1>1, <1>3
    <2> QED
        BY <2>1, <1>4
<1> QED
    BY <1>5

\* The hook that announces the last cost of a pair.
LastOf(hooks, pair, i) ==
    /\ i \in DOMAIN hooks /\ hooks[i].pair = pair
    /\ \A k \in DOMAIN hooks : hooks[k].pair = pair => k <= i

LEMMA AnnouncedByLast ==
    ASSUME NEW hooks \in Seq(Hook), NEW pair \in Pair
    PROVE  /\ \A i : LastOf(hooks, pair, i) => Announced(hooks, pair) = hooks[i].value
           /\ (\A i : ~LastOf(hooks, pair, i)) =>
                /\ Announced(hooks, pair) = Null
                /\ \A i \in DOMAIN hooks : hooks[i].pair # pair
<1> DEFINE its == {i \in DOMAIN hooks : hooks[i].pair = pair}
<1>1. Len(hooks) \in Nat /\ its \in SUBSET (1..Len(hooks))
    OBVIOUS
<1>2. ASSUME NEW i, LastOf(hooks, pair, i) PROVE Announced(hooks, pair) = hooks[i].value
    <2>1. i \in its /\ \A k \in its : k <= i
        BY <1>2 DEF LastOf
    <2> DEFINE last == CHOOSE m \in its : \A k \in its : k <= m
    <2>2. last \in its /\ \A k \in its : k <= last
        BY <2>1
    <2> HIDE DEF last
    <2>3. last = i
        BY <1>1, <2>1, <2>2
    <2>4. its # {} /\ hooks[last].value = hooks[i].value
        BY <2>1, <2>3
    <2> QED
        BY <2>4 DEF Announced, last
<1>3. ASSUME its # {} PROVE \E i : LastOf(hooks, pair, i)
    <2>1. PICK i \in its : \A k \in its : k <= i
        BY <1>1, <1>3, HasGreatest
    <2> QED
        BY <2>1 DEF LastOf
<1>4. its = {} => Announced(hooks, pair) = Null /\ \A i \in DOMAIN hooks : hooks[i].pair # pair
    BY DEF Announced
<1> QED
    BY <1>2, <1>3, <1>4

LEMMA HookTypes ==
    /\ \A h \in Hook, pair \in Pair : h.pair = pair => h.value \in Nat
    /\ Flush.pair = Null /\ Null \notin Pair /\ Null \notin Nat
    /\ \A h \in Hook : h # Flush => h.pair \in Pair /\ h.value \in Nat /\ h = Event(h.pair, h.value)
    BY CostAssumption DEF Hook, Flush, Event

LEMMA AnnouncedType ==
    ASSUME NEW hooks \in Seq(Hook), NEW pair \in Pair
    PROVE  Announced(hooks, pair) \in Nat \cup {Null}
<1>1. CASE \E i : LastOf(hooks, pair, i)
    <2>1. PICK i : LastOf(hooks, pair, i)
        BY <1>1
    <2>2. hooks[i] \in Hook /\ hooks[i].pair = pair
        BY <2>1 DEF LastOf
    <2> QED
        BY <2>1, <2>2, AnnouncedByLast, HookTypes
<1>2. CASE ~\E i : LastOf(hooks, pair, i)
    BY <1>2, AnnouncedByLast
<1> QED
    BY <1>1, <1>2

Costs == [Pair -> Nat \cup {Null}]
Stored ==
    /\ cost \in Costs /\ price \in Costs /\ offered \in Costs
    /\ seen \in [Conn -> Costs]

LEMMA StoredInit == Init => Stored
    BY DEF Init, Stored, Costs, NoWrites

LEMMA StoredStep == ASSUME IInv, Stored, [Next]_vars PROVE Stored'
<1> USE DEF IInv, Stored
<1>0. costs \in Nat /\ costs + 1 \in Nat /\ NoWrites \in Costs
    BY DEF Types, NoWrites, Costs
<1>1. ASSUME NEW c \in Conn, NEW pair \in Pair, Save(c, pair) \/ SaveAutocommit(c, pair) \/ Announce(c, pair)
      PROVE  Stored'
    <2>1. CASE Save(c, pair)
        BY <2>1 DEF Save
    <2>2. CASE SaveAutocommit(c, pair)
        BY <1>0, <2>2 DEF SaveAutocommit, Costs
    <2>3. CASE Announce(c, pair)
        BY <1>0, <2>3 DEF Announce, Costs
    <2> QED
        BY <1>1, <2>1, <2>2, <2>3
<1>2. ASSUME NEW c \in Conn, FlushRead(c) PROVE Stored'
    <2> DEFINE read == [pair \in Pair |-> IF pair \in pending[c] THEN cost[pair] ELSE Null]
    <2>1. read \in Costs
        BY DEF Costs
    <2> QED
        BY <1>2, <2>1 DEF FlushRead
<1>3. ASSUME NEW c \in Conn, FlushWrite(c) \/ FlushFail(c) PROVE Stored'
    <2>1. Over(price, seen[c]) \in Costs
        BY DEF Over, Costs
    <2> QED
        BY <1>0, <1>3, <2>1 DEF FlushWrite, FlushFail
<1>4. ASSUME NEW c \in Conn, Apply(c) PROVE Stored'
    <2> DEFINE event == Head(running[c])
    <2>1. event \in Hook /\ event # Flush
        BY <1>4 DEF Apply, Types
    <2>2. event.value \in Nat
        BY <2>1, HookTypes
    <2>3. cost' = cost \/ cost' = [cost EXCEPT ![event.pair] = event.value]
        BY <1>4 DEF Apply
    <2> QED
        BY <1>4, <2>2, <2>3 DEF Apply, Costs
<1>5. ASSUME NEW c \in Conn,
             Begin(c) \/ Savepoint(c) \/ Release(c) \/ RollbackSavepoint(c) \/ Rollback(c)
      PROVE  Stored'
    BY <1>5 DEF Begin, Savepoint, Release, RollbackSavepoint, Rollback
<1>6. ASSUME NEW c \in Conn, Commit(c) PROVE Stored'
    <2> DEFINE all == stack[c][1]
               last == [pair \in Pair |-> Announced(all.hooks, pair)]
    <2>1. all \in Frame
        <3>1. stack[c] \in Seq(Frame) /\ 1 \in DOMAIN stack[c]
            BY <1>6 DEF Commit, Depth, Types
        <3> QED
            BY <3>1
    <2>2. last \in Costs
        BY <2>1, AnnouncedType DEF Frame, Costs
    <2>3. Over(cost, all.writes) \in Costs /\ Over(offered, last) \in Costs
        BY <2>1, <2>2 DEF Over, Costs, Frame
    <2> QED
        BY <1>6, <2>3 DEF Commit
<1>7. CASE UNCHANGED vars
    BY <1>7 DEF vars
<1> QED
    BY <1>1, <1>2, <1>3, <1>4, <1>5, <1>6, <1>7 DEF Next

\* A transaction has registered one flush at most.
OneFlush(frames) ==
    \A d, e \in DOMAIN frames : \A i \in DOMAIN frames[d].hooks, k \in DOMAIN frames[e].hooks :
        frames[d].hooks[i] = Flush /\ frames[e].hooks[k] = Flush => d = e /\ i = k

LEMMA PushOne ==
    ASSUME NEW s \in Seq(Frame), OneFlush(s)
    PROVE  OneFlush(Append(s, NewFrame))
<1>1. /\ DOMAIN Append(s, NewFrame) = 1 .. Len(s) + 1
      /\ Append(s, NewFrame)[Len(s) + 1] = NewFrame
      /\ \A d \in 1 .. Len(s) : Append(s, NewFrame)[d] = s[d]
    BY FrameTypes
<1>2. DOMAIN NewFrame.hooks = {}
    BY DEF NewFrame
<1>3. DOMAIN s = 1 .. Len(s) /\ Len(s) \in Nat
    OBVIOUS
<1> QED
    BY <1>1, <1>2, <1>3 DEF OneFlush

LEMMA PopOne ==
    ASSUME NEW s \in Seq(Frame), s # <<>>, OneFlush(s)
    PROVE  OneFlush(Front(s))
<1>1. DOMAIN Front(s) = 1 .. Len(s) - 1
    BY DEF Front
<1>2. \A d \in DOMAIN Front(s) : d \in DOMAIN s /\ Front(s)[d] = s[d]
    <2>1. DOMAIN s = 1 .. Len(s) /\ Len(s) \in Nat
        OBVIOUS
    <2>2. \A d \in 1 .. Len(s) - 1 : Front(s)[d] = s[d]
        BY FrontOfSeq
    <2> QED
        BY <1>1, <2>1, <2>2
<1> QED
    BY <1>2 DEF OneFlush

\* Every hook of the frames after a release was in a place of its own before.
LEMMA JoinPlaces ==
    ASSUME NEW s \in Seq(Frame), NEW n \in Nat \ {0}, Len(s) = n + 1,
           NEW d \in DOMAIN Joined(s), NEW i \in DOMAIN Joined(s)[d].hooks
    PROVE  /\ d \in 1 .. n /\ n \in DOMAIN s /\ n + 1 \in DOMAIN s /\ d \in DOMAIN s
           /\ Len(s[n].hooks) \in Nat /\ i \in Nat
           /\ \/ i \in DOMAIN s[d].hooks /\ Joined(s)[d].hooks[i] = s[d].hooks[i]
              \/ /\ d = n /\ i > Len(s[n].hooks)
                 /\ i - Len(s[n].hooks) \in DOMAIN s[n + 1].hooks
                 /\ Joined(s)[d].hooks[i] = s[n + 1].hooks[i - Len(s[n].hooks)]
<1>1. n \in 1 .. n /\ n \in DOMAIN s /\ n + 1 \in DOMAIN s /\ s[n] \in Frame /\ s[n + 1] \in Frame
    OBVIOUS
<1>3. /\ DOMAIN Joined(s) = 1 .. n
      /\ Joined(s)[n].hooks = s[n].hooks \o s[n + 1].hooks
      /\ \A e \in 1 .. n - 1 : Joined(s)[e] = s[e]
    <2> DEFINE w == Over(s[n].writes, s[n + 1].writes)
               h == s[n].hooks \o s[n + 1].hooks
    <2>1. /\ DOMAIN Joined(s) = 1 .. n
          /\ Joined(s)[n] = [writes |-> w, hooks |-> h]
          /\ \A e \in 1 .. n - 1 : Joined(s)[e] = s[e]
        BY JoinedFrames
    <2> HIDE DEF w, h
    <2>2. Joined(s)[n].hooks = h
        BY <2>1
    <2> QED
        BY <2>1, <2>2 DEF h
<1>4. CASE d = n
    <2>1. s[n].hooks \in Seq(Hook) /\ s[n + 1].hooks \in Seq(Hook)
        BY <1>1 DEF Frame
    <2>2. i \in DOMAIN (s[n].hooks \o s[n + 1].hooks)
          /\ Joined(s)[d].hooks[i] = (s[n].hooks \o s[n + 1].hooks)[i]
        BY <1>3, <1>4
    <2>3. \A a, b \in Seq(Hook) : \A j \in DOMAIN (a \o b) :
            /\ Len(a) \in Nat /\ j \in Nat
            /\ \/ j \in DOMAIN a /\ (a \o b)[j] = a[j]
               \/ j > Len(a) /\ j - Len(a) \in DOMAIN b /\ (a \o b)[j] = b[j - Len(a)]
        OBVIOUS
    <2>4. d \in 1 .. n /\ d \in DOMAIN s
        BY <1>1, <1>4
    <2> QED
        BY <1>1, <1>4, <2>1, <2>2, <2>3, <2>4
<1>5. CASE d # n
    <2>1. d \in 1 .. n - 1 /\ d \in DOMAIN s
        BY <1>1, <1>3, <1>5
    <2>2. s[n].hooks \in Seq(Hook) /\ s[d].hooks \in Seq(Hook)
        <3>1. s[d] \in Frame
            BY <2>1
        <3> QED
            BY <1>1, <3>1 DEF Frame
    <2>3. Joined(s)[d] = s[d]
        BY <1>3, <2>1
    <2> QED
        BY <1>1, <1>3, <2>1, <2>2, <2>3
<1> QED
    BY <1>4, <1>5

LEMMA JoinOne ==
    ASSUME NEW s \in Seq(Frame), NEW n \in Nat \ {0}, Len(s) = n + 1, OneFlush(s)
    PROVE  OneFlush(Joined(s))
<1> SUFFICES ASSUME NEW d \in DOMAIN Joined(s), NEW e \in DOMAIN Joined(s),
                    NEW i \in DOMAIN Joined(s)[d].hooks, NEW k \in DOMAIN Joined(s)[e].hooks,
                    Joined(s)[d].hooks[i] = Flush, Joined(s)[e].hooks[k] = Flush
             PROVE  d = e /\ i = k
    BY DEF OneFlush
<1> DEFINE len == Len(s[n].hooks)
           Lower(f, j) == j \in DOMAIN s[f].hooks /\ s[f].hooks[j] = Flush
           Upper(f, j) ==
               f = n /\ j > len /\ j - len \in DOMAIN s[n + 1].hooks /\ s[n + 1].hooks[j - len] = Flush
<1>1. /\ d \in 1 .. n /\ n + 1 \in DOMAIN s /\ d \in DOMAIN s /\ len \in Nat /\ i \in Nat
      /\ Lower(d, i) \/ Upper(d, i)
    BY JoinPlaces
<1>2. /\ e \in 1 .. n /\ e \in DOMAIN s /\ k \in Nat
      /\ Lower(e, k) \/ Upper(e, k)
    BY JoinPlaces
<1>3. CASE Lower(d, i) /\ Lower(e, k)
    BY <1>1, <1>2, <1>3 DEF OneFlush
<1>4. CASE Upper(d, i) /\ Upper(e, k)
    <2>1. i - len = k - len
        BY <1>1, <1>4 DEF OneFlush
    <2> QED
        BY <1>1, <1>2, <1>4, <2>1
<1>5. CASE Upper(d, i) /\ Lower(e, k)
    <2>1. n + 1 = e
        BY <1>1, <1>2, <1>5 DEF OneFlush
    <2> QED
        BY <1>2, <2>1
<1>6. CASE Lower(d, i) /\ Upper(e, k)
    <2>1. d = n + 1
        BY <1>1, <1>2, <1>6 DEF OneFlush
    <2> QED
        BY <1>1, <2>1
<1> QED
    BY <1>1, <1>2, <1>3, <1>4, <1>5, <1>6

LEMMA AppendOne ==
    ASSUME NEW s \in Seq(Frame), s # <<>>, OneFlush(s), NEW hook \in Hook,
           hook = Flush => \A d \in DOMAIN s : ~Registered(s[d].hooks, Flush),
           NEW t, DOMAIN t = DOMAIN s,
           \A d \in DOMAIN s : d # Len(s) => t[d].hooks = s[d].hooks,
           t[Len(s)].hooks = Append(s[Len(s)].hooks, hook)
    PROVE  OneFlush(t)
<1> DEFINE top == s[Len(s)].hooks
<1>1. Len(s) \in DOMAIN s /\ top \in Seq(Hook)
    <2>1. Len(s) \in DOMAIN s /\ s[Len(s)] \in Frame
        OBVIOUS
    <2> QED
        BY <2>1 DEF Frame
<1>2. /\ DOMAIN Append(top, hook) = 1 .. Len(top) + 1 /\ DOMAIN top = 1 .. Len(top) /\ Len(top) \in Nat
      /\ Append(top, hook)[Len(top) + 1] = hook
      /\ \A i \in 1 .. Len(top) : Append(top, hook)[i] = top[i]
    BY <1>1
<1> DEFINE New(d, i) == d = Len(s) /\ i = Len(top) + 1 /\ hook = Flush
           Old(d, i) == i \in DOMAIN s[d].hooks /\ s[d].hooks[i] = Flush
<1>3. ASSUME NEW d \in DOMAIN t, NEW i \in DOMAIN t[d].hooks, t[d].hooks[i] = Flush
      PROVE  Old(d, i) \/ New(d, i)
    <2>1. CASE d = Len(s)
        <3>1. t[d].hooks = Append(top, hook)
            BY <2>1
        <3>2. i \in 1 .. Len(top) + 1
            BY <1>2, <1>3, <3>1
        <3>3. CASE i = Len(top) + 1
            BY <1>2, <1>3, <2>1, <3>1, <3>3
        <3>4. CASE i # Len(top) + 1
            <4>1. i \in 1 .. Len(top)
                BY <1>2, <3>2, <3>4
            <4>2. top[i] = Flush /\ i \in DOMAIN top
                BY <1>2, <1>3, <3>1, <4>1
            <4> QED
                BY <2>1, <4>2
        <3> QED
            BY <3>3, <3>4
    <2>2. CASE d # Len(s)
        BY <1>3, <2>2
    <2> QED
        BY <2>1, <2>2
<1>4. ASSUME NEW d \in DOMAIN t, NEW i, NEW e \in DOMAIN t, NEW k, Old(d, i), New(e, k) PROVE FALSE
    BY <1>4 DEF Registered
<1>5. ASSUME NEW d \in DOMAIN t, NEW i, NEW e \in DOMAIN t, NEW k, Old(d, i), Old(e, k)
      PROVE  d = e /\ i = k
    BY <1>5 DEF OneFlush
<1>6. ASSUME NEW d, NEW i, NEW e, NEW k, New(d, i), New(e, k) PROVE d = e /\ i = k
    BY <1>6
<1> HIDE DEF Old, New
<1> QED
    BY <1>3, <1>4, <1>5, <1>6 DEF OneFlush

LEMMA SameOne ==
    ASSUME NEW s, NEW t, OneFlush(s), DOMAIN t = DOMAIN s, \A d \in DOMAIN s : t[d].hooks = s[d].hooks
    PROVE  OneFlush(t)
    BY DEF OneFlush

Single == \A c \in Conn : OneFlush(stack[c])

LEMMA SingleInit == Init => Single
    BY DEF Init, Single, OneFlush

LEMMA SingleStep == ASSUME IInv, Single, [Next]_vars PROVE Single'
<1> USE DEF IInv
<1>0. ASSUME NEW c \in Conn
      PROVE  stack[c] \in Seq(Frame) /\ OneFlush(stack[c])
    BY DEF Types, Single
<1>1. ASSUME NEW c \in Conn, NEW s, OneFlush(s), stack' = [stack EXCEPT ![c] = s] PROVE Single'
    BY <1>1 DEF Types, Single
<1>2. ASSUME stack' = stack PROVE Single'
    BY <1>2 DEF Single
<1>3. OneFlush(<<>>)
    BY DEF OneFlush
<1>4. ASSUME NEW c \in Conn, NEW pair \in Pair, Save(c, pair) PROVE Single'
    <2> DEFINE s == stack[c]
               t == stack'[c]
    <2>1. s \in Seq(Frame) /\ s # <<>> /\ Len(s) \in DOMAIN s /\ OneFlush(s)
        BY <1>0, <1>4 DEF Save, InTransaction
    <2>2. /\ DOMAIN t = DOMAIN s
          /\ \A d \in DOMAIN s : d # Len(s) => t[d] = s[d]
          /\ t[Len(s)].hooks = IF AlreadyScheduled(c) THEN s[Len(s)].hooks ELSE Append(s[Len(s)].hooks, Flush)
        BY <1>4, <2>1 DEF Save, Types, Depth
    <2>3. stack' = [stack EXCEPT ![c] = t]
        BY <1>4 DEF Save, Types
    <2> HIDE DEF t
    <2>4. OneFlush(t)
        <3>1. CASE AlreadyScheduled(c)
            BY <2>1, <2>2, <3>1, SameOne
        <3>2. CASE ~AlreadyScheduled(c)
            <4>1. \A d \in DOMAIN s : ~Registered(s[d].hooks, Flush)
                BY <3>2 DEF AlreadyScheduled, Scheduled
            <4> QED
                BY <2>1, <2>2, <3>2, <4>1, AppendOne, FlushIsHook
        <3> QED
            BY <3>1, <3>2
    <2> QED
        BY <1>1, <2>3, <2>4
<1>5. ASSUME NEW c \in Conn, NEW pair \in Pair, Announce(c, pair) PROVE Single'
    <2> DEFINE s == stack[c]
               t == stack'[c]
               event == Event(pair, costs + 1)
    <2>1. CASE ~InTransaction(c)
        BY <1>2, <1>5, <2>1 DEF Announce
    <2>2. CASE InTransaction(c)
        <3>1. s \in Seq(Frame) /\ s # <<>> /\ Len(s) \in DOMAIN s /\ OneFlush(s)
            BY <1>0, <2>2 DEF InTransaction
        <3>2. /\ DOMAIN t = DOMAIN s
              /\ \A d \in DOMAIN s : d # Len(s) => t[d] = s[d]
              /\ t[Len(s)].hooks = Append(s[Len(s)].hooks, event)
            <4> DEFINE u == [s EXCEPT ![Len(s)].hooks = Append(@, event)]
            <4>1. stack' = [stack EXCEPT ![c] = u]
                BY <1>0, <1>5, <2>2 DEF Announce, InTransaction, Depth, Types
            <4>2. t = u
                BY <4>1 DEF Types
            <4>3. s[Len(s)] \in Frame
                BY <3>1
            <4> HIDE DEF t, event
            <4>4. /\ DOMAIN u = DOMAIN s
                  /\ \A d \in DOMAIN s : d # Len(s) => u[d] = s[d]
                  /\ u[Len(s)].hooks = Append(s[Len(s)].hooks, event)
                BY <3>1, <4>3 DEF Frame
            <4> HIDE DEF u
            <4> QED
                BY <4>2, <4>4
        <3>3. event \in Hook /\ event # Flush
            BY CostAssumption DEF Types, Hook, Event, Flush
        <3>4. stack' = [stack EXCEPT ![c] = t]
            BY <1>5, <2>2 DEF Announce, Types
        <3> HIDE DEF t, event
        <3>5. OneFlush(t)
            BY <3>1, <3>2, <3>3, AppendOne
        <3> QED
            BY <1>1, <3>4, <3>5
    <2> QED
        BY <2>1, <2>2
<1>6. ASSUME NEW c \in Conn, NEW pair \in Pair, SaveAutocommit(c, pair) PROVE Single'
    BY <1>2, <1>6 DEF SaveAutocommit
<1>7. ASSUME NEW c \in Conn, FlushRead(c) \/ FlushWrite(c) \/ FlushFail(c) \/ Apply(c) PROVE Single'
    <2>1. stack' = stack
        BY <1>7 DEF FlushRead, FlushWrite, FlushFail, Apply
    <2> QED
        BY <1>2, <2>1
<1>8. ASSUME NEW c \in Conn, Begin(c) \/ Savepoint(c) PROVE Single'
    <2>1. stack' = [stack EXCEPT ![c] = Append(stack[c], NewFrame)]
        <3>1. <<NewFrame>> = Append(<<>>, NewFrame)
            OBVIOUS
        <3> QED
            BY <1>8, <3>1 DEF Begin, Savepoint, Quiet
    <2> QED
        BY <1>0, <1>1, <2>1, PushOne
<1>9. ASSUME NEW c \in Conn, Release(c) PROVE Single'
    <2>1. Len(stack[c]) \in Nat /\ Len(stack[c]) > 1
        BY <1>0, <1>9 DEF Release, Depth
    <2>2. Len(stack[c]) - 1 \in Nat \ {0} /\ Len(stack[c]) = (Len(stack[c]) - 1) + 1
        <3>1. \A len \in Nat : len > 1 => len - 1 \in Nat \ {0} /\ len = (len - 1) + 1
            OBVIOUS
        <3> QED
            BY <2>1, <3>1
    <2>3. OneFlush(Joined(stack[c]))
        BY <1>0, <2>2, JoinOne
    <2>4. stack' = [stack EXCEPT ![c] = Joined(stack[c])]
        BY <1>9 DEF Release, Joined
    <2> QED
        BY <1>1, <2>3, <2>4
<1>10. ASSUME NEW c \in Conn, RollbackSavepoint(c) PROVE Single'
    <2>1. stack[c] # <<>>
        BY <1>10 DEF RollbackSavepoint, Depth
    <2>2. stack' = [stack EXCEPT ![c] = Front(stack[c])]
        BY <1>10 DEF RollbackSavepoint
    <2> QED
        BY <1>0, <1>1, <2>1, <2>2, PopOne
<1>11. ASSUME NEW c \in Conn, Rollback(c) \/ Commit(c) PROVE Single'
    <2>1. stack' = [stack EXCEPT ![c] = <<>>]
        BY <1>11 DEF Rollback, Commit
    <2> QED
        BY <1>1, <1>3, <2>1
<1>12. CASE UNCHANGED vars
    BY <1>2, <1>12 DEF vars
<1> QED
    BY <1>4, <1>5, <1>6, <1>7, <1>8, <1>9, <1>10, <1>11, <1>12 DEF Next

\* Every state is well-formed: callbacks run outside transactions only, a
\* recalculation is that of the first callback, and a transaction has registered
\* one flush at most, however its savepoints were nested, released or rolled back.
THEOREM SignalTypes == Spec => []TypeOK
<1>1. IInv /\ Stored /\ Single => TypeOK
    BY DEF IInv, Types, Stored, Costs, Single, OneFlush, Outside, Reading, TypeOK
<1>2. IInv /\ Stored /\ Single /\ [Next]_vars => (IInv /\ Stored /\ Single)'
    BY StepKeeps, StoredStep, SingleStep
<1> QED
    BY <1>1, <1>2, InitIsInductive, StoredInit, SingleInit, PTL DEF Spec

-----------------------------------------------------------------------------
(* Committed and uncommitted costs *)

HeldIn(frames, pair, v) == \E d \in DOMAIN frames : frames[d].writes[pair] = v
HookedIn(frames, hook) == \E d \in DOMAIN frames : Registered(frames[d].hooks, hook)

\* Every cost that a price has or may come to have without another commit of costs.
Outright(pair, v) ==
    \/ cost[pair] = v \/ price[pair] = v
    \/ \E c \in Conn : seen[c][pair] = v \/ Registered(running[c], Event(pair, v))
Afloat(pair, v) == Outright(pair, v) \/ \E c \in Conn : HookedIn(stack[c], Event(pair, v))

\* A cost that is not committed is nowhere but in the frames of its connection.
Apart ==
    \A pair \in Pair, v \in Nat :
        /\ Afloat(pair, v) => v <= costs
        /\ \A c \in Conn : HeldIn(stack[c], pair, v) =>
              /\ v <= costs /\ ~Afloat(pair, v)
              /\ \A o \in Conn \ {c} : ~HeldIn(stack[o], pair, v)

LEMMA ApartInit == Init => Apart
    BY CostAssumption DEF Init, Apart, Afloat, Outright, HeldIn, HookedIn, Registered, NoWrites

\* What a step may do: write the next cost in a frame, offer it elsewhere, or commit.
LEMMA ApartByStep ==
    ASSUME Apart, costs \in Nat, costs' \in {costs, costs + 1}, NEW c \in Conn, NEW saves \in BOOLEAN,
           \A pair \in Pair, v \in Nat, o \in Conn :
                HeldIn(stack[o], pair, v)' =>
                    \/ HeldIn(stack[o], pair, v)
                    \/ saves /\ o = c /\ v = costs + 1 /\ costs' = costs + 1,
           \A pair \in Pair, v \in Nat :
                Afloat(pair, v)' =>
                    \/ Afloat(pair, v)
                    \/ ~saves /\ v = costs + 1 /\ costs' = costs + 1
                    \/ HeldIn(stack[c], pair, v) /\ ~HeldIn(stack[c], pair, v)'
    PROVE  Apart'
<1> SUFFICES ASSUME NEW pair \in Pair, NEW v \in Nat
             PROVE  /\ Afloat(pair, v)' => v <= costs'
                    /\ \A o \in Conn : HeldIn(stack[o], pair, v)' =>
                          /\ v <= costs' /\ ~Afloat(pair, v)'
                          /\ \A other \in Conn \ {o} : ~HeldIn(stack[other], pair, v)'
    BY DEF Apart
<1>1. /\ Afloat(pair, v) => v <= costs
      /\ \A o \in Conn : HeldIn(stack[o], pair, v) =>
            /\ v <= costs /\ ~Afloat(pair, v)
            /\ \A other \in Conn \ {o} : ~HeldIn(stack[other], pair, v)
    BY DEF Apart
<1>2. ~(costs + 1 <= costs) /\ (v <= costs => v <= costs') /\ (v = costs + 1 /\ costs' = costs + 1 => v <= costs')
    OBVIOUS
<1>3. Afloat(pair, v)' => v <= costs'
    BY <1>1, <1>2
<1>4. ASSUME NEW o \in Conn, HeldIn(stack[o], pair, v)'
      PROVE  /\ v <= costs' /\ ~Afloat(pair, v)'
             /\ \A other \in Conn \ {o} : ~HeldIn(stack[other], pair, v)'
    <2>1. CASE HeldIn(stack[o], pair, v)
        BY <1>1, <1>2, <1>4, <2>1
    <2>2. CASE ~HeldIn(stack[o], pair, v)
        <3>1. saves /\ o = c /\ v = costs + 1 /\ costs' = costs + 1
            BY <1>4, <2>2
        <3>2. ~Afloat(pair, v) /\ \A other \in Conn : ~HeldIn(stack[other], pair, v)
            BY <1>1, <1>2, <3>1
        <3> QED
            BY <1>2, <3>1, <3>2
    <2> QED
        BY <2>1, <2>2
<1> QED
    BY <1>3, <1>4

\* Nothing is in t that is not in s.
Within(t, s) ==
    /\ \A pair \in Pair, v \in Nat : HeldIn(t, pair, v) => HeldIn(s, pair, v)
    /\ \A hook : HookedIn(t, hook) => HookedIn(s, hook)

LEMMA PushWithin == ASSUME NEW s \in Seq(Frame) PROVE Within(Append(s, NewFrame), s)
<1>1. /\ DOMAIN Append(s, NewFrame) = 1 .. Len(s) + 1
      /\ Append(s, NewFrame)[Len(s) + 1] = NewFrame
      /\ \A d \in 1 .. Len(s) : Append(s, NewFrame)[d] = s[d]
    BY FrameTypes
<1>2. DOMAIN NewFrame.hooks = {} /\ \A pair \in Pair, v \in Nat : NewFrame.writes[pair] # v
    BY CostAssumption DEF NewFrame, NoWrites
<1>3. DOMAIN s = 1 .. Len(s) /\ Len(s) \in Nat
    OBVIOUS
<1>4. \A d \in DOMAIN Append(s, NewFrame) :
        \/ d \in DOMAIN s /\ Append(s, NewFrame)[d] = s[d]
        \/ Append(s, NewFrame)[d] = NewFrame
    BY <1>1, <1>3
<1> QED
    BY <1>2, <1>4 DEF Within, HeldIn, HookedIn, Registered

LEMMA PopWithin == ASSUME NEW s \in Seq(Frame), s # <<>> PROVE Within(Front(s), s)
<1>1. DOMAIN Front(s) = 1 .. Len(s) - 1
    BY DEF Front
<1>2. \A d \in DOMAIN Front(s) : d \in DOMAIN s /\ Front(s)[d] = s[d]
    <2>1. DOMAIN s = 1 .. Len(s) /\ Len(s) \in Nat
        OBVIOUS
    <2>2. \A d \in 1 .. Len(s) - 1 : Front(s)[d] = s[d]
        BY FrontOfSeq
    <2> QED
        BY <1>1, <2>1, <2>2
<1> QED
    BY <1>2 DEF Within, HeldIn, HookedIn

LEMMA JoinWithin ==
    ASSUME NEW s \in Seq(Frame), NEW n \in Nat \ {0}, Len(s) = n + 1
    PROVE  Within(Joined(s), s)
<1> DEFINE w == Over(s[n].writes, s[n + 1].writes)
           h == s[n].hooks \o s[n + 1].hooks
<1>1. /\ DOMAIN Joined(s) = 1 .. n
      /\ Joined(s)[n] = [writes |-> w, hooks |-> h]
      /\ \A e \in 1 .. n - 1 : Joined(s)[e] = s[e]
    BY JoinedFrames
<1>2. DOMAIN s = 1 .. n + 1 /\ n \in DOMAIN s /\ n + 1 \in DOMAIN s
    OBVIOUS
<1>3. ASSUME NEW pair \in Pair, NEW v \in Nat, HeldIn(Joined(s), pair, v)
      PROVE  HeldIn(s, pair, v)
    <2>1. PICK d \in 1 .. n : Joined(s)[d].writes[pair] = v
        BY <1>1, <1>3 DEF HeldIn
    <2>2. CASE d # n
        <3>1. d \in 1 .. n - 1 /\ d \in DOMAIN s
            BY <1>2, <2>2
        <3> QED
            BY <1>1, <2>1, <3>1 DEF HeldIn
    <2>3. CASE d = n
        <3> HIDE DEF w, h
        <3>1. w[pair] = v
            BY <1>1, <2>1, <2>3
        <3>2. s[n].writes[pair] = v \/ s[n + 1].writes[pair] = v
            BY <3>1 DEF w, Over
        <3> QED
            BY <1>2, <3>2 DEF HeldIn
    <2> QED
        BY <2>2, <2>3
<1>4. ASSUME NEW hook, HookedIn(Joined(s), hook) PROVE HookedIn(s, hook)
    <2>1. PICK d \in DOMAIN Joined(s) : Registered(Joined(s)[d].hooks, hook)
        BY <1>4 DEF HookedIn
    <2>2. PICK i \in DOMAIN Joined(s)[d].hooks : Joined(s)[d].hooks[i] = hook
        BY <2>1 DEF Registered
    <2>3. /\ d \in DOMAIN s /\ n + 1 \in DOMAIN s
          /\ \/ i \in DOMAIN s[d].hooks /\ Joined(s)[d].hooks[i] = s[d].hooks[i]
             \/ /\ i - Len(s[n].hooks) \in DOMAIN s[n + 1].hooks
                /\ Joined(s)[d].hooks[i] = s[n + 1].hooks[i - Len(s[n].hooks)]
        BY JoinPlaces
    <2> QED
        BY <2>2, <2>3 DEF HookedIn, Registered
<1> QED
    BY <1>3, <1>4 DEF Within

LEMMA EmptyWithin == ASSUME NEW s PROVE Within(<<>>, s)
    BY DEF Within, HeldIn, HookedIn

\* A step that commits nothing adds nothing to a stack.
LEMMA TransactionWithin ==
    ASSUME Types, NEW c \in Conn,
           Begin(c) \/ Savepoint(c) \/ Release(c) \/ RollbackSavepoint(c) \/ Rollback(c)
    PROVE  /\ \E t : Within(t, stack[c]) /\ stack' = [stack EXCEPT ![c] = t]
           /\ UNCHANGED <<cost, price, pending, running, seen, offered, costs>>
<1>0. stack[c] \in Seq(Frame)
    BY DEF Types
<1>1. CASE Begin(c) \/ Savepoint(c)
    <2>1. stack' = [stack EXCEPT ![c] = Append(stack[c], NewFrame)]
        <3>1. <<NewFrame>> = Append(<<>>, NewFrame)
            OBVIOUS
        <3> QED
            BY <1>1, <3>1 DEF Begin, Savepoint, Quiet
    <2> QED
        BY <1>0, <1>1, <2>1, PushWithin DEF Begin, Savepoint
<1>2. CASE Release(c)
    <2>1. PICK n \in Nat \ {0} : Len(stack[c]) = n + 1
        <3>1. Len(stack[c]) \in Nat /\ Len(stack[c]) > 1
            BY <1>0, <1>2 DEF Release, Depth
        <3>2. \A len \in Nat : len > 1 => len - 1 \in Nat \ {0} /\ len = (len - 1) + 1
            OBVIOUS
        <3> QED
            BY <3>1, <3>2
    <2>2. Within(Joined(stack[c]), stack[c])
        BY <1>0, <2>1, JoinWithin
    <2>3. stack' = [stack EXCEPT ![c] = Joined(stack[c])]
        BY <1>2 DEF Release, Joined
    <2> QED
        BY <1>2, <2>2, <2>3 DEF Release
<1>3. CASE RollbackSavepoint(c)
    <2>1. stack[c] # <<>> /\ stack' = [stack EXCEPT ![c] = Front(stack[c])]
        BY <1>3 DEF RollbackSavepoint, Depth
    <2> QED
        BY <1>0, <1>3, <2>1, PopWithin DEF RollbackSavepoint
<1>4. CASE Rollback(c)
    BY <1>4, EmptyWithin DEF Rollback
<1> QED
    BY <1>1, <1>2, <1>3, <1>4

\* Only the callbacks that are left, or a flush and those, still run.
LEMMA TailRegistered ==
    ASSUME NEW hooks \in Seq(Hook), hooks # <<>>, NEW hook
    PROVE  /\ Registered(Tail(hooks), hook) => Registered(hooks, hook)
           /\ Registered(<<Flush>> \o Tail(hooks), hook) => hook = Flush \/ Registered(hooks, hook)
<1>1. \A i \in DOMAIN Tail(hooks) : i + 1 \in DOMAIN hooks /\ Tail(hooks)[i] = hooks[i + 1]
    OBVIOUS
<1>2. Tail(hooks) \in Seq(Hook) /\ <<Flush>> \in Seq(Hook)
    BY FlushIsHook
<1>3. \A i \in DOMAIN (<<Flush>> \o Tail(hooks)) :
        \/ (<<Flush>> \o Tail(hooks))[i] = Flush
        \/ i - 1 \in DOMAIN Tail(hooks) /\ (<<Flush>> \o Tail(hooks))[i] = Tail(hooks)[i - 1]
    BY <1>2
<1> QED
    BY <1>1, <1>3 DEF Registered

LEMMA RegisteredInAppend ==
    ASSUME NEW hooks \in Seq(Hook), NEW hook \in Hook, NEW other, Registered(Append(hooks, hook), other)
    PROVE  Registered(hooks, other) \/ hook = other
<1>1. \A i \in DOMAIN Append(hooks, hook) :
        \/ i \in DOMAIN hooks /\ Append(hooks, hook)[i] = hooks[i]
        \/ Append(hooks, hook)[i] = hook
    OBVIOUS
<1> QED
    BY <1>1 DEF Registered

\* What Save and Announce add to the stack.
LEMMA SaveAdds ==
    ASSUME Types, NEW c \in Conn, NEW pair \in Pair, Save(c, pair)
    PROVE  /\ \A o \in Conn : o # c => stack'[o] = stack[o]
           /\ \A p \in Pair, v \in Nat :
                HeldIn(stack'[c], p, v) => HeldIn(stack[c], p, v) \/ v = costs + 1
           /\ \A hook : HookedIn(stack'[c], hook) => HookedIn(stack[c], hook) \/ hook = Flush
<1> DEFINE s == stack[c]
           t == stack'[c]
<1>1. s \in Seq(Frame) /\ Len(s) \in DOMAIN s /\ s[Len(s)] \in Frame
    BY DEF Save, InTransaction, Types
<1>2. /\ DOMAIN t = DOMAIN s
      /\ \A d \in DOMAIN s : d # Len(s) => t[d] = s[d]
      /\ t[Len(s)].writes = [s[Len(s)].writes EXCEPT ![pair] = costs + 1]
      /\ t[Len(s)].hooks \in {s[Len(s)].hooks, Append(s[Len(s)].hooks, Flush)}
      /\ \A o \in Conn : o # c => stack'[o] = stack[o]
    BY <1>1 DEF Save, Types, Depth
<1> HIDE DEF t
<1>3. ASSUME NEW p \in Pair, NEW v \in Nat, HeldIn(t, p, v)
      PROVE  HeldIn(s, p, v) \/ v = costs + 1
    <2>1. PICK d \in DOMAIN t : t[d].writes[p] = v
        BY <1>3 DEF HeldIn
    <2>2. CASE d # Len(s)
        BY <1>2, <2>1, <2>2 DEF HeldIn
    <2>3. CASE d = Len(s)
        <3>1. [s[Len(s)].writes EXCEPT ![pair] = costs + 1][p] = v
            BY <1>2, <2>1, <2>3
        <3>2. v = costs + 1 \/ s[Len(s)].writes[p] = v
            BY <1>1, <3>1 DEF Frame
        <3> QED
            BY <1>1, <3>2 DEF HeldIn
    <2> QED
        BY <2>2, <2>3
<1>4. ASSUME NEW hook, HookedIn(t, hook) PROVE HookedIn(s, hook) \/ hook = Flush
    <2>1. PICK d \in DOMAIN t : Registered(t[d].hooks, hook)
        BY <1>4 DEF HookedIn
    <2>2. CASE d # Len(s)
        BY <1>2, <2>1, <2>2 DEF HookedIn
    <2>3. CASE d = Len(s)
        <3>1. s[Len(s)].hooks \in Seq(Hook)
            BY <1>1 DEF Frame
        <3>2. Registered(s[Len(s)].hooks, hook) \/ Registered(Append(s[Len(s)].hooks, Flush), hook)
            BY <1>2, <2>1, <2>3
        <3>3. Registered(s[Len(s)].hooks, hook) \/ hook = Flush
            BY <3>1, <3>2, FlushIsHook, RegisteredInAppend
        <3> QED
            BY <1>1, <3>3 DEF HookedIn
    <2> QED
        BY <2>2, <2>3
<1> QED
    BY <1>2, <1>3, <1>4 DEF t

LEMMA AnnounceAdds ==
    ASSUME Types, NEW c \in Conn, NEW pair \in Pair, Announce(c, pair), InTransaction(c)
    PROVE  /\ \A o \in Conn : o # c => stack'[o] = stack[o]
           /\ \A p \in Pair, v \in Nat : HeldIn(stack'[c], p, v) => HeldIn(stack[c], p, v)
           /\ \A hook : HookedIn(stack'[c], hook) =>
                HookedIn(stack[c], hook) \/ hook = Event(pair, costs + 1)
<1> DEFINE event == Event(pair, costs + 1)
           s == stack[c]
           t == [s EXCEPT ![Len(s)].hooks = Append(@, event)]
<1>1. /\ s \in Seq(Frame) /\ Len(s) \in DOMAIN s /\ s[Len(s)] \in Frame
      /\ stack' = [stack EXCEPT ![c] = t] /\ event \in Hook
    BY DEF Announce, InTransaction, Depth, Types, Event, Hook
<1>2. /\ DOMAIN t = DOMAIN s
      /\ \A d \in DOMAIN s : t[d].writes = s[d].writes
      /\ \A d \in DOMAIN s : d # Len(s) => t[d].hooks = s[d].hooks
      /\ t[Len(s)].hooks = Append(s[Len(s)].hooks, event)
    <2> HIDE DEF event
    <2> QED
        BY <1>1 DEF Frame
<1> HIDE DEF t, event
<1>3. stack'[c] = t /\ \A o \in Conn : o # c => stack'[o] = stack[o]
    BY <1>1 DEF Types
<1>4. \A p \in Pair, v \in Nat : HeldIn(t, p, v) => HeldIn(s, p, v)
    BY <1>2 DEF HeldIn
<1>5. ASSUME NEW hook, HookedIn(t, hook) PROVE HookedIn(s, hook) \/ hook = event
    <2>1. PICK d \in DOMAIN s : Registered(t[d].hooks, hook)
        BY <1>2, <1>5 DEF HookedIn
    <2>2. CASE d # Len(s)
        BY <1>2, <2>1, <2>2 DEF HookedIn
    <2>3. CASE d = Len(s)
        <3>1. s[Len(s)].hooks \in Seq(Hook)
            BY <1>1 DEF Frame
        <3>2. Registered(s[Len(s)].hooks, hook) \/ hook = event
            BY <1>1, <1>2, <2>1, <2>3, <3>1, RegisteredInAppend
        <3> QED
            BY <1>1, <3>2 DEF HookedIn
    <2> QED
        BY <2>2, <2>3
<1> QED
    BY <1>3, <1>4, <1>5 DEF event

\* A step of transactions and savepoints that commits nothing.
LEMMA ApartOfStack ==
    ASSUME IInv, Apart, NEW c \in Conn, NEW t, Within(t, stack[c]),
           stack' = [stack EXCEPT ![c] = t], UNCHANGED <<cost, price, running, seen, costs>>
    PROVE  Apart'
<1>1. costs \in Nat /\ costs' = costs /\ FALSE \in BOOLEAN
    BY DEF IInv, Types
<1>2. /\ stack'[c] = t /\ \A o \in Conn : o # c => stack'[o] = stack[o]
      /\ cost' = cost /\ price' = price /\ running' = running /\ seen' = seen
    BY DEF IInv, Types
<1>3. ASSUME NEW pair \in Pair, NEW v \in Nat, NEW o \in Conn, HeldIn(stack[o], pair, v)'
      PROVE  HeldIn(stack[o], pair, v)
    <2>1. HeldIn(stack'[o], pair, v)
        BY <1>3 DEF HeldIn
    <2> QED
        BY <1>2, <2>1 DEF Within
<1>4. ASSUME NEW pair \in Pair, NEW v \in Nat, Afloat(pair, v)' PROVE Afloat(pair, v)
    <2>1. ASSUME NEW o \in Conn, HookedIn(stack'[o], Event(pair, v))
          PROVE  HookedIn(stack[o], Event(pair, v))
        BY <1>2, <2>1 DEF Within
    <2>2. Outright(pair, v) \/ \E o \in Conn : HookedIn(stack'[o], Event(pair, v))
        BY <1>2, <1>4 DEF Afloat, Outright, HookedIn, Registered, Event
    <2> QED
        BY <2>1, <2>2 DEF Afloat
<1>5. costs' \in {costs, costs + 1}
    BY <1>1
<1> QED
    BY <1>1, <1>3, <1>4, <1>5, ApartByStep

\* A step that leaves the stacks alone.
LEMMA ApartOfRest ==
    ASSUME IInv, Apart, NEW c \in Conn, UNCHANGED stack, costs' \in {costs, costs + 1},
           \A pair \in Pair, v \in Nat :
                Outright(pair, v)' => Afloat(pair, v) \/ (v = costs + 1 /\ costs' = costs + 1)
    PROVE  Apart'
<1>1. costs \in Nat /\ FALSE \in BOOLEAN
    BY DEF IInv, Types
<1>2. ASSUME NEW pair \in Pair, NEW v \in Nat, NEW o \in Conn, HeldIn(stack[o], pair, v)'
      PROVE  HeldIn(stack[o], pair, v)
    BY <1>2 DEF HeldIn
<1>3. ASSUME NEW pair \in Pair, NEW v \in Nat, Afloat(pair, v)'
      PROVE  Afloat(pair, v) \/ (v = costs + 1 /\ costs' = costs + 1)
    <2>1. \A o \in Conn : HookedIn(stack[o], Event(pair, v)) => Afloat(pair, v)
        BY DEF Afloat
    <2>2. Outright(pair, v)' \/ \E o \in Conn : HookedIn(stack[o], Event(pair, v))
        BY <1>3 DEF Afloat, HookedIn, Registered, Event
    <2> QED
        BY <2>1, <2>2
<1> QED
    BY <1>1, <1>2, <1>3, ApartByStep

LEMMA ApartStep == ASSUME IInv, Stored, Apart, [Next]_vars PROVE Apart'
<1> USE DEF IInv
<1>0. ASSUME NEW c \in Conn
      PROVE  /\ stack[c] \in Seq(Frame) /\ running[c] \in Seq(Hook) /\ costs \in Nat
             /\ seen[c] \in Costs
             /\ \A s, o : o \in Conn => [stack EXCEPT ![c] = s][o] = IF o = c THEN s ELSE stack[o]
             /\ \A s, o : o \in Conn => [running EXCEPT ![c] = s][o] = IF o = c THEN s ELSE running[o]
             /\ \A s, o : o \in Conn => [seen EXCEPT ![c] = s][o] = IF o = c THEN s ELSE seen[o]
    BY DEF Types, Stored
<1>00. \A pair \in Pair, v \in Nat : Event(pair, v) # Flush /\ v # Null
    BY CostAssumption DEF Event, Flush
<1>1. ASSUME NEW c \in Conn, NEW pair \in Pair, Save(c, pair) PROVE Apart'
    <2>1. UNCHANGED <<cost, price, running, seen>> /\ costs' = costs + 1 /\ costs \in Nat
        BY <1>0, <1>1 DEF Save
    <2>2. ASSUME NEW p \in Pair, NEW v \in Nat, NEW o \in Conn, HeldIn(stack[o], p, v)'
          PROVE  HeldIn(stack[o], p, v) \/ (o = c /\ v = costs + 1)
        <3>1. HeldIn(stack'[o], p, v)
            BY <2>2 DEF HeldIn
        <3> QED
            BY <1>1, <3>1, SaveAdds
    <2>3. ASSUME NEW p \in Pair, NEW v \in Nat, Afloat(p, v)' PROVE Afloat(p, v)
        <3>1. ASSUME NEW o \in Conn, HookedIn(stack'[o], Event(p, v))
              PROVE  HookedIn(stack[o], Event(p, v))
            BY <1>1, <1>00, <3>1, SaveAdds
        <3>2. Outright(p, v) \/ \E o \in Conn : HookedIn(stack'[o], Event(p, v))
            BY <2>1, <2>3 DEF Afloat, Outright, HookedIn, Registered, Event
        <3> QED
            BY <3>1, <3>2 DEF Afloat
    <2>4. TRUE \in BOOLEAN /\ costs' \in {costs, costs + 1}
        BY <2>1
    <2> QED
        BY <2>1, <2>2, <2>3, <2>4, ApartByStep
<1>2. ASSUME NEW c \in Conn, NEW pair \in Pair, SaveAutocommit(c, pair) PROVE Apart'
    <2>1. /\ UNCHANGED <<stack, price, seen>> /\ costs' = costs + 1
          /\ cost' = [cost EXCEPT ![pair] = costs + 1] /\ running' = [running EXCEPT ![c] = <<Flush>>]
        BY <1>2 DEF SaveAutocommit
    <2>2. \A p \in Pair, v \in Nat : ~Registered(<<Flush>>, Event(p, v))
        BY <1>00 DEF Registered
    <2>3. ASSUME NEW p \in Pair, NEW v \in Nat,
                 Outright(p, v)'
          PROVE  Afloat(p, v) \/ v = costs + 1
        <3>1. cost'[p] = v => cost[p] = v \/ v = costs + 1
            BY <2>1 DEF Stored, Costs
        <3>2. \A o \in Conn : Registered(running'[o], Event(p, v)) => Registered(running[o], Event(p, v))
            BY <1>0, <2>1, <2>2
        <3> QED
            BY <2>1, <2>3, <3>1, <3>2 DEF Afloat, Outright
    <2> QED
        BY <2>1, <2>3, ApartOfRest
<1>3. ASSUME NEW c \in Conn, NEW pair \in Pair, Announce(c, pair) PROVE Apart'
    <2> DEFINE event == Event(pair, costs + 1)
    <2>1. /\ UNCHANGED <<cost, price, seen>> /\ costs' = costs + 1 /\ costs \in Nat
          /\ event \in Hook
        BY <1>0, <1>3 DEF Announce, Event, Hook
    <2>2. \A p \in Pair, v \in Nat : event = Event(p, v) => v = costs + 1
        BY DEF Event
    <2>3. CASE ~InTransaction(c)
        <3>1. stack' = stack /\ running' = [running EXCEPT ![c] = <<event>>]
            BY <1>3, <2>3 DEF Announce
        <3>2. ASSUME NEW p \in Pair, NEW v \in Nat, NEW o \in Conn, Registered(running'[o], Event(p, v))
              PROVE  Registered(running[o], Event(p, v)) \/ v = costs + 1
            <4> HIDE DEF event
            <4>1. Registered(<<event>>, Event(p, v)) => event = Event(p, v)
                BY DEF Registered
            <4> QED
                BY <1>0, <2>2, <3>1, <3>2, <4>1
        <3>3. ASSUME NEW p \in Pair, NEW v \in Nat,
                     Outright(p, v)'
              PROVE  Afloat(p, v) \/ v = costs + 1
            BY <2>1, <3>2, <3>3 DEF Afloat, Outright
        <3> QED
            BY <2>1, <3>1, <3>3, ApartOfRest
    <2>4. CASE InTransaction(c)
        <3>1. running' = running
            BY <1>3, <2>4 DEF Announce
        <3>4. ASSUME NEW p \in Pair, NEW v \in Nat, NEW o \in Conn, HeldIn(stack[o], p, v)'
              PROVE  HeldIn(stack[o], p, v)
            <4>1. HeldIn(stack'[o], p, v)
                BY <3>4 DEF HeldIn
            <4> QED
                BY <1>3, <2>4, <4>1, AnnounceAdds
        <3>5. ASSUME NEW p \in Pair, NEW v \in Nat, NEW o \in Conn, HookedIn(stack'[o], Event(p, v))
              PROVE  HookedIn(stack[o], Event(p, v)) \/ v = costs + 1
            BY <1>3, <2>2, <2>4, <3>5, AnnounceAdds
        <3>6. ASSUME NEW p \in Pair, NEW v \in Nat, Afloat(p, v)'
              PROVE  Afloat(p, v) \/ v = costs + 1
            <4>1. Outright(p, v) \/ \E o \in Conn : HookedIn(stack'[o], Event(p, v))
                BY <2>1, <3>1, <3>6 DEF Afloat, Outright, HookedIn, Registered, Event
            <4> QED
                BY <3>5, <4>1 DEF Afloat
        <3>7. FALSE \in BOOLEAN /\ costs' \in {costs, costs + 1}
            BY <2>1
        <3> QED
            BY <2>1, <3>4, <3>6, <3>7, ApartByStep
    <2> QED
        BY <2>3, <2>4
<1>4. ASSUME NEW c \in Conn, FlushRead(c) PROVE Apart'
    <2> DEFINE read == [p \in Pair |-> IF p \in pending[c] THEN cost[p] ELSE Null]
    <2>1. /\ UNCHANGED <<stack, price, cost, costs>> /\ running[c] # <<>>
          /\ seen' = [seen EXCEPT ![c] = read]
          /\ running' = running \/ running' = [running EXCEPT ![c] = Tail(running[c])]
        BY <1>4 DEF FlushRead, Types
    <2>2. ASSUME NEW p \in Pair, NEW v \in Nat,
                 Outright(p, v)'
          PROVE  Afloat(p, v)
        <3>1. \A o \in Conn : seen'[o][p] = v => cost[p] = v \/ seen[o][p] = v
            BY <1>0, <1>00, <2>1
        <3>2. \A o \in Conn : Registered(running'[o], Event(p, v)) => Registered(running[o], Event(p, v))
            <4>1. Registered(Tail(running[c]), Event(p, v)) => Registered(running[c], Event(p, v))
                BY <1>0, <2>1, TailRegistered
            <4> QED
                BY <2>1, <4>1 DEF Types
        <3> QED
            BY <2>1, <2>2, <3>1, <3>2 DEF Afloat, Outright
    <2> QED
        <3>1. UNCHANGED stack /\ costs' \in {costs, costs + 1}
            BY <2>1
        <3> QED
            BY <3>1, <2>2, ApartOfRest
<1>5. ASSUME NEW c \in Conn, FlushWrite(c) \/ FlushFail(c) PROVE Apart'
    <2>1. /\ UNCHANGED <<stack, cost, costs>> /\ running[c] # <<>>
          /\ price' \in {price, Over(price, seen[c])}
          /\ seen' = [seen EXCEPT ![c] = NoWrites]
          /\ \/ running' = [running EXCEPT ![c] = Tail(running[c])]
             \/ running' = [running EXCEPT ![c] = <<>>]
        <3>1. running[c] # <<>>
            BY <1>5 DEF FlushWrite, FlushFail, Reading
        <3> QED
            BY <1>5, <3>1 DEF FlushWrite, FlushFail
    <2>2. ASSUME NEW p \in Pair, NEW v \in Nat,
                 Outright(p, v)'
          PROVE  Afloat(p, v)
        <3>1. \A o \in Conn : seen'[o][p] = v => seen[o][p] = v
            BY <1>0, <1>00, <2>1 DEF NoWrites
        <3>2. \A o \in Conn : Registered(running'[o], Event(p, v)) => Registered(running[o], Event(p, v))
            <4>1. ~Registered(<<>>, Event(p, v))
                BY DEF Registered
            <4>2. Registered(Tail(running[c]), Event(p, v)) => Registered(running[c], Event(p, v))
                BY <1>0, <2>1, TailRegistered
            <4> QED
                BY <2>1, <4>1, <4>2 DEF Types
        <3>3. price'[p] = v => price[p] = v \/ seen[c][p] = v
            BY <2>1 DEF Over
        <3> QED
            BY <2>1, <2>2, <3>1, <3>2, <3>3 DEF Afloat, Outright
    <2> QED
        <3>1. UNCHANGED stack /\ costs' \in {costs, costs + 1}
            BY <2>1
        <3> QED
            BY <3>1, <2>2, ApartOfRest
<1>6. ASSUME NEW c \in Conn, Apply(c) PROVE Apart'
    <2> DEFINE event == Head(running[c])
    <2>1. /\ UNCHANGED <<stack, price, seen, costs>> /\ running[c] # <<>> /\ event # Flush
          /\ cost' = cost \/ cost' = [cost EXCEPT ![event.pair] = event.value]
          /\ \/ running' = [running EXCEPT ![c] = Tail(running[c])]
             \/ running' = [running EXCEPT ![c] = <<Flush>> \o Tail(running[c])]
        BY <1>6 DEF Apply
    <2>2. event \in Hook /\ 1 \in DOMAIN running[c] /\ event = running[c][1]
        BY <1>0, <2>1
    <2>3. event = Event(event.pair, event.value) /\ Registered(running[c], event)
        BY <2>1, <2>2, HookTypes DEF Registered
    <2>4. ASSUME NEW p \in Pair, NEW v \in Nat,
                 Outright(p, v)'
          PROVE  Afloat(p, v)
        <3>1. cost'[p] = v => cost[p] = v \/ Registered(running[c], Event(p, v))
            BY <2>1, <2>3 DEF Stored, Costs
        <3>2. \A o \in Conn : Registered(running'[o], Event(p, v)) => Registered(running[o], Event(p, v))
            <4>1. /\ Registered(Tail(running[c]), Event(p, v)) => Registered(running[c], Event(p, v))
                  /\ Registered(<<Flush>> \o Tail(running[c]), Event(p, v)) => Registered(running[c], Event(p, v))
                BY <1>0, <1>00, <2>1, TailRegistered
            <4> QED
                BY <2>1, <4>1 DEF Types
        <3> QED
            BY <2>1, <2>4, <3>1, <3>2 DEF Afloat, Outright
    <2> QED
        <3>1. UNCHANGED stack /\ costs' \in {costs, costs + 1}
            BY <2>1
        <3> QED
            BY <3>1, <2>4, ApartOfRest
<1>7. ASSUME NEW c \in Conn,
             Begin(c) \/ Savepoint(c) \/ Release(c) \/ RollbackSavepoint(c) \/ Rollback(c)
      PROVE  Apart'
    BY <1>7, TransactionWithin, ApartOfStack
<1>11. ASSUME NEW c \in Conn, Commit(c) PROVE Apart'
    <2> DEFINE all == stack[c][1]
    <2>1. /\ DOMAIN stack[c] = {1} /\ all \in Frame
        <3>1. stack[c] \in Seq(Frame) /\ Len(stack[c]) = 1
            BY <1>0, <1>11 DEF Commit, Depth
        <3> QED
            BY <3>1
    <2>2. /\ UNCHANGED <<price, seen, costs>> /\ cost' = Over(cost, all.writes)
          /\ running' = [running EXCEPT ![c] = all.hooks] /\ stack' = [stack EXCEPT ![c] = <<>>]
        BY <1>11 DEF Commit
    <2>3. stack'[c] = <<>> /\ \A o \in Conn : o # c => stack'[o] = stack[o]
        BY <2>2 DEF Types
    <2>4. ASSUME NEW p \in Pair, NEW v \in Nat, NEW o \in Conn, HeldIn(stack[o], p, v)'
          PROVE  HeldIn(stack[o], p, v) /\ o # c
        <3>1. HeldIn(stack'[o], p, v)
            BY <2>4 DEF HeldIn
        <3> QED
            BY <2>3, <3>1 DEF HeldIn
    <2>5. ASSUME NEW p \in Pair, NEW v \in Nat, Afloat(p, v)'
          PROVE  Afloat(p, v) \/ (HeldIn(stack[c], p, v) /\ ~HeldIn(stack[c], p, v)')
        <3>1. \/ cost'[p] = v \/ price[p] = v
              \/ \E o \in Conn : \/ seen[o][p] = v
                                 \/ Registered(running'[o], Event(p, v))
                                 \/ HookedIn(stack'[o], Event(p, v))
            BY <2>2, <2>5 DEF Afloat, Outright, HookedIn, Registered, Event
        <3>2. cost'[p] = v => cost[p] = v \/ HeldIn(stack[c], p, v)
            BY <2>1, <2>2 DEF Over, HeldIn
        <3>3. \A o \in Conn : Registered(running'[o], Event(p, v)) =>
                Registered(running[o], Event(p, v)) \/ HookedIn(stack[o], Event(p, v))
            BY <1>0, <2>1, <2>2 DEF HookedIn
        <3>4. \A o \in Conn : HookedIn(stack'[o], Event(p, v)) => HookedIn(stack[o], Event(p, v))
            BY <2>3 DEF HookedIn
        <3> QED
            BY <2>4, <3>1, <3>2, <3>3, <3>4 DEF Afloat, Outright
    <2>6. FALSE \in BOOLEAN /\ costs' \in {costs, costs + 1} /\ costs \in Nat
        BY <1>0, <2>2
    <2> QED
        BY <2>4, <2>5, <2>6, ApartByStep
<1>12. CASE UNCHANGED vars
    BY <1>12 DEF vars, Apart, Afloat, Outright, HeldIn, HookedIn, Registered, Event
<1> QED
    BY <1>1, <1>2, <1>3, <1>4, <1>5, <1>6, <1>7, <1>11, <1>12 DEF Next

\* on_purchase_cost_saved defers the recalculation to the commit
\* (signals/baseline.py:65): no price was ever computed from a cost that a rollback may
\* still take back, whatever other connections save, announce and roll back meanwhile.
THEOREM PricesAreCommitted == Spec => []PricedFromCommitted
<1>1. IInv /\ Stored /\ Apart => PricedFromCommitted
    <2> SUFFICES ASSUME Stored, Apart, NEW c \in Conn, NEW d \in DOMAIN stack[c], NEW pair \in Pair,
                        price[pair] # Null, stack[c][d].writes[pair] = price[pair]
                 PROVE  FALSE
        BY DEF PricedFromCommitted
    <2>1. price[pair] \in Nat
        BY DEF Stored, Costs
    <2>2. HeldIn(stack[c], pair, price[pair]) /\ Afloat(pair, price[pair])
        BY DEF HeldIn, Afloat, Outright
    <2> QED
        BY <2>1, <2>2 DEF Apart
<1>2. IInv /\ Stored /\ Apart /\ [Next]_vars => (IInv /\ Stored /\ Apart)'
    BY StepKeeps, StoredStep, ApartStep
<1> QED
    BY <1>1, <1>2, InitIsInductive, StoredInit, ApartInit, PTL DEF Spec


-----------------------------------------------------------------------------
(* One connection *)

\* What a connection does whose recalculations never raise, if it saves costs and if it
\* takes the supplier's.
Moves(c, saves, stream) ==
    \/ \E pair \in Pair :
         \/ saves /\ (Save(c, pair) \/ SaveAutocommit(c, pair))
         \/ stream /\ Announce(c, pair)
    \/ FlushRead(c) \/ FlushWrite(c) \/ Apply(c)
    \/ Begin(c) \/ Savepoint(c) \/ Release(c) \/ RollbackSavepoint(c)
    \/ Rollback(c) \/ Commit(c)

LEMMA NextMoves == Next => \E c \in Conn : Moves(c, Saves, Stream) \/ (MayRaise /\ FlushFail(c))
<1>1. ASSUME NEW c \in Conn, NEW pair \in Pair
      PROVE  /\ Save(c, pair) \/ SaveAutocommit(c, pair) => Saves
             /\ Announce(c, pair) => Stream
    BY DEF Save, SaveAutocommit, Announce
<1>2. \A c \in Conn : FlushFail(c) => MayRaise
    BY DEF FlushFail
<1> QED
    BY <1>1, <1>2 DEF Next, Moves

\* Only saves register a flush, and only the stream registers events.
KindsOf(c, saves, stream) ==
    \A hook : HookedIn(stack[c], hook) => IF hook = Flush THEN saves ELSE stream

LEMMA KindsInit == ASSUME Init, NEW c \in Conn, NEW saves, NEW stream PROVE KindsOf(c, saves, stream)
    BY DEF Init, KindsOf, HookedIn

LEMMA KindsStep ==
    ASSUME Types, NEW saves \in BOOLEAN, NEW stream \in BOOLEAN, NEW o \in Conn, KindsOf(o, saves, stream),
           UNCHANGED vars \/ \E c \in Conn : Moves(c, saves, stream) \/ FlushFail(c)
    PROVE  KindsOf(o, saves, stream)'
<1>1. ASSUME \A hook : HookedIn(stack'[o], hook) =>
                HookedIn(stack[o], hook) \/ IF hook = Flush THEN saves ELSE stream
      PROVE  KindsOf(o, saves, stream)'
    <2> SUFFICES ASSUME NEW hook, HookedIn(stack'[o], hook)
                 PROVE  IF hook = Flush THEN saves ELSE stream
        BY DEF KindsOf, HookedIn
    <2> QED
        BY <1>1 DEF KindsOf
<1>2. ASSUME NEW c \in Conn, NEW t, Within(t, stack[c]), stack' = [stack EXCEPT ![c] = t]
      PROVE  KindsOf(o, saves, stream)'
    <2>1. stack'[c] = t /\ (o # c => stack'[o] = stack[o])
        BY <1>2 DEF Types
    <2> QED
        BY <1>1, <1>2, <2>1 DEF Within
<1>3. CASE UNCHANGED stack
    BY <1>3 DEF KindsOf, HookedIn
<1>4. ASSUME NEW c \in Conn, NEW pair \in Pair, saves, Save(c, pair) PROVE KindsOf(o, saves, stream)'
    <2>1. o # c => stack'[o] = stack[o]
        BY <1>4, SaveAdds
    <2>2. \A hook : HookedIn(stack'[c], hook) => HookedIn(stack[c], hook) \/ hook = Flush
        BY <1>4, SaveAdds
    <2> QED
        BY <1>1, <1>4, <2>1, <2>2
<1>5. ASSUME NEW c \in Conn, NEW pair \in Pair, stream, Announce(c, pair) PROVE KindsOf(o, saves, stream)'
    <2>1. CASE InTransaction(c)
        <3>1. Event(pair, costs + 1) # Flush
            BY CostAssumption DEF Event, Flush
        <3> QED
            BY <1>1, <1>5, <2>1, <3>1, AnnounceAdds
    <2>2. CASE ~InTransaction(c)
        BY <1>3, <1>5, <2>2 DEF Announce
    <2> QED
        BY <2>1, <2>2
<1>6. ASSUME NEW c \in Conn,
             Begin(c) \/ Savepoint(c) \/ Release(c) \/ RollbackSavepoint(c) \/ Rollback(c)
      PROVE  KindsOf(o, saves, stream)'
    BY <1>2, <1>6, TransactionWithin
<1>7. ASSUME NEW c \in Conn, Commit(c) PROVE KindsOf(o, saves, stream)'
    BY <1>2, <1>7, EmptyWithin DEF Commit
<1>8. ASSUME NEW c \in Conn,
             \/ \E pair \in Pair : SaveAutocommit(c, pair)
             \/ FlushRead(c) \/ FlushWrite(c) \/ FlushFail(c) \/ Apply(c)
      PROVE  KindsOf(o, saves, stream)'
    BY <1>3, <1>8 DEF SaveAutocommit, FlushRead, FlushWrite, FlushFail, Apply
<1> QED
    BY <1>3, <1>4, <1>5, <1>6, <1>7, <1>8 DEF Moves, vars

\* A flush is the next callback, and it will read the cost of the pair.
Waiting(c, pair) ==
    seen[c] = NoWrites /\ pair \in pending[c] /\ running[c] # <<>> /\ Head(running[c]) = Flush

\* Each price follows its cost: it is computed from it, or from the one that was read, or
\* the flush that will read it comes next.
Following(c) ==
    \A pair \in Pair :
        /\ cost[pair] = Null => price[pair] = Null
        /\ seen[c][pair] # Null => seen[c][pair] = cost[pair]
        /\ price[pair] # cost[pair] => seen[c][pair] = cost[pair] \/ Waiting(c, pair)

\* What a commit of one connection's outermost frame finds and leaves.
LEMMA CommitOfKind ==
    ASSUME IInv, NEW saves \in BOOLEAN, NEW stream \in BOOLEAN, ~(saves /\ stream),
           NEW c \in Conn, KindsOf(c, saves, stream), Commit(c)
    PROVE  /\ stack[c][1] \in Frame
           /\ \A pair \in Pair : stack[c][1].writes[pair] # Null =>
                /\ saves /\ pair \in pending[c]
                /\ stack[c][1].hooks # <<>> /\ Head(stack[c][1].hooks) = Flush
<1> DEFINE all == stack[c][1]
<1>1. DOMAIN stack[c] = {1} /\ all \in Frame
    <2>1. stack[c] \in Seq(Frame) /\ Len(stack[c]) = 1
        BY DEF Commit, Depth, IInv, Types
    <2> QED
        BY <2>1
<1>2. ASSUME NEW pair \in Pair, all.writes[pair] # Null
      PROVE  saves /\ pair \in pending[c] /\ all.hooks # <<>> /\ Head(all.hooks) = Flush
    <2>1. pair \in pending[c] /\ Registered(all.hooks, Flush)
        <3>1. pair \in pending[c] /\ \E e \in 1 .. 1 : Registered(stack[c][e].hooks, Flush)
            BY <1>1, <1>2 DEF IInv, Kept
        <3>2. \A e \in 1 .. 1 : e = 1
            OBVIOUS
        <3> QED
            BY <3>1, <3>2
    <2>2. saves /\ ~stream
        BY <1>1, <2>1, CostAssumption DEF KindsOf, HookedIn
    <2>3. all.hooks \in Seq(Hook)
        BY <1>1 DEF Frame
    <2>4. all.hooks # <<>>
        BY <2>1 DEF Registered
    <2>5. 1 \in DOMAIN all.hooks /\ Head(all.hooks) = all.hooks[1]
        BY <2>3, <2>4
    <2>6. HookedIn(stack[c], Head(all.hooks))
        BY <1>1, <2>5 DEF HookedIn, Registered
    <2>7. IF Head(all.hooks) = Flush THEN saves ELSE stream
        <3>1. \A hook : HookedIn(stack[c], hook) => (IF hook = Flush THEN saves ELSE stream)
            BY DEF KindsOf
        <3> HIDE DEF all
        <3> QED
            BY <2>6, <3>1, Zenon
    <2> HIDE DEF all
    <2>8. Head(all.hooks) = Flush
        BY <2>2, <2>7, Zenon
    <2> QED
        BY <2>1, <2>2, <2>4, <2>8, Zenon
<1> QED
    BY <1>1, <1>2

\* Without callbacks left, or before one that applies a cost, every price is the cost's.
LEMMA PricedWhenNoFlush ==
    ASSUME IInv, NEW c \in Conn, Following(c), running[c] = <<>> \/ Head(running[c]) # Flush
    PROVE  seen[c] = NoWrites /\ \A pair \in Pair : price[pair] = cost[pair]
<1>1. seen[c] = NoWrites
    BY DEF IInv, Reading
<1>2. \A pair \in Pair : seen[c][pair] = Null
    BY <1>1 DEF NoWrites
<1> QED
    BY <1>1, <1>2 DEF Following, Waiting

LEMMA FollowingStep ==
    ASSUME NEW c \in Conn, NEW saves \in BOOLEAN, NEW stream \in BOOLEAN, ~(saves /\ stream),
           IInv, Stored, KindsOf(c, saves, stream), Following(c), [Moves(c, saves, stream)]_vars
    PROVE  Following(c)'
<1>0. /\ costs + 1 \in Nat /\ Null \notin Nat
      /\ running[c] \in Seq(Hook) /\ pending[c] \in SUBSET Pair
      /\ \A x : [running EXCEPT ![c] = x][c] = x /\ [pending EXCEPT ![c] = x][c] = x
      /\ \A x : [seen EXCEPT ![c] = x][c] = x
    BY CostAssumption DEF IInv, Types
<1>1. ASSUME UNCHANGED <<cost, price, seen, running>>,
             running[c] = <<>> \/ Head(running[c]) # Flush \/ pending' = pending
      PROVE  Following(c)'
    <2>1. CASE pending' = pending
        BY <1>1, <2>1 DEF Following, Waiting
    <2>2. CASE running[c] = <<>> \/ Head(running[c]) # Flush
        BY <1>0, <1>1, <2>2, PricedWhenNoFlush DEF Following
    <2> QED
        BY <1>1, <2>1, <2>2
<1>2. ASSUME NEW pair \in Pair, Save(c, pair) PROVE Following(c)'
    BY <1>1, <1>2 DEF Save
<1>3. ASSUME NEW pair \in Pair, SaveAutocommit(c, pair) PROVE Following(c)'
    <2>1. seen[c] = NoWrites /\ \A p \in Pair : price[p] = cost[p]
        BY <1>0, <1>3, PricedWhenNoFlush DEF SaveAutocommit, Quiet
    <2>2. /\ UNCHANGED <<price, seen>> /\ cost' = [cost EXCEPT ![pair] = costs + 1]
          /\ running'[c] = <<Flush>> /\ pair \in pending'[c]
        <3>1. pair \in Collected(c, pair)
            BY DEF Collected
        <3> QED
            BY <1>0, <1>3, <3>1 DEF SaveAutocommit
    <2>3. Head(running'[c]) = Flush /\ running'[c] # <<>> /\ \A p \in Pair : seen[c][p] = Null
        BY <2>1, <2>2 DEF NoWrites
    <2>4. cost'[pair] # Null /\ \A p \in Pair : p # pair => cost'[p] = cost[p]
        BY <1>0, <2>2 DEF Stored, Costs
    <2> QED
        BY <2>1, <2>2, <2>3, <2>4 DEF Following, Waiting
<1>4. ASSUME NEW pair \in Pair, Announce(c, pair) PROVE Following(c)'
    <2>1. running[c] = <<>> /\ UNCHANGED <<cost, price, pending, seen>>
        BY <1>4 DEF Announce
    <2>2. seen[c] = NoWrites /\ \A p \in Pair : price[p] = cost[p]
        BY <1>0, <2>1, PricedWhenNoFlush
    <2> QED
        BY <2>1, <2>2 DEF Following, NoWrites
<1>5. ASSUME FlushRead(c) PROVE Following(c)'
    <2> DEFINE read == [pair \in Pair |-> IF pair \in pending[c] THEN cost[pair] ELSE Null]
    <2>1. seen[c] = NoWrites /\ seen'[c] = read /\ UNCHANGED <<cost, price>>
        BY <1>0, <1>5 DEF FlushRead
    <2>2. ASSUME NEW p \in Pair
          PROVE  /\ read[p] # Null => read[p] = cost[p]
                 /\ price[p] # cost[p] => read[p] = cost[p]
        <3>1. seen[c][p] = Null /\ read[p] = IF p \in pending[c] THEN cost[p] ELSE Null
            BY <2>1 DEF NoWrites
        <3> HIDE DEF read
        <3> QED
            BY <3>1 DEF Following, Waiting
    <2> HIDE DEF read
    <2> QED
        BY <2>1, <2>2 DEF Following
<1>6. ASSUME FlushWrite(c) PROVE Following(c)'
    <2>1. /\ seen[c] # NoWrites /\ UNCHANGED cost /\ price' = Over(price, seen[c])
          /\ seen'[c] = NoWrites
        BY <1>0, <1>6 DEF FlushWrite
    <2>2. ASSUME NEW p \in Pair
          PROVE  /\ price'[p] = cost[p]
                 /\ seen'[c][p] = Null
        <3>1. price'[p] = (IF seen[c][p] = Null THEN price[p] ELSE seen[c][p]) /\ seen'[c][p] = Null
            BY <2>1 DEF Over, NoWrites
        <3> QED
            BY <2>1, <3>1 DEF Following, Waiting
    <2> QED
        BY <2>1, <2>2 DEF Following
<1>7. ASSUME Apply(c) PROVE Following(c)'
    <2> DEFINE event == Head(running[c])
    <2>1. running[c] # <<>> /\ event # Flush /\ UNCHANGED <<price, seen>>
        BY <1>7 DEF Apply
    <2>2. seen[c] = NoWrites /\ \A p \in Pair : price[p] = cost[p] /\ seen[c][p] = Null
        BY <1>0, <2>1, PricedWhenNoFlush DEF NoWrites
    <2>3. event \in Hook
        BY <1>0, <2>1
    <2>4. event.value \in Nat
        BY <2>1, <2>3, HookTypes
    <2>5. CASE UNCHANGED cost
        BY <2>1, <2>2, <2>5 DEF Following
    <2>6. CASE ~UNCHANGED cost
        <3>1. /\ cost' = [cost EXCEPT ![event.pair] = event.value]
              /\ event.pair \in pending'[c]
              /\ running'[c] = <<Flush>> \o Tail(running[c])
            BY <1>0, <1>7, <2>6 DEF Apply, Collected
        <3>2. running'[c] # <<>> /\ Head(running'[c]) = Flush
            <4>1. Tail(running[c]) \in Seq(Hook) /\ <<Flush>> \in Seq(Hook)
                BY <1>0, <2>1, FlushIsHook
            <4>2. \A h \in Seq(Hook) : <<Flush>> \o h # <<>> /\ Head(<<Flush>> \o h) = Flush
                BY <4>1
            <4> QED
                BY <3>1, <4>1, <4>2
        <3>3. \A p \in Pair : cost'[p] = cost[p] \/ (p = event.pair /\ cost'[p] = event.value)
            BY <3>1 DEF Stored, Costs
        <3> HIDE DEF event
        <3> QED
            BY <1>0, <2>1, <2>2, <2>4, <3>1, <3>2, <3>3 DEF Following, Waiting
    <2> QED
        BY <2>5, <2>6
<1>8. ASSUME Begin(c) \/ Savepoint(c) \/ Release(c) \/ RollbackSavepoint(c) \/ Rollback(c)
      PROVE  Following(c)'
    <2>1. UNCHANGED <<cost, price, pending, running, seen>>
        BY <1>0, <1>8, TransactionWithin DEF IInv
    <2> QED
        BY <1>1, <2>1
<1>9. ASSUME Commit(c) PROVE Following(c)'
    <2> DEFINE all == stack[c][1]
    <2>1. /\ cost' = Over(cost, all.writes) /\ running'[c] = all.hooks
          /\ UNCHANGED <<price, pending, seen>>
        BY <1>0, <1>9 DEF Commit
    <2>2. running[c] = <<>>
        BY <1>0, <1>9 DEF Commit, Depth, IInv, Outside
    <2>3. seen[c] = NoWrites /\ \A p \in Pair : price[p] = cost[p] /\ seen[c][p] = Null
        BY <1>0, <2>2, PricedWhenNoFlush DEF NoWrites
    <2>4. \A p \in Pair : cost'[p] = IF all.writes[p] = Null THEN cost[p] ELSE all.writes[p]
        BY <2>1 DEF Over
    <2>5. \A p \in Pair : all.writes[p] # Null =>
            p \in pending'[c] /\ running'[c] # <<>> /\ Head(running'[c]) = Flush
        BY <1>0, <1>9, <2>1, CommitOfKind
    <2> HIDE DEF all
    <2> QED
        BY <2>1, <2>3, <2>4, <2>5 DEF Following, Waiting
<1>10. CASE UNCHANGED vars
    BY <1>10 DEF vars, Following, Waiting
<1> QED
    BY <1>2, <1>3, <1>4, <1>5, <1>6, <1>7, <1>8, <1>9, <1>10 DEF Moves

LEMMA FollowingIsPriced == ASSUME NEW c \in Conn, IInv, Stored, Following(c) PROVE CostsArePriced
<1> SUFFICES ASSUME Quiet(c) PROVE price = cost
    BY DEF CostsArePriced
<1>1. \A pair \in Pair : price[pair] = cost[pair]
    BY PricedWhenNoFlush DEF Quiet
<1> QED
    BY <1>1 DEF Stored, Costs

\* Of one connection that saves costs or takes the supplier's: however its savepoints
\* come and go, once its transaction and its callbacks are over every baseline price has
\* been computed from the cost there is (signals/baseline.py:27-72).
THEOREM CommitsAreRecalculated ==
    ASSUME NEW c, Conn = {c}, ~MayRaise, ~(Saves /\ Stream)
    PROVE  Spec => []CostsArePriced
<1> DEFINE Inv == IInv /\ Stored /\ KindsOf(c, Saves, Stream) /\ Following(c)
<1>1. Inv => CostsArePriced
    BY FollowingIsPriced
<1>2. Init => Inv
    BY InitIsInductive, StoredInit, KindsInit DEF Init, Following, NoWrites
<1>3. Inv /\ [Next]_vars => Inv'
    <2> SUFFICES ASSUME Inv, [Next]_vars PROVE Inv'
        OBVIOUS
    <2>1. [Moves(c, Saves, Stream)]_vars
        BY NextMoves
    <2>2. KindsOf(c, Saves, Stream)'
        BY <2>1, KindsStep, CostAssumption DEF IInv
    <2>3. Following(c)'
        BY <2>1, FollowingStep, CostAssumption
    <2> QED
        BY <2>2, <2>3, StepKeeps, StoredStep
<1> QED
    BY <1>1, <1>2, <1>3, PTL DEF Spec

\* The cost announced last is the last one of the callbacks that are left, if they
\* announce one.
LEMMA AnnouncedAfter ==
    ASSUME NEW rest \in Seq(Hook), NEW h \in Hook, NEW pair \in Pair
    PROVE  Announced(<<h>> \o rest, pair) =
                IF Announced(rest, pair) # Null THEN Announced(rest, pair)
                ELSE IF h.pair = pair THEN h.value ELSE Null
<1> DEFINE all == <<h>> \o rest
<1>1. /\ all \in Seq(Hook) /\ Len(rest) \in Nat
      /\ all[1] = h /\ DOMAIN all = 1 .. Len(rest) + 1
      /\ \A i \in DOMAIN rest : all[i + 1] = rest[i]
      /\ \A i \in DOMAIN all : i = 1 \/ (i - 1 \in DOMAIN rest /\ all[i] = rest[i - 1])
    <2>1. <<h>> \in Seq(Hook)
        OBVIOUS
    <2> QED
        BY <2>1
<1> HIDE DEF all
<1>2. ASSUME NEW i, LastOf(rest, pair, i)
      PROVE  Announced(all, pair) = Announced(rest, pair) /\ Announced(rest, pair) # Null
    <2>1. i \in DOMAIN rest /\ rest[i].pair = pair /\ \A k \in DOMAIN rest : rest[k].pair = pair => k <= i
        BY <1>2 DEF LastOf
    <2>2. i + 1 \in DOMAIN all /\ all[i + 1].pair = pair
        BY <1>1, <2>1
    <2>3. ASSUME NEW k \in DOMAIN all, all[k].pair = pair PROVE k <= i + 1
        <3>1. k \in Nat /\ i \in Nat
            BY <1>1, <2>1
        <3>2. k = 1 \/ k - 1 <= i
            BY <1>1, <2>1, <2>3
        <3> QED
            BY <3>1, <3>2
    <2>4. LastOf(all, pair, i + 1)
        BY <2>2, <2>3 DEF LastOf
    <2>5. Announced(all, pair) = all[i + 1].value /\ Announced(rest, pair) = rest[i].value
        BY <1>1, <1>2, <2>4, AnnouncedByLast
    <2>6. rest[i] \in Hook
        BY <2>1
    <2> QED
        BY <1>1, <2>1, <2>5, <2>6, HookTypes
<1>3. CASE \A i : ~LastOf(rest, pair, i)
    <2>1. Announced(rest, pair) = Null /\ \A i \in DOMAIN rest : rest[i].pair # pair
        BY <1>3, AnnouncedByLast
    <2>2. \A k \in DOMAIN all : all[k].pair = pair => k = 1 /\ h.pair = pair
        BY <1>1, <2>1
    <2>3. CASE h.pair = pair
        <3>1. LastOf(all, pair, 1)
            BY <1>1, <2>2, <2>3 DEF LastOf
        <3>2. Announced(all, pair) = h.value
            BY <1>1, <3>1, AnnouncedByLast
        <3> QED
            BY <2>1, <2>3, <3>2 DEF all
    <2>4. CASE h.pair # pair
        <3>1. \A i : ~LastOf(all, pair, i)
            BY <2>2, <2>4 DEF LastOf
        <3>2. Announced(all, pair) = Null
            BY <1>1, <3>1, AnnouncedByLast
        <3> QED
            BY <2>1, <2>4, <3>2 DEF all
    <2> QED
        BY <2>3, <2>4
<1> QED
    BY <1>2, <1>3 DEF all

\* The cost is the one announced last, as soon as the callbacks that are left have run.
Upcoming(hooks, pair, now) == IF Announced(hooks, pair) # Null THEN Announced(hooks, pair) ELSE now
Projected(c) ==
    \A pair \in Primary : offered[pair] # Null => offered[pair] = Upcoming(running[c], pair, cost[pair])

LEMMA NoneAnnounced == ASSUME NEW pair \in Pair PROVE Announced(<<>>, pair) = Null
<1>1. <<>> \in Seq(Hook) /\ \A i : ~LastOf(<<>>, pair, i)
    BY DEF LastOf
<1> QED
    BY <1>1, AnnouncedByLast

\* Running the first callback: a flush changes nothing, an event becomes the cost.
LEMMA UpcomingAfter ==
    ASSUME NEW hooks \in Seq(Hook), hooks # <<>>, NEW pair \in Pair, NEW now
    PROVE  /\ Tail(hooks) \in Seq(Hook) /\ Head(hooks) \in Hook
           /\ Upcoming(<<Flush>> \o Tail(hooks), pair, now) = Upcoming(Tail(hooks), pair, now)
           /\ Head(hooks).pair # pair => Upcoming(hooks, pair, now) = Upcoming(Tail(hooks), pair, now)
           /\ Head(hooks).pair = pair =>
                Upcoming(hooks, pair, now) = Upcoming(Tail(hooks), pair, Head(hooks).value)
<1>1. Tail(hooks) \in Seq(Hook) /\ Head(hooks) \in Hook /\ hooks = <<Head(hooks)>> \o Tail(hooks)
    OBVIOUS
<1>2. Flush.pair # pair
    BY HookTypes
<1>3. Head(hooks).pair = pair => Head(hooks).value # Null
    BY <1>1, HookTypes
<1>4. Announced(<<Flush>> \o Tail(hooks), pair) =
        IF Announced(Tail(hooks), pair) # Null THEN Announced(Tail(hooks), pair) ELSE Null
    BY <1>1, <1>2, FlushIsHook, AnnouncedAfter
<1>5. Announced(hooks, pair) =
        IF Announced(Tail(hooks), pair) # Null THEN Announced(Tail(hooks), pair)
        ELSE IF Head(hooks).pair = pair THEN Head(hooks).value ELSE Null
    <2> DEFINE h == Head(hooks)
               rest == Tail(hooks)
    <2>1. h \in Hook /\ rest \in Seq(Hook) /\ hooks = <<h>> \o rest
        BY <1>1
    <2> HIDE DEF h, rest
    <2>2. Announced(<<h>> \o rest, pair) =
            IF Announced(rest, pair) # Null THEN Announced(rest, pair)
            ELSE IF h.pair = pair THEN h.value ELSE Null
        BY <2>1, AnnouncedAfter
    <2>3. Announced(hooks, pair) = Announced(<<h>> \o rest, pair)
        BY <2>1
    <2> QED
        BY <2>2, <2>3 DEF h, rest
<1> QED
    BY <1>1, <1>3, <1>4, <1>5 DEF Upcoming


LEMMA ProjectedStep ==
    ASSUME NEW c \in Conn, IInv, Stored, KindsOf(c, FALSE, TRUE), Projected(c),
           [Moves(c, FALSE, TRUE)]_vars
    PROVE  Projected(c)'
<1>0. /\ running[c] \in Seq(Hook)
      /\ \A x : [running EXCEPT ![c] = x][c] = x
      /\ \A pair \in Primary : pair \in Pair
      /\ \A pair \in Pair : cost[pair] \in Nat \cup {Null}
    BY CostAssumption DEF IInv, Types, Stored, Costs
<1>1. ASSUME UNCHANGED <<offered, cost>>,
             running' = running \/ (Head(running[c]) = Flush /\ running[c] # <<>> /\ running'[c] = Tail(running[c]))
      PROVE  Projected(c)'
    <2>1. \A pair \in Pair : running[c] # <<>> /\ Head(running[c]) = Flush =>
            Upcoming(running[c], pair, cost[pair]) = Upcoming(Tail(running[c]), pair, cost[pair])
        BY <1>0, UpcomingAfter, HookTypes
    <2>2. \A pair \in Primary : Upcoming(running'[c], pair, cost'[pair]) = Upcoming(running[c], pair, cost[pair])
        BY <1>0, <1>1, <2>1
    <2> QED
        BY <1>1, <2>2 DEF Projected
<1>2. ASSUME FlushRead(c) \/ FlushWrite(c) PROVE Projected(c)'
    <2>1. running[c] # <<>> /\ Head(running[c]) = Flush
        BY <1>0, <1>2 DEF FlushRead, FlushWrite, IInv, Reading
    <2>2. running' = running \/ running'[c] = Tail(running[c])
        BY <1>0, <1>2 DEF FlushRead, FlushWrite, IInv, Types
    <2>3. UNCHANGED <<offered, cost>>
        BY <1>2 DEF FlushRead, FlushWrite
    <2> QED
        BY <1>1, <2>1, <2>2, <2>3
<1>3. ASSUME NEW pair \in Pair, Announce(c, pair) PROVE Projected(c)'
    <2>1. CASE InTransaction(c)
        BY <1>1, <1>3, <2>1 DEF Announce
    <2>2. CASE ~InTransaction(c)
        <3> DEFINE event == Event(pair, costs + 1)
        <3>1. /\ running[c] = <<>> /\ running'[c] = <<event>> /\ UNCHANGED cost
              /\ offered' = [offered EXCEPT ![pair] = costs + 1]
            BY <1>0, <1>3, <2>2 DEF Announce
        <3>2. event \in Hook /\ event.pair = pair /\ event.value = costs + 1 /\ costs + 1 \in Nat
            BY DEF IInv, Types, Event, Hook
        <3>3. \A p \in Pair : offered'[p] = IF p = pair THEN costs + 1 ELSE offered[p]
            BY <3>1 DEF Stored, Costs
        <3> HIDE DEF event
        <3>4. ASSUME NEW p \in Pair PROVE Upcoming(<<event>>, p, cost[p]) = IF p = pair THEN costs + 1 ELSE cost[p]
            <4> DEFINE hooks == <<event>>
            <4>1. hooks \in Seq(Hook) /\ hooks # <<>> /\ Head(hooks) = event /\ Tail(hooks) = <<>>
                BY <3>2
            <4> HIDE DEF hooks
            <4>2. /\ p # pair => Upcoming(hooks, p, cost[p]) = Upcoming(<<>>, p, cost[p])
                  /\ p = pair => Upcoming(hooks, p, cost[p]) = Upcoming(<<>>, p, costs + 1)
                <5>1. /\ event.pair # p => Upcoming(hooks, p, cost[p]) = Upcoming(Tail(hooks), p, cost[p])
                      /\ event.pair = p => Upcoming(hooks, p, cost[p]) = Upcoming(Tail(hooks), p, event.value)
                    BY <4>1, UpcomingAfter
                <5> QED
                    BY <3>2, <4>1, <5>1
            <4>3. \A now : Upcoming(<<>>, p, now) = now
                BY NoneAnnounced DEF Upcoming
            <4> QED
                BY <4>2, <4>3 DEF hooks
        <3>5. \A p \in Pair : Upcoming(running[c], p, cost[p]) = cost[p]
            BY <3>1, NoneAnnounced DEF Upcoming
        <3> QED
            BY <1>0, <3>1, <3>3, <3>4, <3>5 DEF Projected
    <2> QED
        BY <2>1, <2>2
<1>4. ASSUME Apply(c) PROVE Projected(c)'
    <2> DEFINE event == Head(running[c])
               rest == Tail(running[c])
    <2>1. running[c] # <<>> /\ event # Flush /\ UNCHANGED offered
        BY <1>4 DEF Apply
    <2>2. event \in Hook /\ event.pair \in Pair
        BY <1>0, <2>1, HookTypes
    <2>3. \/ running'[c] = rest /\ UNCHANGED cost
             /\ (event.pair \in Primary => cost[event.pair] = event.value)
          \/ running'[c] = <<Flush>> \o rest /\ cost' = [cost EXCEPT ![event.pair] = event.value]
        BY <1>0, <1>4 DEF Apply
    <2>4. \A p \in Primary : cost'[p] = IF p = event.pair THEN event.value ELSE cost[p]
        <3>1. cost \in [Pair -> Nat \cup {Null}]
            BY DEF Stored, Costs
        <3> HIDE DEF event, rest
        <3> QED
            BY <1>0, <2>3, <3>1
    <2>5. ASSUME NEW p \in Primary
          PROVE  Upcoming(running[c], p, cost[p]) = Upcoming(running'[c], p, cost'[p])
        <3>1. /\ Upcoming(<<Flush>> \o rest, p, cost'[p]) = Upcoming(rest, p, cost'[p])
              /\ event.pair # p => Upcoming(running[c], p, cost[p]) = Upcoming(rest, p, cost[p])
              /\ event.pair = p => Upcoming(running[c], p, cost[p]) = Upcoming(rest, p, event.value)
            BY <1>0, <2>1, UpcomingAfter
        <3>2. Upcoming(running'[c], p, cost'[p]) = Upcoming(rest, p, cost'[p])
            <4> HIDE DEF event, rest
            <4> QED
                BY <2>3, <3>1
        <3> HIDE DEF event, rest
        <3> QED
            BY <2>4, <3>1, <3>2
    <2> QED
        BY <2>1, <2>5 DEF Projected
<1>5. ASSUME Begin(c) \/ Savepoint(c) \/ Release(c) \/ RollbackSavepoint(c) \/ Rollback(c)
      PROVE  Projected(c)'
    <2>1. UNCHANGED <<cost, running, offered>>
        BY <1>0, <1>5, TransactionWithin DEF IInv
    <2> QED
        BY <1>1, <2>1
<1>6. ASSUME Commit(c) PROVE Projected(c)'
    <2> DEFINE all == stack[c][1]
               last == [pair \in Pair |-> Announced(all.hooks, pair)]
    <2>1. /\ cost' = Over(cost, all.writes) /\ running'[c] = all.hooks
          /\ offered' = Over(offered, last)
        BY <1>0, <1>6 DEF Commit
    <2>2. running[c] = <<>>
        BY <1>0, <1>6 DEF Commit, Depth, IInv, Outside
    <2>3. \A p \in Pair : cost'[p] = cost[p]
        <3>1. \A p \in Pair : all.writes[p] = Null
            BY <1>0, <1>6, CommitOfKind
        <3> HIDE DEF all
        <3> QED
            BY <2>1, <3>1 DEF Over
    <2>4. \A p \in Pair : offered'[p] = Upcoming(all.hooks, p, offered[p])
        <3>1. \A p \in Pair : last[p] = Announced(all.hooks, p)
            OBVIOUS
        <3> HIDE DEF all, last
        <3> QED
            BY <2>1, <3>1 DEF Over, Upcoming
    <2>5. \A p \in Primary : offered[p] # Null => offered[p] = cost[p]
        BY <1>0, <2>2, NoneAnnounced DEF Projected, Upcoming
    <2> HIDE DEF all, last
    <2> QED
        BY <1>0, <2>1, <2>3, <2>4, <2>5 DEF Projected, Upcoming
<1>7. CASE UNCHANGED vars
    BY <1>7 DEF vars, Projected
<1> QED
    BY <1>2, <1>3, <1>4, <1>5, <1>6, <1>7 DEF Moves

LEMMA ProjectedIsLast == ASSUME NEW c \in Conn, Projected(c) PROVE StreamIsProjected
<1> SUFFICES ASSUME Quiet(c), NEW pair \in Primary, offered[pair] # Null PROVE cost[pair] = offered[pair]
    BY DEF StreamIsProjected
<1> QED
    BY NoneAnnounced, CostAssumption DEF Quiet, Projected, Upcoming

\* Of one connection that takes the supplier's costs: what its committed transactions
\* announced last is the cost once their callbacks have run, each applied cost being
\* saved in a transaction of its own between them (signals/supplier_cost.py:92).
THEOREM StreamArrives ==
    ASSUME NEW c, Conn = {c}, ~MayRaise, ~Saves
    PROVE  Spec => []StreamIsProjected
<1> DEFINE Inv == IInv /\ Stored /\ KindsOf(c, FALSE, TRUE) /\ Projected(c)
<1>1. Inv => StreamIsProjected
    BY ProjectedIsLast
<1>2. Init => Inv
    BY InitIsInductive, StoredInit, KindsInit, CostAssumption DEF Init, Projected, NoWrites
<1>3. Inv /\ [Next]_vars => Inv'
    <2> SUFFICES ASSUME Inv, [Next]_vars PROVE Inv'
        OBVIOUS
    <2>1. [Moves(c, FALSE, TRUE)]_vars
        BY NextMoves, Zenon DEF Moves
    <2>2. KindsOf(c, FALSE, TRUE)'
        BY <2>1, KindsStep DEF IInv
    <2>3. Projected(c)'
        BY <2>1, ProjectedStep
    <2> QED
        BY <2>2, <2>3, StepKeeps, StoredStep
<1> QED
    BY <1>1, <1>2, <1>3, PTL DEF Spec

-----------------------------------------------------------------------------
(* The queue of the read model, in the scenarios of MCSignals *)

QueueP == INSTANCE MatrixSync_proofs WITH
    price <- version, pending <- set, proc <- writer,
    Item <- {"a", "b"}, Denied <- {"b"}, Writer <- {"w1", "w2"},
    Kinds <- {"signal", "service", "bulk", "vat"}, MayFail <- FALSE,
    MaxChanges <- 3, MaxToggles <- 1, MaxTasks <- 3
RefusedP == INSTANCE MatrixSync_proofs WITH
    price <- version, pending <- set, proc <- writer,
    Item <- {"a", "b"}, Denied <- {"b"}, Writer <- {"w1", "w2"},
    Kinds <- {"bulk", "vat"}, MayFail <- TRUE,
    MaxChanges <- 4, MaxToggles <- 0, MaxTasks <- 3
BulkP == INSTANCE MatrixSync_proofs WITH
    price <- version, pending <- set, proc <- writer,
    Item <- {"a", "b"}, Denied <- {"b"}, Writer <- {"w1", "w2"},
    Kinds <- {"bulk"}, MayFail <- FALSE,
    MaxChanges <- 3, MaxToggles <- 0, MaxTasks <- 3

\* What is kept of the queue in each scenario: the shape in all of them, and what the
\* theorems of MatrixSync_proofs rest on in the scenario that is about it.
QueueInv ==
    /\ QueueP!Shape
    /\ scenario = "queue" => QueueP!Served
    /\ scenario = "refused" => RefusedP!NoDrafts /\ RefusedP!Sent

\* The shape does not depend on which callers there are.
LEMMA SameShape ==
    /\ RefusedP!Shape = QueueP!Shape
    /\ BulkP!Shape = QueueP!Shape
  BY DEF QueueP!Shape, RefusedP!Shape, BulkP!Shape, QueueP!StoreOK, RefusedP!StoreOK,
         BulkP!StoreOK, QueueP!Proc, RefusedP!Proc, BulkP!Proc, QueueP!Steps, RefusedP!Steps,
         BulkP!Steps, QueueP!ProcOK, RefusedP!ProcOK, BulkP!ProcOK, QueueP!Ahead, RefusedP!Ahead,
         BulkP!Ahead, QueueP!Versions, RefusedP!Versions, BulkP!Versions

LEMMA SameShapeAfter ==
    /\ RefusedP!Shape' = QueueP!Shape'
    /\ BulkP!Shape' = QueueP!Shape'
  BY DEF QueueP!Shape, RefusedP!Shape, BulkP!Shape, QueueP!StoreOK, RefusedP!StoreOK,
         BulkP!StoreOK, QueueP!Proc, RefusedP!Proc, BulkP!Proc, QueueP!Steps, RefusedP!Steps,
         BulkP!Steps, QueueP!ProcOK, RefusedP!ProcOK, BulkP!ProcOK, QueueP!Ahead, RefusedP!Ahead,
         BulkP!Ahead, QueueP!Versions, RefusedP!Versions, BulkP!Versions

\* The theorems speak of the same steps as the scenarios.
LEMMA SameSteps ==
    /\ Queue!Init => QueueP!Init
    /\ Queue!Next => QueueP!Next
    /\ Refused!Next => RefusedP!Next
    /\ Bulk!Next => BulkP!Next
<1>1. Queue!Next => QueueP!Next
    <2>1. ASSUME NEW w, NEW kind, NEW item PROVE Queue!Change(w, kind, item) => QueueP!Change(w, kind, item)
        BY DEF Queue!Change, QueueP!Change, Queue!Skipped, QueueP!Skipped
    <2>2. ASSUME NEW w PROVE Queue!Step(w) => QueueP!Step(w)
        <3>1. Queue!SendTask(w) \/ Queue!EnqueueFails(w) => QueueP!SendTask(w) \/ QueueP!EnqueueFails(w)
            BY DEF Queue!SendTask, QueueP!SendTask, Queue!EnqueueFails, QueueP!EnqueueFails,
                   Queue!Goto, QueueP!Goto, Queue!AfterQueueing, QueueP!AfterQueueing
        <3>2. Queue!Zadd(w) \/ Queue!SetLock(w) => QueueP!Zadd(w) \/ QueueP!SetLock(w)
            BY DEF Queue!Zadd, QueueP!Zadd, Queue!SetLock, QueueP!SetLock, Queue!Goto,
                   QueueP!Goto, Queue!AfterQueueing, QueueP!AfterQueueing
        <3> QED
            BY <3>1, <3>2 DEF Queue!Step, QueueP!Step, Queue!Commit, QueueP!Commit, Queue!Rollback,
                   QueueP!Rollback, Queue!End, QueueP!End, Queue!Idle, QueueP!Idle
    <2>3. Queue!Flushing \/ Queue!LockExpires \/ Queue!Toggle => QueueP!Flushing \/ QueueP!LockExpires \/ QueueP!Toggle
        BY DEF Queue!Flushing, QueueP!Flushing, Queue!FlushStart, QueueP!FlushStart,
               Queue!FlushTake, QueueP!FlushTake, Queue!FlushApply, QueueP!FlushApply,
               Queue!NoFlush, QueueP!NoFlush, Queue!LockExpires, QueueP!LockExpires, Queue!Toggle,
               QueueP!Toggle
    <2> QED
        BY <2>1, <2>2, <2>3 DEF Queue!Next, QueueP!Next, Queue!Kind, QueueP!Kind
<1>2. Refused!Next => RefusedP!Next
    <2>1. ASSUME NEW w, NEW kind, NEW item PROVE Refused!Change(w, kind, item) => RefusedP!Change(w, kind, item)
        BY DEF Refused!Change, RefusedP!Change, Refused!Skipped, RefusedP!Skipped
    <2>2. ASSUME NEW w PROVE Refused!Step(w) => RefusedP!Step(w)
        <3>1. Refused!SendTask(w) \/ Refused!EnqueueFails(w) => RefusedP!SendTask(w) \/ RefusedP!EnqueueFails(w)
            BY DEF Refused!SendTask, RefusedP!SendTask, Refused!EnqueueFails,
                   RefusedP!EnqueueFails, Refused!Goto, RefusedP!Goto, Refused!AfterQueueing,
                   RefusedP!AfterQueueing
        <3>2. Refused!Zadd(w) \/ Refused!SetLock(w) => RefusedP!Zadd(w) \/ RefusedP!SetLock(w)
            BY DEF Refused!Zadd, RefusedP!Zadd, Refused!SetLock, RefusedP!SetLock, Refused!Goto,
                   RefusedP!Goto, Refused!AfterQueueing, RefusedP!AfterQueueing
        <3> QED
            BY <3>1, <3>2 DEF Refused!Step, RefusedP!Step, Refused!Commit, RefusedP!Commit, Refused!Rollback,
                   RefusedP!Rollback, Refused!End, RefusedP!End, Refused!Idle, RefusedP!Idle
    <2>3. Refused!Flushing \/ Refused!LockExpires \/ Refused!Toggle => RefusedP!Flushing \/ RefusedP!LockExpires \/ RefusedP!Toggle
        BY DEF Refused!Flushing, RefusedP!Flushing, Refused!FlushStart, RefusedP!FlushStart,
               Refused!FlushTake, RefusedP!FlushTake, Refused!FlushApply, RefusedP!FlushApply,
               Refused!NoFlush, RefusedP!NoFlush, Refused!LockExpires, RefusedP!LockExpires,
               Refused!Toggle, RefusedP!Toggle
    <2> QED
        BY <2>1, <2>2, <2>3 DEF Refused!Next, RefusedP!Next, Refused!Kind, RefusedP!Kind
<1>3. Bulk!Next => BulkP!Next
    <2>1. ASSUME NEW w, NEW kind, NEW item PROVE Bulk!Change(w, kind, item) => BulkP!Change(w, kind, item)
        BY DEF Bulk!Change, BulkP!Change, Bulk!Skipped, BulkP!Skipped
    <2>2. ASSUME NEW w PROVE Bulk!Step(w) => BulkP!Step(w)
        <3>1. Bulk!SendTask(w) \/ Bulk!EnqueueFails(w) => BulkP!SendTask(w) \/ BulkP!EnqueueFails(w)
            BY DEF Bulk!SendTask, BulkP!SendTask, Bulk!EnqueueFails, BulkP!EnqueueFails,
                   Bulk!Goto, BulkP!Goto, Bulk!AfterQueueing, BulkP!AfterQueueing
        <3>2. Bulk!Zadd(w) \/ Bulk!SetLock(w) => BulkP!Zadd(w) \/ BulkP!SetLock(w)
            BY DEF Bulk!Zadd, BulkP!Zadd, Bulk!SetLock, BulkP!SetLock, Bulk!Goto, BulkP!Goto,
                   Bulk!AfterQueueing, BulkP!AfterQueueing
        <3> QED
            BY <3>1, <3>2 DEF Bulk!Step, BulkP!Step, Bulk!Commit, BulkP!Commit, Bulk!Rollback,
                   BulkP!Rollback, Bulk!End, BulkP!End, Bulk!Idle, BulkP!Idle
    <2>3. Bulk!Flushing \/ Bulk!LockExpires \/ Bulk!Toggle => BulkP!Flushing \/ BulkP!LockExpires \/ BulkP!Toggle
        BY DEF Bulk!Flushing, BulkP!Flushing, Bulk!FlushStart, BulkP!FlushStart, Bulk!FlushTake,
               BulkP!FlushTake, Bulk!FlushApply, BulkP!FlushApply, Bulk!NoFlush, BulkP!NoFlush,
               Bulk!LockExpires, BulkP!LockExpires, Bulk!Toggle, BulkP!Toggle
    <2> QED
        BY <2>1, <2>2, <2>3 DEF Bulk!Next, BulkP!Next, Bulk!Kind, BulkP!Kind
<1>4. Queue!Init => QueueP!Init
    BY DEF Queue!Init, QueueP!Init, Queue!Idle, QueueP!Idle, Queue!NoFlush, QueueP!NoFlush
<1> QED
    BY <1>1, <1>2, <1>3, <1>4

LEMMA QueueInit == MCInit => QueueInv
<1> SUFFICES ASSUME MCInit PROVE QueueInv
    OBVIOUS
<1>1. Queue!Init /\ QueueP!NullIsNoVersion
    BY CostAssumption DEF MCInit, QueueP!NullIsNoVersion
<1>2. QueueP!Shape
    BY <1>1, SameSteps, QueueP!InitShape
<1>3. QueueP!Served
    BY <1>1 DEF Queue!Init, QueueP!Served, QueueP!NobodyWaitsInVain, QueueP!LockIsBacked
<1>4. RefusedP!NoDrafts
    BY <1>1 DEF Queue!Init, Queue!Idle, RefusedP!NoDrafts
<1>5. RefusedP!Sent
    BY <1>1 DEF Queue!Init, RefusedP!Sent
<1> QED
    BY <1>2, <1>3, <1>4, <1>5 DEF QueueInv

LEMMA QueueStep == ASSUME QueueInv, [MCNext]_<<scenario, vars, matrixVars>> PROVE QueueInv'
<1>1. QueueP!NullIsNoVersion /\ RefusedP!NullIsNoVersion /\ BulkP!NullIsNoVersion
    BY CostAssumption DEF QueueP!NullIsNoVersion, RefusedP!NullIsNoVersion, BulkP!NullIsNoVersion
<1>2. RefusedP!AfterCommit
    BY DEF RefusedP!AfterCommit
<1>3. scenario' = scenario
    BY DEF MCNext
<1>4. CASE UNCHANGED matrixVars
    <2>1. QueueP!Shape' /\ (QueueP!Served => QueueP!Served')
        BY <1>4 DEF QueueInv, matrixVars, QueueP!Shape, QueueP!StoreOK, QueueP!Versions, QueueP!Ahead,
            QueueP!Served, QueueP!NobodyWaitsInVain, QueueP!LockIsBacked
    <2>2. (RefusedP!NoDrafts => RefusedP!NoDrafts') /\ (RefusedP!Sent => RefusedP!Sent')
        BY <1>4 DEF matrixVars, RefusedP!NoDrafts, RefusedP!Sent, RefusedP!InHand
    <2> QED
        BY <1>3, <2>1, <2>2 DEF QueueInv
<1>5. CASE scenario = "queue" /\ Queue!Next
    <2>1. [QueueP!Next]_QueueP!vars /\ QueueP!Shape /\ QueueP!Served
        BY <1>5, SameSteps DEF QueueInv
    <2>2. QueueP!Shape'
        BY <1>1, <2>1, QueueP!NextShape
    <2>3. QueueP!Served'
        BY <2>1, QueueP!NextServed
    <2> QED
        BY <1>3, <1>5, <2>2, <2>3 DEF QueueInv
<1>6. CASE scenario = "refused" /\ Refused!Next
    <2>1. [RefusedP!Next]_RefusedP!vars /\ RefusedP!Shape /\ RefusedP!NoDrafts /\ RefusedP!Sent
        BY <1>6, SameShape, SameSteps DEF QueueInv
    <2>2. RefusedP!Shape'
        BY <1>1, <2>1, RefusedP!NextShape
    <2>3. RefusedP!NoDrafts' /\ RefusedP!Sent'
        BY <1>1, <1>2, <2>1, RefusedP!NextNoDrafts, RefusedP!NextSent
    <2>4. QueueP!Shape'
        BY <2>2, SameShapeAfter
    <2> QED
        BY <1>3, <1>6, <2>3, <2>4 DEF QueueInv
<1>7. CASE scenario = "bulk" /\ Bulk!Next
    <2>1. [BulkP!Next]_BulkP!vars /\ BulkP!Shape
        BY <1>7, SameShape, SameSteps DEF QueueInv
    <2>2. BulkP!Shape'
        BY <1>1, <2>1, BulkP!NextShape
    <2>3. QueueP!Shape'
        BY <2>2, SameShapeAfter
    <2> QED
        BY <1>3, <1>7, <2>3 DEF QueueInv
<1> QED
    BY <1>4, <1>5, <1>6, <1>7 DEF MCNext, MatrixStep

\* The queue of the read model with writers of every kind, also while the toggle is
\* switched, and with Redis and the broker refusing calls: as QueueIsNeverLeft and
\* SentIsMadeUp say of MatrixSync, in the scenarios that the run checks
\* (enqueue_price_sync, signals/dispatch.py:27-42).
THEOREM QueueIsServedAlways == MCSpec => []QueueIsServed
<1>1. QueueInv => QueueIsServed
    <2> SUFFICES ASSUME QueueInv PROVE QueueIsServed
        OBVIOUS
    <2>1. Queue!TypeOK
        BY DEF QueueInv, QueueP!Shape, Queue!TypeOK, QueueP!StoreOK, QueueP!ProcOK, QueueP!Versions
    <2>2. scenario = "queue" => Queue!NobodyWaitsInVain
        BY DEF QueueInv, QueueP!Served, Queue!NobodyWaitsInVain, QueueP!NobodyWaitsInVain
    <2>3. ASSUME RefusedP!Sent PROVE Refused!SentIsSynced
        BY <2>3 DEF RefusedP!Sent, Refused!SentIsSynced, RefusedP!InHand, Refused!Settled, Refused!NoFlush, Refused!Working
    <2> QED
        BY <2>1, <2>2, <2>3 DEF QueueInv, QueueIsServed
<1> QED
    BY <1>1, QueueInit, QueueStep, PTL DEF MCSpec


-----------------------------------------------------------------------------
(* The scenarios of MCSignals that are about costs *)

LEMMA SavedMoves == Saved!Next => \E c \in Conn : Moves(c, TRUE, FALSE)
<1>1. ASSUME NEW c, NEW pair PROVE Saved!Save(c, pair) => Save(c, pair)
    BY DEF Saved!Save, Save, Saved!InTransaction, InTransaction, Saved!Depth, Depth, Saved!Free,
           Free, Saved!Collected, Collected, Saved!AlreadyScheduled, AlreadyScheduled,
           Saved!Scheduled, Scheduled, Saved!Registered, Registered, Saved!Flush, Flush,
           Saved!Event, Event
<1>2. ASSUME NEW c, NEW pair PROVE Saved!SaveAutocommit(c, pair) => SaveAutocommit(c, pair)
    BY DEF Saved!SaveAutocommit, SaveAutocommit, Saved!Quiet, Quiet, Saved!Free, Free,
           Saved!Collected, Collected, Saved!AlreadyScheduled, AlreadyScheduled, Saved!Scheduled,
           Scheduled, Saved!Registered, Registered, Saved!Flush, Flush, Saved!Event, Event
<1>3. ASSUME NEW c, NEW pair PROVE ~Saved!Announce(c, pair)
    BY DEF Saved!Announce
<1>4. ASSUME NEW c PROVE Saved!FlushRead(c) => FlushRead(c)
    BY DEF Saved!FlushRead, FlushRead, Saved!Flush, Flush, Saved!Event, Event, Saved!NoWrites,
           NoWrites
<1>5. ASSUME NEW c PROVE Saved!FlushWrite(c) => FlushWrite(c)
    BY DEF Saved!FlushWrite, FlushWrite, Saved!Over, Over, Saved!NoWrites, NoWrites
<1>6. ASSUME NEW c PROVE ~Saved!FlushFail(c)
    BY DEF Saved!FlushFail
<1>7. ASSUME NEW c PROVE Saved!Apply(c) => Apply(c)
    BY DEF Saved!Apply, Apply, Saved!Free, Free, Saved!Collected, Collected,
           Saved!AlreadyScheduled, AlreadyScheduled, Saved!Scheduled, Scheduled, Saved!Registered,
           Registered, Saved!Flush, Flush, Saved!Event, Event
<1>8. ASSUME NEW c PROVE Saved!Begin(c) => Begin(c)
    BY DEF Saved!Begin, Begin, Saved!Quiet, Quiet, Saved!NewFrame, NewFrame, Saved!NoWrites,
           NoWrites
<1>9. ASSUME NEW c PROVE Saved!Savepoint(c) => Savepoint(c)
    BY DEF Saved!Savepoint, Savepoint, Saved!InTransaction, InTransaction, Saved!Depth, Depth,
           Saved!NewFrame, NewFrame, Saved!NoWrites, NoWrites
<1>10. ASSUME NEW c PROVE Saved!Release(c) => Release(c)
    BY DEF Saved!Release, Release, Saved!Depth, Depth, Saved!Last, Last, Saved!Front, Front,
           Saved!Over, Over
<1>11. ASSUME NEW c PROVE Saved!RollbackSavepoint(c) => RollbackSavepoint(c)
    BY DEF Saved!RollbackSavepoint, RollbackSavepoint, Saved!Depth, Depth, Saved!Front, Front
<1>12. ASSUME NEW c PROVE Saved!Rollback(c) => Rollback(c)
    BY DEF Saved!Rollback, Rollback, Saved!InTransaction, InTransaction
<1>13. ASSUME NEW c PROVE Saved!Commit(c) => Commit(c)
    <2>1. \A hooks, pair : Saved!Announced(hooks, pair) = Announced(hooks, pair)
        BY DEF Saved!Announced, Announced
    <2> QED
        BY <2>1 DEF Saved!Commit, Commit, Saved!Depth, Depth, Saved!Over, Over
<1> QED
    BY <1>1, <1>2, <1>3, <1>4, <1>5, <1>6, <1>7, <1>8, <1>9, <1>10, <1>11, <1>12, <1>13 DEF Saved!Next, Moves

LEMMA AnnouncedMoves == Announced1!Next => \E c \in Conn : Moves(c, FALSE, TRUE)
<1>1. ASSUME NEW c, NEW pair PROVE ~Announced1!Save(c, pair)
    BY DEF Announced1!Save
<1>2. ASSUME NEW c, NEW pair PROVE ~Announced1!SaveAutocommit(c, pair)
    BY DEF Announced1!SaveAutocommit
<1>3. ASSUME NEW c, NEW pair PROVE Announced1!Announce(c, pair) => Announce(c, pair)
    BY DEF Announced1!Announce, Announce, Announced1!InTransaction, InTransaction,
           Announced1!Depth, Depth, Announced1!Event, Event
<1>4. ASSUME NEW c PROVE Announced1!FlushRead(c) => FlushRead(c)
    BY DEF Announced1!FlushRead, FlushRead, Announced1!Flush, Flush, Announced1!Event, Event,
           Announced1!NoWrites, NoWrites
<1>5. ASSUME NEW c PROVE Announced1!FlushWrite(c) => FlushWrite(c)
    BY DEF Announced1!FlushWrite, FlushWrite, Announced1!Over, Over, Announced1!NoWrites, NoWrites
<1>6. ASSUME NEW c PROVE ~Announced1!FlushFail(c)
    BY DEF Announced1!FlushFail
<1>7. ASSUME NEW c PROVE Announced1!Apply(c) => Apply(c)
    BY DEF Announced1!Apply, Apply, Announced1!Free, Free, Announced1!Collected, Collected,
           Announced1!AlreadyScheduled, AlreadyScheduled, Announced1!Scheduled, Scheduled,
           Announced1!Registered, Registered, Announced1!Flush, Flush, Announced1!Event, Event
<1>8. ASSUME NEW c PROVE Announced1!Begin(c) => Begin(c)
    BY DEF Announced1!Begin, Begin, Announced1!Quiet, Quiet, Announced1!NewFrame, NewFrame,
           Announced1!NoWrites, NoWrites
<1>9. ASSUME NEW c PROVE Announced1!Savepoint(c) => Savepoint(c)
    BY DEF Announced1!Savepoint, Savepoint, Announced1!InTransaction, InTransaction,
           Announced1!Depth, Depth, Announced1!NewFrame, NewFrame, Announced1!NoWrites, NoWrites
<1>10. ASSUME NEW c PROVE Announced1!Release(c) => Release(c)
    BY DEF Announced1!Release, Release, Announced1!Depth, Depth, Announced1!Last, Last,
           Announced1!Front, Front, Announced1!Over, Over
<1>11. ASSUME NEW c PROVE Announced1!RollbackSavepoint(c) => RollbackSavepoint(c)
    BY DEF Announced1!RollbackSavepoint, RollbackSavepoint, Announced1!Depth, Depth,
           Announced1!Front, Front
<1>12. ASSUME NEW c PROVE Announced1!Rollback(c) => Rollback(c)
    BY DEF Announced1!Rollback, Rollback, Announced1!InTransaction, InTransaction
<1>13. ASSUME NEW c PROVE Announced1!Commit(c) => Commit(c)
    <2>1. \A hooks, pair : Announced1!Announced(hooks, pair) = Announced(hooks, pair)
        BY DEF Announced1!Announced, Announced
    <2> QED
        BY <2>1 DEF Announced1!Commit, Commit, Announced1!Depth, Depth, Announced1!Over, Over
<1> QED
    BY <1>1, <1>2, <1>3, <1>4, <1>5, <1>6, <1>7, <1>8, <1>9, <1>10, <1>11, <1>12, <1>13 DEF Announced1!Next, Moves

LEMMA OverlappingMoves == Overlapping!Next => \E c \in Conn : Moves(c, TRUE, FALSE) \/ FlushFail(c)
<1>1. ASSUME NEW c, NEW pair PROVE Overlapping!Save(c, pair) => Save(c, pair)
    BY DEF Overlapping!Save, Save, Overlapping!InTransaction, InTransaction, Overlapping!Depth,
           Depth, Overlapping!Free, Free, Overlapping!Collected, Collected,
           Overlapping!AlreadyScheduled, AlreadyScheduled, Overlapping!Scheduled, Scheduled,
           Overlapping!Registered, Registered, Overlapping!Flush, Flush, Overlapping!Event, Event
<1>2. ASSUME NEW c, NEW pair PROVE Overlapping!SaveAutocommit(c, pair) => SaveAutocommit(c, pair)
    BY DEF Overlapping!SaveAutocommit, SaveAutocommit, Overlapping!Quiet, Quiet, Overlapping!Free,
           Free, Overlapping!Collected, Collected, Overlapping!AlreadyScheduled, AlreadyScheduled,
           Overlapping!Scheduled, Scheduled, Overlapping!Registered, Registered,
           Overlapping!Flush, Flush, Overlapping!Event, Event
<1>3. ASSUME NEW c, NEW pair PROVE ~Overlapping!Announce(c, pair)
    BY DEF Overlapping!Announce
<1>4. ASSUME NEW c PROVE Overlapping!FlushRead(c) => FlushRead(c)
    BY DEF Overlapping!FlushRead, FlushRead, Overlapping!Flush, Flush, Overlapping!Event, Event,
           Overlapping!NoWrites, NoWrites
<1>5. ASSUME NEW c PROVE Overlapping!FlushWrite(c) => FlushWrite(c)
    BY DEF Overlapping!FlushWrite, FlushWrite, Overlapping!Over, Over, Overlapping!NoWrites,
           NoWrites
<1>6. ASSUME NEW c PROVE Overlapping!FlushFail(c) => FlushFail(c)
    BY DEF Overlapping!FlushFail, FlushFail, Overlapping!NoWrites, NoWrites
<1>7. ASSUME NEW c PROVE Overlapping!Apply(c) => Apply(c)
    BY DEF Overlapping!Apply, Apply, Overlapping!Free, Free, Overlapping!Collected, Collected,
           Overlapping!AlreadyScheduled, AlreadyScheduled, Overlapping!Scheduled, Scheduled,
           Overlapping!Registered, Registered, Overlapping!Flush, Flush, Overlapping!Event, Event
<1>8. ASSUME NEW c PROVE Overlapping!Begin(c) => Begin(c)
    BY DEF Overlapping!Begin, Begin, Overlapping!Quiet, Quiet, Overlapping!NewFrame, NewFrame,
           Overlapping!NoWrites, NoWrites
<1>9. ASSUME NEW c PROVE Overlapping!Savepoint(c) => Savepoint(c)
    BY DEF Overlapping!Savepoint, Savepoint, Overlapping!InTransaction, InTransaction,
           Overlapping!Depth, Depth, Overlapping!NewFrame, NewFrame, Overlapping!NoWrites,
           NoWrites
<1>10. ASSUME NEW c PROVE Overlapping!Release(c) => Release(c)
    BY DEF Overlapping!Release, Release, Overlapping!Depth, Depth, Overlapping!Last, Last,
           Overlapping!Front, Front, Overlapping!Over, Over
<1>11. ASSUME NEW c PROVE Overlapping!RollbackSavepoint(c) => RollbackSavepoint(c)
    BY DEF Overlapping!RollbackSavepoint, RollbackSavepoint, Overlapping!Depth, Depth,
           Overlapping!Front, Front
<1>12. ASSUME NEW c PROVE Overlapping!Rollback(c) => Rollback(c)
    BY DEF Overlapping!Rollback, Rollback, Overlapping!InTransaction, InTransaction
<1>13. ASSUME NEW c PROVE Overlapping!Commit(c) => Commit(c)
    <2>1. \A hooks, pair : Overlapping!Announced(hooks, pair) = Announced(hooks, pair)
        BY DEF Overlapping!Announced, Announced
    <2> QED
        BY <2>1 DEF Overlapping!Commit, Commit, Overlapping!Depth, Depth, Overlapping!Over, Over
<1> QED
    BY <1>1, <1>2, <1>3, <1>4, <1>5, <1>6, <1>7, <1>8, <1>9, <1>10, <1>11, <1>12, <1>13 DEF Overlapping!Next, Moves


LEMMA MovesAreNext == \A c \in Conn : \A saves, stream : Moves(c, saves, stream) \/ FlushFail(c) => Next
    BY DEF Moves, Next

\* A connection without a transaction and without callbacks does not move and stay so.
LEMMA QuietStirs ==
    ASSUME IInv, NEW c \in Conn, NEW saves, NEW stream, Quiet(c), Moves(c, saves, stream) \/ FlushFail(c)
    PROVE  ~Quiet(c)'
<1>0. /\ stack[c] = <<>> /\ running[c] = <<>> /\ seen[c] = NoWrites
      /\ \A x : [running EXCEPT ![c] = x][c] = x /\ [stack EXCEPT ![c] = x][c] = x
    BY DEF Quiet, IInv, Types, Reading
<1>1. ~FlushRead(c) /\ ~FlushWrite(c) /\ ~FlushFail(c) /\ ~Apply(c)
    BY <1>0 DEF FlushRead, FlushWrite, FlushFail, Apply
<1>2. ~Savepoint(c) /\ ~Release(c) /\ ~RollbackSavepoint(c) /\ ~Rollback(c) /\ ~Commit(c)
    BY <1>0 DEF Savepoint, Release, RollbackSavepoint, Rollback, Commit, InTransaction, Depth
<1>3. ASSUME NEW pair \in Pair, Save(c, pair) \/ SaveAutocommit(c, pair) \/ Announce(c, pair)
      PROVE  running'[c] # <<>>
    <2>1. ~Save(c, pair)
        BY <1>0 DEF Save, InTransaction
    <2>2. PICK x : running' = [running EXCEPT ![c] = <<x>>]
        BY <1>0, <1>3, <2>1 DEF SaveAutocommit, Announce, InTransaction
    <2>3. running'[c] = <<x>>
        BY <1>0, <2>2
    <2> QED
        BY <2>3
<1>4. ASSUME Begin(c) PROVE stack'[c] # <<>>
    <2>1. stack'[c] = <<NewFrame>>
        BY <1>0, <1>4 DEF Begin
    <2> QED
        BY <2>1
<1> QED
    BY <1>1, <1>2, <1>3, <1>4 DEF Moves, Quiet

\* Where no cost is announced, none is offered.
LEMMA NothingOffered ==
    ASSUME IInv, Stored, NEW c \in Conn, KindsOf(c, TRUE, FALSE), offered = NoWrites,
           Moves(c, TRUE, FALSE) \/ FlushFail(c)
    PROVE  offered' = NoWrites
<1>1. ASSUME Commit(c) PROVE offered' = NoWrites
    <2> DEFINE hooks == stack[c][1].hooks
    <2>1. DOMAIN stack[c] = {1} /\ hooks \in Seq(Hook)
        <3>1. stack[c] \in Seq(Frame) /\ Len(stack[c]) = 1
            BY <1>1 DEF Commit, Depth, IInv, Types
        <3>2. DOMAIN stack[c] = {1} /\ stack[c][1] \in Frame
            BY <3>1
        <3> QED
            BY <3>2 DEF Frame
    <2>2. \A i \in DOMAIN hooks : HookedIn(stack[c], hooks[i])
        BY <2>1 DEF HookedIn, Registered
    <2> HIDE DEF hooks
    <2>3. \A i \in DOMAIN hooks : hooks[i] = Flush
        BY <2>2, Zenon DEF KindsOf
    <2>4. ASSUME NEW pair \in Pair PROVE Announced(hooks, pair) = Null
        <3>1. \A i : ~LastOf(hooks, pair, i)
            BY <2>3, HookTypes DEF LastOf
        <3> QED
            BY <2>1, <3>1, AnnouncedByLast
    <2>5. offered' = Over(offered, [pair \in Pair |-> Announced(hooks, pair)])
        BY <1>1 DEF Commit, hooks
    <2> QED
        BY <2>4, <2>5 DEF Over, NoWrites
<1>2. ASSUME ~Commit(c) PROVE offered' = offered
    <2>1. ASSUME Begin(c) \/ Savepoint(c) \/ Release(c) \/ RollbackSavepoint(c) \/ Rollback(c)
          PROVE  offered' = offered
        BY <2>1, TransactionWithin DEF IInv
    <2> QED
        BY <1>2, <2>1 DEF Moves, Save, SaveAutocommit, FlushRead, FlushWrite, FlushFail, Apply
<1> QED
    BY <1>1, <1>2

\* The connection that moves where the others stay quiet.
First == CHOOSE c \in Conn : TRUE
NoCosts == cost = NoWrites /\ price = NoWrites /\ offered = NoWrites

CostInv ==
    /\ IInv /\ Stored /\ Single
    /\ scenario \in {"saves", "overlap"} =>
        offered = NoWrites /\ \A c \in Conn : KindsOf(c, TRUE, FALSE)
    /\ scenario = "stream" => KindsOf(First, FALSE, TRUE) /\ Projected(First)
    /\ scenario \in {"saves", "stream"} =>
        Following(First) /\ \A c \in Conn \ {First} : Quiet(c)
    /\ scenario \notin {"saves", "stream", "overlap"} => NoCosts

LEMMA CostsInit == ASSUME Conn # {}, MCInit PROVE CostInv
<1>1. First \in Conn /\ Init
    BY DEF First, MCInit
<1>2. IInv /\ Stored /\ Single
    BY <1>1, InitIsInductive, StoredInit, SingleInit
<1>3. Following(First) /\ NoCosts /\ (\A c \in Conn : Quiet(c))
    BY <1>1 DEF Init, Following, NoCosts, NoWrites, Quiet
<1>4. Projected(First)
    BY <1>1, CostAssumption DEF Init, Projected, NoWrites
<1>5. ASSUME NEW c \in Conn PROVE KindsOf(c, TRUE, FALSE) /\ KindsOf(c, FALSE, TRUE)
    <2>1. \A hook : ~HookedIn(stack[c], hook)
        BY <1>1 DEF Init, HookedIn
    <2> QED
        BY <2>1, Zenon DEF KindsOf
<1> QED
    BY <1>1, <1>2, <1>3, <1>4, <1>5 DEF CostInv, NoCosts

LEMMA CostsStep ==
    ASSUME Conn # {}, scenario # "mixed", CostInv, [MCNext]_<<scenario, vars, matrixVars>>
    PROVE  CostInv'
<1>0. First \in Conn /\ scenario' = scenario /\ IInv /\ Stored /\ Single
    BY DEF First, MCNext, CostInv
<1>1. [Next]_vars => IInv' /\ Stored' /\ Single'
    BY <1>0, StepKeeps, StoredStep, SingleStep
<1>2. ASSUME NEW c \in Conn, Alone, \A o \in Conn \ {First} : Quiet(o),
             NEW saves, NEW stream, Moves(c, saves, stream)
      PROVE  c = First /\ \A o \in Conn \ {First} : Quiet(o)'
    <2>1. \A o \in Conn \ {First} : Quiet(o)'
        BY <1>2 DEF Alone, First
    <2> QED
        BY <1>0, <1>2, <2>1, QuietStirs
<1>3. CASE scenario = "saves" /\ Saved!Next /\ Alone
    <2>1. PICK c \in Conn : Moves(c, TRUE, FALSE)
        BY <1>3, SavedMoves
    <2>2. (\A o \in Conn \ {First} : Quiet(o)) /\ offered = NoWrites /\ Following(First)
          /\ \A o \in Conn : KindsOf(o, TRUE, FALSE)
        BY <1>3 DEF CostInv
    <2>3. c = First /\ \A o \in Conn \ {First} : Quiet(o)'
        BY <1>2, <1>3, <2>1, <2>2
    <2>4. \A o \in Conn : KindsOf(o, TRUE, FALSE)'
        BY <1>0, <2>1, <2>2, KindsStep DEF IInv
    <2>5. offered' = NoWrites
        BY <1>0, <2>1, <2>2, NothingOffered
    <2>6. Following(First)'
        BY <1>0, <2>1, <2>2, <2>3, FollowingStep
    <2>7. IInv' /\ Stored' /\ Single'
        BY <1>1, <2>1, MovesAreNext
    <2> QED
        BY <1>0, <1>3, <2>3, <2>4, <2>5, <2>6, <2>7 DEF CostInv
<1>4. CASE scenario = "stream" /\ Announced1!Next /\ Alone
    <2>1. PICK c \in Conn : Moves(c, FALSE, TRUE)
        BY <1>4, AnnouncedMoves
    <2>2. (\A o \in Conn \ {First} : Quiet(o)) /\ Following(First) /\ Projected(First)
          /\ KindsOf(First, FALSE, TRUE)
        BY <1>4 DEF CostInv
    <2>3. c = First /\ \A o \in Conn \ {First} : Quiet(o)'
        BY <1>2, <1>4, <2>1, <2>2
    <2>4. KindsOf(First, FALSE, TRUE)'
        BY <1>0, <2>1, <2>2, KindsStep DEF IInv
    <2>5. Following(First)'
        BY <1>0, <2>1, <2>2, <2>3, FollowingStep
    <2>6. Projected(First)'
        BY <1>0, <2>1, <2>2, <2>3, ProjectedStep
    <2>7. IInv' /\ Stored' /\ Single'
        BY <1>1, <2>1, MovesAreNext
    <2> QED
        BY <1>0, <1>4, <2>3, <2>4, <2>5, <2>6, <2>7 DEF CostInv
<1>5. CASE scenario = "overlap" /\ Overlapping!Next
    <2>1. PICK c \in Conn : Moves(c, TRUE, FALSE) \/ FlushFail(c)
        BY <1>5, OverlappingMoves
    <2>2. offered = NoWrites /\ \A o \in Conn : KindsOf(o, TRUE, FALSE)
        BY <1>5 DEF CostInv
    <2>3. \A o \in Conn : KindsOf(o, TRUE, FALSE)'
        BY <1>0, <2>1, <2>2, KindsStep DEF IInv
    <2>4. offered' = NoWrites
        BY <1>0, <2>1, <2>2, NothingOffered
    <2>5. IInv' /\ Stored' /\ Single'
        BY <1>1, <2>1, MovesAreNext
    <2> QED
        BY <1>0, <1>5, <2>3, <2>4, <2>5 DEF CostInv
<1>6. CASE UNCHANGED vars
    <2>1. IInv' /\ Stored' /\ Single'
        BY <1>1, <1>6
    <2>2. ASSUME scenario \in {"saves", "overlap"}
          PROVE  offered' = NoWrites /\ \A c \in Conn : KindsOf(c, TRUE, FALSE)'
        BY <1>6, <2>2 DEF CostInv, vars, KindsOf, HookedIn
    <2>3. ASSUME scenario = "stream" PROVE KindsOf(First, FALSE, TRUE)' /\ Projected(First)'
        BY <1>6, <2>3 DEF CostInv, vars, KindsOf, HookedIn, Projected
    <2>4. ASSUME scenario \in {"saves", "stream"}
          PROVE  Following(First)' /\ \A c \in Conn \ {First} : Quiet(c)'
        BY <1>6, <2>4 DEF CostInv, vars, Following, Waiting, Quiet
    <2>5. ASSUME scenario \notin {"saves", "stream", "overlap"} PROVE NoCosts'
        BY <1>6, <2>5 DEF CostInv, vars, NoCosts
    <2> QED
        BY <1>0, <2>1, <2>2, <2>3, <2>4, <2>5 DEF CostInv
<1> QED
    BY <1>3, <1>4, <1>5, <1>6 DEF MCNext, CostStep

\* Of connections that do not overlap, and for any number of them, pairs and costs, of
\* nested savepoints released and rolled back: a cost that was saved and committed is
\* recalculated; one that was announced and committed is applied, the last one last.
\* Where savings and the stream meet on one connection this fails: see cost_mixed.
THEOREM CostsArriveInOrderAlways ==
    ASSUME Conn # {}, "mixed" \notin Scenarios
    PROVE  MCSpec => []CostsArriveInOrder
<1>1. CostInv => CostsArriveInOrder
    <2> SUFFICES ASSUME CostInv PROVE CostsArriveInOrder
        OBVIOUS
    <2>0. First \in Conn /\ IInv /\ Stored /\ Single
        <3>1. First \in Conn
            BY DEF First
        <3> QED
            BY <3>1 DEF CostInv
    <2>1. TypeOK
        BY <2>0 DEF IInv, Types, Stored, Costs, Single, OneFlush, Outside, Reading, TypeOK
    <2>2. offered = NoWrites => StreamIsProjected
        BY CostAssumption DEF StreamIsProjected, NoWrites
    <2>3. StreamIsProjected
        BY <2>0, <2>2, ProjectedIsLast DEF CostInv, NoCosts
    <2>4. scenario # "overlap" => CostsArePriced
        BY <2>0, FollowingIsPriced DEF CostInv, NoCosts, CostsArePriced
    <2> QED
        BY <2>1, <2>3, <2>4 DEF CostsArriveInOrder
<1>2. MCInit => CostInv /\ scenario \in Scenarios
    BY CostsInit DEF MCInit
<1>3. CostInv /\ scenario \in Scenarios /\ [MCNext]_<<scenario, vars, matrixVars>>
      => (CostInv /\ scenario \in Scenarios)'
    BY CostsStep DEF MCNext
<1> QED
    BY <1>1, <1>2, <1>3, PTL DEF MCSpec
=============================================================================

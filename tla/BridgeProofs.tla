---------------------------- MODULE BridgeProofs ----------------------------
(***************************************************************************)
(* For any number of clients: the state shown follows the state of the     *)
(* server, clients that are left alone agree with it, what was asked for   *)
(* last stands, and handling a callback once more does no harm.            *)
(***************************************************************************)
EXTENDS MCBridge, SequenceTheorems, TLAPS

-----------------------------------------------------------------------------
(* The messages.                                                           *)

LEMMA Callbacks ==
  /\ \A s \in AdepoState : ChangedState(s) \in Callback
  /\ \A r \in Run : ChangedRun(r) \in Callback
  /\ ChangedConfiguration \in Callback
BY DEF Callback

LEMMA Calls ==
  /\ \A r \in Run : Update(r) \in Call
  /\ \A op \in {"start", "stop", "updateAll"} : Simple(op) \in Call
BY DEF Call

LEMMA CallbackCases ==
  ASSUME NEW m \in Callback
  PROVE  \/ m.op = "changedState" /\ m.state \in AdepoState /\ m = ChangedState(m.state)
         \/ m.op = "changedRun" /\ m.run \in Run
         \/ m.op = "changedConfiguration"
BY DEF Callback, ChangedState, ChangedRun, ChangedConfiguration

LEMMA CallCases ==
  ASSUME NEW c \in Call
  PROVE  \/ c.op = "updateRun" /\ c.run \in Run
         \/ c.op \in {"start", "stop", "updateAll"}
BY DEF Call, Update, Simple

-----------------------------------------------------------------------------
(* Which members of a set are among the messages under way, and in which   *)
(* order.                                                                  *)

None(d, K) == \A i \in DOMAIN d : d[i] \notin K

(* The last of d in K is in G.                                             *)
LastIn(d, K, G) ==
  \E i \in DOMAIN d : d[i] \in G /\ \A j \in DOMAIN d : d[j] \in K => j <= i

(* What of d is in K comes before, or after, something in L.               *)
Followed(d, K, L) ==
  \A i \in DOMAIN d : d[i] \in K => \E j \in DOMAIN d : i < j /\ d[j] \in L

Preceded(d, K, L) ==
  \A i \in DOMAIN d : d[i] \in K => \E j \in DOMAIN d : j < i /\ d[j] \in L

LEMMA Concatenated ==
  ASSUME NEW S, NEW d \in Seq(S), NEW c \in Seq(S)
  PROVE  /\ d \o c \in Seq(S)
         /\ Len(d) \in Nat /\ Len(c) \in Nat
         /\ DOMAIN d = 1 .. Len(d) /\ DOMAIN c = 1 .. Len(c)
         /\ DOMAIN (d \o c) = 1 .. Len(d) + Len(c)
         /\ \A i \in DOMAIN d : i \in DOMAIN (d \o c) /\ (d \o c)[i] = d[i]
         /\ \A i \in DOMAIN c : Len(d) + i \in DOMAIN (d \o c) /\ (d \o c)[Len(d) + i] = c[i]
         /\ \A i \in DOMAIN (d \o c) : i \in DOMAIN d \/ i - Len(d) \in DOMAIN c
OBVIOUS

LEMMA Tailed ==
  ASSUME NEW S, NEW d \in Seq(S), d # <<>>
  PROVE  /\ Tail(d) \in Seq(S) /\ Head(d) \in S /\ Head(d) = d[1]
         /\ Len(d) \in Nat /\ DOMAIN d = 1 .. Len(d) /\ 1 \in DOMAIN d
         /\ \A i \in DOMAIN Tail(d) : i \in Nat /\ i + 1 \in DOMAIN d /\ Tail(d)[i] = d[i + 1]
         /\ \A i \in DOMAIN d \ {1} : i \in Nat /\ i - 1 \in DOMAIN Tail(d)
                                        /\ Tail(d)[i - 1] = d[i]
OBVIOUS

LEMMA NoneConcat ==
  ASSUME NEW S, NEW d \in Seq(S), NEW c \in Seq(S), NEW K
  PROVE  None(d \o c, K) <=> None(d, K) /\ None(c, K)
<1> DEFINE e == d \o c
<1>1. /\ Len(d) \in Nat
      /\ DOMAIN d = 1 .. Len(d) /\ DOMAIN c = 1 .. Len(c) /\ Len(c) \in Nat
      /\ DOMAIN e = 1 .. Len(d) + Len(c)
      /\ \A i \in DOMAIN d : i \in DOMAIN e /\ e[i] = d[i]
      /\ \A i \in DOMAIN c : Len(d) + i \in DOMAIN e /\ e[Len(d) + i] = c[i]
      /\ \A i \in DOMAIN e : i \in DOMAIN d \/ i - Len(d) \in DOMAIN c
  BY Concatenated
<1> HIDE DEF e
<1>2. ASSUME None(e, K) PROVE None(d, K) /\ None(c, K)
  BY <1>1, <1>2 DEF None
<1>3. ASSUME None(d, K), None(c, K), NEW i \in DOMAIN e PROVE e[i] \notin K
  <2>1. CASE i \in DOMAIN d
    BY <1>1, <1>3, <2>1 DEF None
  <2>2. CASE i - Len(d) \in DOMAIN c
    <3>1. Len(d) + (i - Len(d)) = i
      BY <1>1
    <3> QED
      BY <1>1, <1>3, <2>2, <3>1 DEF None
  <2> QED
    BY <1>1, <2>1, <2>2
<1>4. None(d, K) /\ None(c, K) => None(e, K)
  BY <1>3 DEF None
<1> QED
  BY <1>2, <1>4 DEF e

LEMMA NoneTail ==
  ASSUME NEW S, NEW d \in Seq(S), d # <<>>, NEW K
  PROVE  None(d, K) <=> Head(d) \notin K /\ None(Tail(d), K)
<1>1. None(d, K) => Head(d) \notin K /\ None(Tail(d), K)
  BY Tailed DEF None
<1>2. ASSUME Head(d) \notin K, None(Tail(d), K), NEW i \in DOMAIN d PROVE d[i] \notin K
  <2>1. CASE i = 1
    BY <1>2, <2>1, Tailed
  <2>2. CASE i # 1
    BY <1>2, <2>2, Tailed DEF None
  <2> QED
    BY <2>1, <2>2
<1> QED
  BY <1>1, <1>2 DEF None

LEMMA LastAdded ==
  ASSUME NEW S, NEW d \in Seq(S), NEW c \in Seq(S), NEW K, NEW G
  PROVE  /\ LastIn(c, K, G) => LastIn(d \o c, K, G)
         /\ LastIn(d, K, G) /\ None(c, K) => LastIn(d \o c, K, G)
<1> DEFINE e == d \o c
<1>1. /\ Len(d) \in Nat
      /\ DOMAIN d = 1 .. Len(d) /\ DOMAIN c = 1 .. Len(c) /\ Len(c) \in Nat
      /\ DOMAIN e = 1 .. Len(d) + Len(c)
      /\ \A i \in DOMAIN d : i \in DOMAIN e /\ e[i] = d[i]
      /\ \A i \in DOMAIN c : Len(d) + i \in DOMAIN e /\ e[Len(d) + i] = c[i]
      /\ \A i \in DOMAIN e : i \in DOMAIN d \/ i - Len(d) \in DOMAIN c
  BY Concatenated
<1> HIDE DEF e
<1>2. \A i \in DOMAIN e \ DOMAIN d : e[i] = c[i - Len(d)]
  <2> TAKE i \in DOMAIN e \ DOMAIN d
  <2>1. i - Len(d) \in DOMAIN c /\ Len(d) + (i - Len(d)) = i
    BY <1>1
  <2> QED
    BY <1>1, <2>1
<1>3. ASSUME LastIn(c, K, G) PROVE LastIn(e, K, G)
  <2>1. PICK i \in DOMAIN c : c[i] \in G /\ \A j \in DOMAIN c : c[j] \in K => j <= i
    BY <1>3 DEF LastIn
  <2>2. Len(d) + i \in DOMAIN e /\ e[Len(d) + i] \in G
    BY <1>1, <2>1
  <2>3. ASSUME NEW j \in DOMAIN e, e[j] \in K PROVE j <= Len(d) + i
    <3>1. CASE j \in DOMAIN d
      BY <1>1, <3>1
    <3>2. CASE j \notin DOMAIN d
      <4>1. j - Len(d) \in DOMAIN c /\ c[j - Len(d)] \in K
        BY <1>1, <1>2, <2>3, <3>2
      <4>2. j - Len(d) <= i
        BY <2>1, <4>1
      <4> QED
        BY <1>1, <4>2
    <3> QED
      BY <3>1, <3>2
  <2> QED
    BY <2>2, <2>3 DEF LastIn
<1>4. ASSUME LastIn(d, K, G), None(c, K) PROVE LastIn(e, K, G)
  <2>1. PICK i \in DOMAIN d : d[i] \in G /\ \A j \in DOMAIN d : d[j] \in K => j <= i
    BY <1>4 DEF LastIn
  <2>2. i \in DOMAIN e /\ e[i] \in G
    BY <1>1, <2>1
  <2>3. ASSUME NEW j \in DOMAIN e, e[j] \in K PROVE j <= i
    <3>1. j \in DOMAIN d
      <4>1. CASE j \notin DOMAIN d
        BY <1>1, <1>2, <1>4, <2>3, <4>1 DEF None
      <4> QED
        BY <4>1
    <3> QED
      BY <1>1, <2>1, <2>3, <3>1
  <2> QED
    BY <2>2, <2>3 DEF LastIn
<1> QED
  BY <1>3, <1>4 DEF e

LEMMA LastTail ==
  ASSUME NEW S, NEW d \in Seq(S), d # <<>>, NEW K, NEW G, G \subseteq K, LastIn(d, K, G)
  PROVE  \/ LastIn(Tail(d), K, G)
         \/ Head(d) \in G /\ None(Tail(d), K)
<1>1. PICK i \in DOMAIN d : d[i] \in G /\ \A j \in DOMAIN d : d[j] \in K => j <= i
  BY DEF LastIn
<1>2. CASE i = 1
  <2>1. \A j \in DOMAIN Tail(d) : Tail(d)[j] \notin K
    <3> TAKE j \in DOMAIN Tail(d)
    <3>1. j \in Nat /\ j + 1 \in DOMAIN d /\ Tail(d)[j] = d[j + 1] /\ (j + 1 <= 1 => j = 0)
      BY Tailed
    <3>2. j # 0
      BY Tailed
    <3> QED
      BY <1>1, <1>2, <3>1, <3>2
  <2> QED
    BY <1>1, <1>2, <2>1, Tailed DEF None
<1>3. CASE i # 1
  <2>1. i - 1 \in DOMAIN Tail(d) /\ Tail(d)[i - 1] \in G /\ i \in Nat
    BY <1>1, <1>3, Tailed
  <2>2. ASSUME NEW j \in DOMAIN Tail(d), Tail(d)[j] \in K PROVE j <= i - 1
    <3>1. j \in Nat /\ j + 1 \in DOMAIN d /\ d[j + 1] \in K
      BY <2>2, Tailed
    <3>2. j + 1 <= i
      BY <1>1, <3>1
    <3> QED
      BY <2>1, <3>1, <3>2
  <2> QED
    BY <2>1, <2>2 DEF LastIn
<1> QED
  BY <1>2, <1>3

LEMMA OrderConcat ==
  ASSUME NEW S, NEW d \in Seq(S), NEW c \in Seq(S), NEW K, NEW L
  PROVE  /\ Followed(d, K, L) /\ Followed(c, K, L) => Followed(d \o c, K, L)
         /\ Preceded(d, K, L) /\ Preceded(c, K, L) => Preceded(d \o c, K, L)
<1> DEFINE e == d \o c
<1>1. /\ Len(d) \in Nat
      /\ DOMAIN d = 1 .. Len(d) /\ DOMAIN c = 1 .. Len(c) /\ Len(c) \in Nat
      /\ DOMAIN e = 1 .. Len(d) + Len(c)
      /\ \A i \in DOMAIN d : i \in DOMAIN e /\ e[i] = d[i]
      /\ \A i \in DOMAIN c : Len(d) + i \in DOMAIN e /\ e[Len(d) + i] = c[i]
      /\ \A i \in DOMAIN e : i \in DOMAIN d \/ i - Len(d) \in DOMAIN c
  BY Concatenated
<1> HIDE DEF e
<1>2. \A i \in DOMAIN e \ DOMAIN d : i - Len(d) \in DOMAIN c /\ e[i] = c[i - Len(d)]
  <2> TAKE i \in DOMAIN e \ DOMAIN d
  <2>1. i - Len(d) \in DOMAIN c /\ Len(d) + (i - Len(d)) = i
    BY <1>1
  <2> QED
    BY <1>1, <2>1
<1>3. ASSUME Followed(d, K, L), Followed(c, K, L) PROVE Followed(e, K, L)
  <2> SUFFICES ASSUME NEW i \in DOMAIN e, e[i] \in K
               PROVE  \E j \in DOMAIN e : i < j /\ e[j] \in L
    BY DEF Followed
  <2>1. CASE i \in DOMAIN d
    <3>1. PICK j \in DOMAIN d : i < j /\ d[j] \in L
      BY <1>1, <1>3, <2>1 DEF Followed
    <3> QED
      BY <1>1, <3>1
  <2>2. CASE i \notin DOMAIN d
    <3>1. PICK j \in DOMAIN c : i - Len(d) < j /\ c[j] \in L
      BY <1>2, <1>3, <2>2 DEF Followed
    <3>2. Len(d) + j \in DOMAIN e /\ e[Len(d) + j] \in L
      BY <1>1, <3>1
    <3>3. i < Len(d) + j
      BY <1>1, <3>1
    <3> QED
      BY <3>2, <3>3
  <2> QED
    BY <2>1, <2>2
<1>4. ASSUME Preceded(d, K, L), Preceded(c, K, L) PROVE Preceded(e, K, L)
  <2> SUFFICES ASSUME NEW i \in DOMAIN e, e[i] \in K
               PROVE  \E j \in DOMAIN e : j < i /\ e[j] \in L
    BY DEF Preceded
  <2>1. CASE i \in DOMAIN d
    <3>1. PICK j \in DOMAIN d : j < i /\ d[j] \in L
      BY <1>1, <1>4, <2>1 DEF Preceded
    <3> QED
      BY <1>1, <3>1
  <2>2. CASE i \notin DOMAIN d
    <3>1. PICK j \in DOMAIN c : j < i - Len(d) /\ c[j] \in L
      BY <1>2, <1>4, <2>2 DEF Preceded
    <3>2. Len(d) + j \in DOMAIN e /\ e[Len(d) + j] \in L
      BY <1>1, <3>1
    <3>3. Len(d) + j < i
      BY <1>1, <3>1
    <3> QED
      BY <3>2, <3>3
  <2> QED
    BY <2>1, <2>2
<1> QED
  BY <1>3, <1>4 DEF e

LEMMA OrderTail ==
  ASSUME NEW S, NEW d \in Seq(S), d # <<>>, NEW K, NEW L
  PROVE  /\ Followed(d, K, L) => Followed(Tail(d), K, L)
         /\ Followed(d, K, L) /\ Head(d) \in K => ~None(Tail(d), L)
         /\ Preceded(d, K, L) => Head(d) \notin K
         /\ Preceded(d, K, L) /\ Head(d) \notin L => Preceded(Tail(d), K, L)
<1>1. ASSUME Followed(d, K, L), NEW i \in DOMAIN d, d[i] \in K
      PROVE  \E j \in DOMAIN Tail(d) : i < j + 1 /\ Tail(d)[j] \in L
  <2>1. PICK j \in DOMAIN d : i < j /\ d[j] \in L
    BY <1>1 DEF Followed
  <2>2. i \in Nat /\ i >= 1 /\ j # 1
    BY <2>1, Tailed
  <2>3. j \in Nat /\ j - 1 \in DOMAIN Tail(d) /\ Tail(d)[j - 1] \in L
    BY <2>1, <2>2, Tailed
  <2>4. (j - 1) + 1 = j
    BY <2>3
  <2> QED
    BY <2>1, <2>3, <2>4
<1>2. ASSUME Followed(d, K, L) PROVE Followed(Tail(d), K, L)
  <2> SUFFICES ASSUME NEW i \in DOMAIN Tail(d), Tail(d)[i] \in K
               PROVE  \E j \in DOMAIN Tail(d) : i < j /\ Tail(d)[j] \in L
    BY DEF Followed
  <2>1. i \in Nat /\ i + 1 \in DOMAIN d /\ d[i + 1] \in K
    BY Tailed
  <2>2. PICK j \in DOMAIN Tail(d) : i + 1 < j + 1 /\ Tail(d)[j] \in L
    BY <1>1, <1>2, <2>1
  <2>3. j \in Nat
    BY Tailed
  <2>4. i < j
    BY <2>1, <2>2, <2>3, SMT
  <2> QED
    BY <2>2, <2>4
<1>3. ASSUME Followed(d, K, L), Head(d) \in K PROVE ~None(Tail(d), L)
  <2>1. 1 \in DOMAIN d /\ d[1] \in K
    BY <1>3, Tailed
  <2> QED
    BY <1>1, <1>3, <2>1 DEF None
<1>4. ASSUME Preceded(d, K, L) PROVE Head(d) \notin K
  <2>1. 1 \in DOMAIN d /\ ~(\E j \in DOMAIN d : j < 1) /\ Head(d) = d[1]
    BY Tailed
  <2> QED
    BY <1>4, <2>1 DEF Preceded
<1>5. ASSUME Preceded(d, K, L), Head(d) \notin L PROVE Preceded(Tail(d), K, L)
  <2> SUFFICES ASSUME NEW i \in DOMAIN Tail(d), Tail(d)[i] \in K
               PROVE  \E j \in DOMAIN Tail(d) : j < i /\ Tail(d)[j] \in L
    BY DEF Preceded
  <2>1. i \in Nat /\ i + 1 \in DOMAIN d /\ d[i + 1] \in K
    BY Tailed
  <2>2. PICK j \in DOMAIN d : j < i + 1 /\ d[j] \in L
    BY <1>5, <2>1 DEF Preceded
  <2>3. j # 1
    BY <1>5, <2>2, Tailed
  <2>4. j \in Nat /\ j - 1 \in DOMAIN Tail(d) /\ Tail(d)[j - 1] \in L
    BY <2>2, <2>3, Tailed
  <2>5. j - 1 < i
    BY <2>1, <2>2, <2>4
  <2> QED
    BY <2>4, <2>5
<1> QED
  BY <1>2, <1>3, <1>4, <1>5
-----------------------------------------------------------------------------
(* The messages by kind.                                                   *)

States == {ChangedState(s) : s \in AdepoState}
Runs == {ChangedRun(r) : r \in Run}
Configurations == {ChangedConfiguration}

Updates == {Update(r) : r \in Run}
Asks == {Simple("updateAll")}
Stops == {Simple("stop")}

LEMMA CallbackKinds ==
  ASSUME NEW m \in Callback
  PROVE  /\ m \in States <=> m.op = "changedState"
         /\ m \in Runs <=> m.op = "changedRun"
         /\ m \in Configurations <=> m.op = "changedConfiguration"
<1>1. CASE m \in States
  BY <1>1 DEF States, Runs, Configurations, ChangedState, ChangedRun, ChangedConfiguration
<1>2. CASE m \in Runs
  BY <1>2 DEF States, Runs, Configurations, ChangedState, ChangedRun, ChangedConfiguration
<1>3. CASE m \in Configurations
  BY <1>3 DEF States, Runs, Configurations, ChangedState, ChangedRun, ChangedConfiguration
<1> QED
  BY <1>1, <1>2, <1>3 DEF Callback, States, Runs, Configurations

LEMMA CallKinds ==
  ASSUME NEW c \in Call
  PROVE  /\ c \in Updates <=> c.op = "updateRun"
         /\ c \in Asks <=> c.op = "updateAll"
         /\ c \in Stops <=> c.op = "stop"
         /\ c \in Updates <=> c.op = "updateRun" /\ c.run \in Run /\ c = Update(c.run)
<1>1. CASE c \in Updates
  BY <1>1 DEF Updates, Asks, Stops, Update, Simple
<1>2. CASE c \in {Simple(op) : op \in {"start", "stop", "updateAll"}}
  BY <1>2 DEF Updates, Asks, Stops, Update, Simple
<1> QED
  BY <1>1, <1>2 DEF Call, Updates
-----------------------------------------------------------------------------
(* A client that handles a callback.                                       *)

LEMMA ShowStateType ==
  ASSUME NEW s \in Gui, NEW state \in AdepoState
  PROVE  /\ ShowState(s, state) \in Gui
         /\ ShowState(s, state).shown = state
BY DEF ShowState, Gui

LEMMA ShowRunType ==
  ASSUME NEW s \in Gui, NEW r \in Run
  PROVE  /\ ShowRun(s, r) \in Gui
         /\ ShowRun(s, r).shown = s.shown
         /\ ShowRun(s, r).held = r
BY DEF ShowRun, Gui, Run

LEMMA AfterType ==
  ASSUME NEW s \in Gui, NEW m \in Callback
  PROVE  /\ After(s, m) \in Gui
         /\ After(s, m).shown = IF IsState(m) THEN m.state ELSE s.shown
<1>1. CASE m.op = "changedState"
  BY <1>1, CallbackCases, ShowStateType DEF After, IsState
<1>2. CASE m.op = "changedRun"
  BY <1>2, CallbackCases, ShowRunType DEF After, IsState
<1>3. CASE m.op = "changedConfiguration"
  <2>1. [s EXCEPT !.filled = TRUE] \in Gui /\ s.held \in Run
    BY DEF Gui
  <2>2. [s EXCEPT !.filled = TRUE].shown = s.shown
    BY DEF Gui
  <2> QED
    BY <1>3, <2>1, <2>2, ShowRunType DEF After, IsState
<1> QED
  BY <1>1, <1>2, <1>3, CallbackCases

LEMMA EchoType ==
  ASSUME NEW s \in Gui, NEW m \in Callback
  PROVE  /\ Echo(s, m) \in Seq(Call)
         /\ \A i \in DOMAIN Echo(s, m) : Echo(s, m)[i] # Simple("updateAll")
<1>1. CASE m.op = "changedRun" /\ m.run.instant # s.held.instant
  <2>1. Echo(s, m) = <<Update(m.run)>>
    BY <1>1 DEF Echo
  <2>2. Update(m.run) \in Call
    BY <1>1, CallbackCases, Calls
  <2>3. Update(m.run) # Simple("updateAll")
    BY DEF Update, Simple
  <2> QED
    BY <2>1, <2>2, <2>3
<1>2. CASE ~(m.op = "changedRun" /\ m.run.instant # s.held.instant)
  BY <1>2 DEF Echo
<1> QED
  BY <1>1, <1>2

(* The second time a callback is handled nothing changes, nothing is sent. *)
LEMMA Idempotent ==
  ASSUME NEW s \in Gui, NEW m \in Callback
  PROVE  /\ After(After(s, m), m) = After(s, m)
         /\ Echo(After(s, m), m) = <<>>
<1>1. CASE m.op = "changedState"
  BY <1>1 DEF After, Echo, ShowState, Gui
<1>2. CASE m.op = "changedRun"
  BY <1>2 DEF After, Echo, ShowRun, Gui
<1>3. CASE m.op = "changedConfiguration"
  BY <1>3 DEF After, Echo, ShowRun, Gui
<1> QED
  BY <1>1, <1>2, <1>3, CallbackCases
-----------------------------------------------------------------------------
(* What is under way to a client that shows a state, and from it.          *)

InSync(shown, d, state) ==
  \/ shown = state /\ None(d, States)
  \/ LastIn(d, States, {ChangedState(state)})

Asked(u) == None(u, Asks)

LEMMA InSyncTold ==
  ASSUME NEW shown, NEW d \in Seq(Callback), NEW state \in AdepoState,
         NEW c \in Seq(Callback)
  PROVE  InSync(shown, d \o (c \o <<ChangedState(state)>>), state)
<1> DEFINE t == <<ChangedState(state)>>
<1>1. t \in Seq(Callback) /\ c \o t \in Seq(Callback)
  BY Callbacks
<1>2. LastIn(t, States, {ChangedState(state)})
  <2>1. DOMAIN t = {1} /\ t[1] = ChangedState(state)
    OBVIOUS
  <2> QED
    BY <2>1 DEF LastIn
<1> HIDE DEF t
<1>3. LastIn(d \o (c \o t), States, {ChangedState(state)})
  BY <1>1, <1>2, LastAdded
<1> QED
  BY <1>3 DEF InSync, t

LEMMA InSyncOther ==
  ASSUME NEW shown, NEW d \in Seq(Callback), NEW state, InSync(shown, d, state),
         NEW m \in Callback, ~IsState(m)
  PROVE  InSync(shown, d \o <<m>>, state)
<1> DEFINE c == <<m>>
<1>1. c \in Seq(Callback) /\ DOMAIN c = {1} /\ c[1] = m
  OBVIOUS
<1>2. None(c, States)
  BY <1>1, CallbackKinds DEF None, IsState
<1> HIDE DEF c
<1>3. InSync(shown, d \o c, state)
  BY <1>1, <1>2, NoneConcat, LastAdded DEF InSync
<1> QED
  BY <1>3 DEF c

(* The client handles the first callback, which stays or goes.             *)
LEMMA InSyncAfter ==
  ASSUME NEW s \in Gui, NEW d \in Seq(Callback), d # <<>>, NEW state \in AdepoState,
         InSync(s.shown, d, state)
  PROVE  /\ InSync(After(s, Head(d)).shown, d, state)
         /\ InSync(After(s, Head(d)).shown, Tail(d), state)
<1> DEFINE m == Head(d)  t == Tail(d)  a == After(s, m).shown  G == {ChangedState(state)}
<1>1. m \in Callback /\ t \in Seq(Callback)
  OBVIOUS
<1>2. a = IF m \in States THEN m.state ELSE s.shown
  BY <1>1, AfterType, CallbackKinds DEF IsState
<1>3. G \subseteq States /\ \A x \in G : x.state = state
  BY DEF States, ChangedState
<1>4. None(d, States) <=> m \notin States /\ None(t, States)
  BY NoneTail
<1>5. LastIn(d, States, G) => LastIn(t, States, G) \/ (m \in G /\ None(t, States))
  BY <1>3, LastTail
<1> HIDE DEF m, t, a, G
<1>6. ASSUME s.shown = state, None(d, States)
      PROVE  InSync(a, d, state) /\ InSync(a, t, state)
  BY <1>2, <1>4, <1>6 DEF InSync, G
<1>7. ASSUME LastIn(d, States, G)
      PROVE  InSync(a, d, state) /\ InSync(a, t, state)
  BY <1>2, <1>3, <1>5, <1>7 DEF InSync, G
<1>8. InSync(s.shown, d, state)
  OBVIOUS
<1>9. InSync(a, d, state) /\ InSync(a, t, state)
  BY <1>6, <1>7, <1>8 DEF InSync, G
<1> QED
  BY <1>9 DEF a, m, t

LEMMA AskedConcat ==
  ASSUME NEW u \in Seq(Call), NEW v \in Seq(Call), Asked(u \o v)
  PROVE  Asked(u)
BY NoneConcat DEF Asked

LEMMA AskedTail ==
  ASSUME NEW u \in Seq(Call), u # <<>>, Asked(Tail(u)), Head(u).op # "updateAll"
  PROVE  Asked(u)
<1>1. Head(u) \notin Asks
  BY CallKinds
<1> QED
  BY <1>1, NoneTail DEF Asked
-----------------------------------------------------------------------------
(* The types.                                                              *)

LEMMA BroadcastType ==
  ASSUME TypeOK, NEW c \in Seq(Callback), Broadcast(c)
  PROVE  /\ down' \in [Guis -> Seq(Callback)]
         /\ \A g \in Guis : down'[g] = IF g \in clients THEN down[g] \o c ELSE down[g]
BY DEF TypeOK, Broadcast

LEMMA SendType ==
  ASSUME TypeOK, NEW g \in Guis, NEW c \in Seq(Call), Send(g, c)
  PROVE  /\ up' \in [Guis -> Seq(Call)]
         /\ \A h \in Guis : Asked(up'[h]) => Asked(up[h])
<1>1. up[g] \in Seq(Call) /\ up[g] \o c \in Seq(Call)
  BY DEF TypeOK
<1>2. up' \in [Guis -> Seq(Call)]
  BY <1>1 DEF TypeOK, Send
<1>3. \A h \in Guis : up'[h] = up[h] \/ up'[h] = up[h] \o c
  BY DEF TypeOK, Send
<1> QED
  BY <1>2, <1>3, AskedConcat DEF TypeOK

LEMMA RunType ==
  ASSUME NEW r \in Run
  PROVE  /\ \A m \in {"CLOSURE", "MONITORING"} : [r EXCEPT !.mode = m] \in Run
         /\ [r EXCEPT !.instant = ~@] \in Run
         /\ \A t \in 0 .. 1 : [r EXCEPT !.time = t] \in Run
BY DEF Run

(* A step of client g that gives it the state s and sends the calls c.     *)
Acts(g, s, c) ==
  /\ gui' = [gui EXCEPT ![g] = s]
  /\ Send(g, c)
  /\ UNCHANGED <<serverVars, link, handlers, handled, down>>

(* The run the widgets show.                                               *)
Asking(s) == [s.held EXCEPT !.time = s.time]

(* The user and the timers change the run, not the state that is shown: a  *)
(* run that differs is sent, or a timer will send it, and a stop is sent   *)
(* before the run.                                                         *)
Behaves(s, a, c) ==
  /\ a.shown = s.shown /\ a.canStart = s.canStart /\ a.filled = s.filled
  /\ None(c, Asks) /\ Followed(c, Stops, Updates)
  /\ ~None(c, Updates) \/ (a.held = s.held /\ a.spinTimer)

LEMMA ShortCalls ==
  ASSUME NEW r \in Run
  PROVE  LET u == Update(r) IN
         /\ \A c \in {<<u>>, <<u, Simple("start")>>, <<Simple("stop"), u>>} :
              /\ c \in Seq(Call)
              /\ None(c, Asks) /\ Followed(c, Stops, Updates)
              /\ ~None(c, Updates) /\ None(c, Updates \ {u})
         /\ None(<<u>>, Stops)
         /\ <<>> \in Seq(Call) /\ None(<<>>, Asks) /\ Followed(<<>>, Stops, Updates)
         /\ None(<<>>, Updates \ {u})
<1> DEFINE u == Update(r)
<1>1. u \in Call /\ Simple("start") \in Call /\ Simple("stop") \in Call
  BY Calls
<1>2. u \in Updates /\ u \notin Asks /\ u \notin Stops
  BY <1>1, CallKinds DEF Updates, Update
<1>3. \A x \in {Simple("start"), Simple("stop")} : x \notin Updates /\ x \notin Asks
  BY <1>1, CallKinds DEF Simple
<1>4. Simple("start") \notin Stops
  BY DEF Stops, Simple
<1> HIDE DEF u
<1>5. ASSUME NEW c, c = <<u>>
      PROVE  /\ c \in Seq(Call)
             /\ None(c, Asks) /\ Followed(c, Stops, Updates) /\ None(c, Stops)
             /\ ~None(c, Updates) /\ None(c, Updates \ {u})
  <2>1. c \in Seq(Call) /\ DOMAIN c = {1} /\ c[1] = u
    BY <1>1, <1>5
  <2> QED
    BY <2>1, <1>2 DEF None, Followed
<1>6. ASSUME NEW c, c = <<u, Simple("start")>>
      PROVE  /\ c \in Seq(Call)
             /\ None(c, Asks) /\ Followed(c, Stops, Updates)
             /\ ~None(c, Updates) /\ None(c, Updates \ {u})
  <2>1. c \in Seq(Call) /\ DOMAIN c = {1, 2} /\ c[1] = u /\ c[2] = Simple("start")
    BY <1>1, <1>6
  <2> QED
    BY <2>1, <1>2, <1>3, <1>4 DEF None, Followed
<1>7. ASSUME NEW c, c = <<Simple("stop"), u>>
      PROVE  /\ c \in Seq(Call)
             /\ None(c, Asks) /\ Followed(c, Stops, Updates)
             /\ ~None(c, Updates) /\ None(c, Updates \ {u})
  <2>1. c \in Seq(Call) /\ DOMAIN c = {1, 2} /\ c[2] = u /\ c[1] = Simple("stop")
    BY <1>1, <1>7
  <2>2. None(c, Asks) /\ ~None(c, Updates) /\ None(c, Updates \ {u})
    BY <2>1, <1>2, <1>3 DEF None
  <2>3. Followed(c, Stops, Updates)
    BY <2>1, <1>2 DEF Followed
  <2> QED
    BY <2>1, <2>2, <2>3
<1>8. <<>> \in Seq(Call) /\ DOMAIN <<>> = {}
  OBVIOUS
<1>9. None(<<>>, Asks) /\ Followed(<<>>, Stops, Updates) /\ None(<<>>, Updates \ {u})
  BY <1>8 DEF None, Followed
<1> QED
  BY <1>5, <1>6, <1>7, <1>8, <1>9 DEF u

(* What is pressed is done between two callbacks; what is sent at once is  *)
(* what the widgets show, if they showed the run before.                   *)
LEMMA PressType ==
  ASSUME TypeOK, NEW g \in Guis, Press(g)
  PROVE  /\ handled[g] = 0
         /\ \E a \in Gui, c \in Seq(Call) :
              /\ Behaves(gui[g], a, c) /\ Acts(g, a, c)
              /\ gui[g].time = gui[g].held.time => None(c, Updates \ {Update(Asking(a))})
<1> DEFINE s == gui[g]
           Done(a, c) == /\ a \in Gui /\ c \in Seq(Call)
                         /\ Behaves(s, a, c) /\ Acts(g, a, c)
                         /\ s.time = s.held.time => None(c, Updates \ {Update(Asking(a))})
<1>1. s \in Gui /\ s.held \in Run /\ s.time \in 0 .. 1 /\ gui \in [Guis -> Gui]
  BY DEF TypeOK, Gui
<1>2. ASSUME NEW r \in Run, r.time = s.held.time
      PROVE  LET a == [s EXCEPT !.held = r] IN
             /\ a \in Gui /\ a.held = r
             /\ a.shown = s.shown /\ a.canStart = s.canStart /\ a.filled = s.filled
             /\ s.time = s.held.time => Asking(a) = r
  <2>1. [r EXCEPT !.time = r.time] = r
    BY DEF Run
  <2> QED
    BY <1>1, <1>2, <2>1 DEF Gui, Asking
<1>3. ASSUME NEW m \in {"CLOSURE", "MONITORING"}, StartIn(g, m)
      PROVE  \E a, c : Done(a, c)
  <2> DEFINE r == [s.held EXCEPT !.mode = m]
             a == [s EXCEPT !.held = r]
             c == <<Update(r), Simple("start")>>
  <2>1. r \in Run /\ r.time = s.held.time
    BY <1>1, RunType DEF Run
  <2>2. Acts(g, a, c)
    BY <1>3 DEF StartIn, Acts
  <2>3. /\ c \in Seq(Call) /\ None(c, Asks) /\ Followed(c, Stops, Updates)
        /\ ~None(c, Updates) /\ None(c, Updates \ {Update(r)})
    BY <2>1, ShortCalls
  <2>4. /\ a \in Gui /\ a.held = r
        /\ a.shown = s.shown /\ a.canStart = s.canStart /\ a.filled = s.filled
        /\ s.time = s.held.time => Asking(a) = r
    BY <2>1, <1>2
  <2> HIDE DEF s, r, a, c
  <2>5. Done(a, c)
    BY <2>2, <2>3, <2>4 DEF Behaves
  <2> QED
    BY <2>5
<1>4. ASSUME Stop(g)
      PROVE  \E a, c : Done(a, c)
  <2> DEFINE c == <<Simple("stop"), Update(s.held)>>
             a == [s EXCEPT !.held = s.held]
  <2>1. a = s
    BY <1>1 DEF Gui
  <2>2. Acts(g, a, c)
    <3>1. gui = [gui EXCEPT ![g] = s]
      BY <1>1
    <3> QED
      BY <1>4, <2>1, <3>1 DEF Stop, Acts
  <2>3. /\ c \in Seq(Call) /\ None(c, Asks) /\ Followed(c, Stops, Updates)
        /\ ~None(c, Updates) /\ None(c, Updates \ {Update(s.held)})
    BY <1>1, ShortCalls
  <2>4. /\ a \in Gui /\ a.held = s.held
        /\ a.shown = s.shown /\ a.canStart = s.canStart /\ a.filled = s.filled
        /\ s.time = s.held.time => Asking(a) = s.held
    BY <1>1, <1>2
  <2> HIDE DEF s, a, c
  <2>5. Done(a, c)
    BY <2>2, <2>3, <2>4 DEF Behaves
  <2> QED
    BY <2>5
<1>5. ASSUME ChangedInstant(g)
      PROVE  \E a, c : Done(a, c)
  <2> DEFINE r == [s.held EXCEPT !.instant = ~@]
             a == [s EXCEPT !.held = r]
             c == <<Update(r)>>
  <2>1. r \in Run /\ r.time = s.held.time
    BY <1>1, RunType DEF Run
  <2>2. Acts(g, a, c)
    BY <1>5 DEF ChangedInstant, Acts
  <2>3. /\ c \in Seq(Call) /\ None(c, Asks) /\ Followed(c, Stops, Updates)
        /\ ~None(c, Updates) /\ None(c, Updates \ {Update(r)})
    BY <2>1, ShortCalls
  <2>4. /\ a \in Gui /\ a.held = r
        /\ a.shown = s.shown /\ a.canStart = s.canStart /\ a.filled = s.filled
        /\ s.time = s.held.time => Asking(a) = r
    BY <2>1, <1>2
  <2> HIDE DEF s, r, a, c
  <2>5. Done(a, c)
    BY <2>2, <2>3, <2>4 DEF Behaves
  <2> QED
    BY <2>5
<1>6. ASSUME SpinBox(g)
      PROVE  \E a, c : Done(a, c)
  <2> DEFINE t == 1 - s.time
             a == [[s EXCEPT !.time = t] EXCEPT !.spinTimer = TRUE]
  <2>1. t \in 0 .. 1
    BY <1>1
  <2>2. up' = IF link[g] = "open" THEN [up EXCEPT ![g] = @ \o <<>>] ELSE up
    BY <1>6 DEF SpinBox, TypeOK
  <2>3. Acts(g, a, <<>>)
    BY <1>6, <2>2 DEF SpinBox, Acts, Send
  <2> HIDE DEF t
  <2>4. /\ a \in Gui /\ a.held = s.held /\ a.spinTimer
        /\ a.shown = s.shown /\ a.canStart = s.canStart /\ a.filled = s.filled
        /\ Asking(a) \in Run
    BY <1>1, <2>1, RunType DEF Gui, Asking
  <2>5. /\ <<>> \in Seq(Call) /\ None(<<>>, Asks) /\ Followed(<<>>, Stops, Updates)
        /\ None(<<>>, Updates \ {Update(Asking(a))})
    BY <2>4, ShortCalls
  <2> HIDE DEF s, a
  <2>6. Done(a, <<>>)
    BY <2>3, <2>4, <2>5 DEF Behaves
  <2> QED
    BY <2>6
<1>7. \E a, c : Done(a, c)
  BY <1>3, <1>4, <1>5, <1>6 DEF Press
<1>8. handled[g] = 0
  BY DEF Press, Free
<1> QED
  BY <1>7, <1>8

(* The timer of the spin box sends the run the widgets show.               *)
LEMMA TimeoutType ==
  ASSUME TypeOK, NEW g \in Guis, SpinTimeout(g)
  PROVE  /\ handled[g] = 0 /\ gui[g].spinTimer
         /\ \E a \in Gui, c \in Seq(Call) :
              /\ Behaves(gui[g], a, c) /\ Acts(g, a, c)
              /\ a.held = Asking(gui[g]) /\ a.time = gui[g].time /\ ~a.spinTimer
              /\ None(c, Updates \ {Update(a.held)}) /\ None(c, Stops)
<1> DEFINE s == gui[g]
           r == [s.held EXCEPT !.time = s.time]
           a == [[s EXCEPT !.held = r] EXCEPT !.spinTimer = FALSE]
           c == <<Update(r)>>
<1>1. s \in Gui /\ s.held \in Run /\ s.time \in 0 .. 1 /\ r = Asking(s)
  BY DEF TypeOK, Gui, Asking
<1>2. r \in Run
  BY <1>1, RunType
<1>3. Acts(g, a, c)
  BY DEF SpinTimeout, Acts
<1>4. /\ c \in Seq(Call) /\ None(c, Asks) /\ Followed(c, Stops, Updates)
      /\ ~None(c, Updates) /\ None(c, Updates \ {Update(r)}) /\ None(c, Stops)
  BY <1>2, ShortCalls
<1>5. s.spinTimer /\ handled[g] = 0
  BY DEF SpinTimeout, Free
<1> HIDE DEF r
<1>6. /\ a \in Gui /\ a.held = r /\ a.time = s.time /\ ~a.spinTimer
      /\ a.shown = s.shown /\ a.canStart = s.canStart /\ a.filled = s.filled
  BY <1>1, <1>2 DEF Gui
<1> HIDE DEF s, a, c
<1>7. Behaves(s, a, c)
  BY <1>4, <1>6 DEF Behaves
<1> QED
  BY <1>1, <1>3, <1>4, <1>5, <1>6, <1>7 DEF s
-----------------------------------------------------------------------------
(* The invariant.  A client with an open connection is one of the server's *)
(* clients, so that it is told of every change.                            *)

Fine(g) ==
  /\ link[g] = "open" => g \in clients
  /\ handled[g] # 0 =>
       /\ link[g] = "open" /\ down[g] # <<>>
       /\ After(gui[g], Head(down[g])) = gui[g]
       /\ Echo(gui[g], Head(down[g])) = <<>>
  /\ link[g] = "open" /\ Asked(up[g]) => InSync(gui[g].shown, down[g], adepoState)

Inv == TypeOK /\ \A g \in Guis : Fine(g)

LEMMA InvImplies == Inv => StateInSync /\ HandledAgain
<1> SUFFICES ASSUME Inv PROVE StateInSync /\ HandledAgain
  OBVIOUS
<1>1. ASSUME NEW g \in Guis PROVE HasAsked(g) => Asked(up[g])
  BY DEF HasAsked, Asked, None, Asks
<1>2. ASSUME NEW g \in Guis, NEW i \in DOMAIN down[g]
      PROVE  IsState(down[g][i]) <=> down[g][i] \in States
  <2>1. down[g][i] \in Callback
    BY <1>2 DEF Inv, TypeOK
  <2> QED
    BY <2>1, CallbackKinds DEF IsState
<1>3. ASSUME NEW g \in Guis, InSync(gui[g].shown, down[g], adepoState)
      PROVE  \/ /\ gui[g].shown = adepoState
                /\ \A i \in DOMAIN down[g] : ~IsState(down[g][i])
             \/ \E i \in DOMAIN down[g] :
                  /\ down[g][i] = ChangedState(adepoState)
                  /\ \A j \in DOMAIN down[g] : IsState(down[g][j]) => j <= i
  BY <1>2, <1>3 DEF InSync, None, LastIn
<1>4. StateInSync
  BY <1>1, <1>3 DEF Inv, Fine, StateInSync
<1>5. HandledAgain
  BY DEF Inv, Fine, HandledAgain, Free
<1> QED
  BY <1>4, <1>5

LEMMA InitInv == Init => Inv
<1>1. ASSUME Init PROVE TypeOK
  <2>1. [shown |-> "CONNECTING", canStart |-> FALSE, filled |-> FALSE,
         held |-> DefaultRun, time |-> 1, spinTimer |-> FALSE] \in Gui
    BY DEF Gui, AdepoState, DefaultRun, Run
  <2>2. "CONNECTING" \in AdepoState
    BY DEF AdepoState
  <2>3. <<>> \in Seq(Call) /\ <<>> \in Seq(Callback)
    OBVIOUS
  <2> QED
    BY <1>1, <2>1, <2>2, <2>3 DEF Init, TypeOK
<1>2. Init => \A g \in Guis : Fine(g)
  BY DEF Init, Fine
<1> QED
  BY <1>1, <1>2 DEF Inv

(* A client that a step does not touch, but for what it sends.             *)
LEMMA Untouched ==
  ASSUME NEW g \in Guis, Fine(g),
         UNCHANGED adepoState, g \in clients => g \in clients',
         link'[g] = link[g], handled'[g] = handled[g],
         down'[g] = down[g], gui'[g] = gui[g], Asked(up'[g]) => Asked(up[g])
  PROVE  Fine(g)'
BY DEF Fine

LEMMA UserInv ==
  ASSUME Inv, NEW g \in Guis, Press(g) \/ SpinTimeout(g)
  PROVE  Inv'
<1>1. PICK s \in Gui, c \in Seq(Call) : s.shown = gui[g].shown /\ Acts(g, s, c)
  BY PressType, TimeoutType DEF Inv, Behaves
<1>2. handled[g] = 0
  BY PressType, TimeoutType DEF Inv
<1>3. up' \in [Guis -> Seq(Call)] /\ \A h \in Guis : Asked(up'[h]) => Asked(up[h])
  BY <1>1, SendType DEF Inv, Acts
<1>4. TypeOK'
  BY <1>1, <1>3 DEF Inv, TypeOK, Acts, serverVars
<1>5. gui'[g] = s /\ \A h \in Guis \ {g} : gui'[h] = gui[h]
  BY <1>1 DEF Inv, TypeOK, Acts
<1>6. UNCHANGED <<adepoState, clients, link, handled, down>>
  BY <1>1 DEF Acts, serverVars
<1>7. Fine(g)'
  BY <1>1, <1>2, <1>3, <1>5, <1>6 DEF Inv, Fine
<1>8. \A h \in Guis \ {g} : Fine(h)'
  BY <1>3, <1>5, <1>6, Untouched DEF Inv
<1> QED
  BY <1>4, <1>7, <1>8 DEF Inv

LEMMA ReceiveInv ==
  ASSUME Inv, NEW g \in Guis, Receive(g)
  PROVE  Inv'
<1> DEFINE d == down[g]  s == gui[g]  m == Head(d)  a == After(s, m)
<1>1. /\ d \in Seq(Callback) /\ d # <<>> /\ m \in Callback /\ Tail(d) \in Seq(Callback)
      /\ s \in Gui /\ link[g] = "open" /\ handled[g] \in Nat
  BY DEF Inv, TypeOK, Receive
<1>2. a \in Gui
  BY <1>1, AfterType
<1>3. Echo(s, m) \in Seq(Call)
  BY <1>1, EchoType
<1>4. gui' = [gui EXCEPT ![g] = a] /\ Send(g, Echo(s, m))
      /\ UNCHANGED <<serverVars, link, handlers>>
  BY DEF Receive
<1>5. up' \in [Guis -> Seq(Call)] /\ \A h \in Guis : Asked(up'[h]) => Asked(up[h])
  BY <1>3, <1>4, SendType DEF Inv
<1>6. \/ handled' = [handled EXCEPT ![g] = @ + 1] /\ UNCHANGED down
      \/ handled' = [handled EXCEPT ![g] = 0] /\ down' = [down EXCEPT ![g] = Tail(d)]
  BY DEF Receive
<1>7. TypeOK'
  <2>1. gui' \in [Guis -> Gui]
    BY <1>2, <1>4 DEF Inv, TypeOK
  <2>2. handled \in [Guis -> Nat] /\ down \in [Guis -> Seq(Callback)]
        /\ handled[g] + 1 \in Nat /\ Tail(d) \in Seq(Callback)
    BY <1>1 DEF Inv, TypeOK
  <2>3. handled' \in [Guis -> Nat]
    <3>1. CASE handled' = [handled EXCEPT ![g] = handled[g] + 1]
      BY <2>2, <3>1
    <3>2. CASE handled' = [handled EXCEPT ![g] = 0]
      BY <2>2, <3>2
    <3> QED
      BY <1>6, <3>1, <3>2
  <2>4. down' \in [Guis -> Seq(Callback)]
    <3> HIDE DEF d
    <3> QED BY <1>6, <2>2
  <2> QED
    BY <1>4, <1>5, <2>1, <2>3, <2>4 DEF Inv, TypeOK, serverVars
<1>8. UNCHANGED <<adepoState, clients, link>> /\ gui'[g] = a
  BY <1>4 DEF serverVars, Inv, TypeOK
<1>9. /\ After(a, m) = a /\ Echo(a, m) = <<>>
      /\ Asked(up'[g]) => InSync(a.shown, d, adepoState)
                            /\ InSync(a.shown, Tail(d), adepoState)
  <2>1. After(a, m) = a /\ Echo(a, m) = <<>>
    BY <1>1, Idempotent
  <2>2. Asked(up'[g]) => InSync(s.shown, d, adepoState)
    BY <1>1, <1>5 DEF Inv, Fine
  <2>3. adepoState \in AdepoState
    BY DEF Inv, TypeOK
  <2> QED
    BY <1>1, <2>1, <2>2, <2>3, InSyncAfter
<1>10. link[g] = "open" => g \in clients
  BY DEF Inv, Fine
<1>11. \/ down'[g] = d
       \/ handled'[g] = 0 /\ down'[g] = Tail(d)
  BY <1>6 DEF Inv, TypeOK
<1>12. Fine(g)'
  <2> HIDE DEF d, s, m, a
  <2>1. CASE down'[g] = d
    BY <2>1, <1>1, <1>8, <1>9, <1>10 DEF Fine, m
  <2>2. CASE handled'[g] = 0 /\ down'[g] = Tail(d)
    BY <2>2, <1>8, <1>9, <1>10 DEF Fine
  <2> QED
    BY <2>1, <2>2, <1>11
<1>13. \A h \in Guis \ {g} : Fine(h)'
  <2>1. \A h \in Guis \ {g} : gui'[h] = gui[h] /\ handled'[h] = handled[h]
                                /\ down'[h] = down[h]
    BY <1>4, <1>6 DEF Inv, TypeOK
  <2> QED
    BY <1>5, <1>8, <2>1, Untouched DEF Inv
<1> QED
  BY <1>7, <1>12, <1>13 DEF Inv
(* A client that is told what the server broadcasts.                       *)
LEMMA Told ==
  ASSUME Inv, NEW c \in Seq(Callback), Broadcast(c), NEW h \in Guis,
         UNCHANGED <<clients, link, handled, gui>>,
         link[h] = "open" /\ Asked(up'[h]) => InSync(gui[h].shown, down'[h], adepoState')
  PROVE  Fine(h)'
<1>1. Fine(h) /\ down[h] \in Seq(Callback)
      /\ down'[h] = IF h \in clients THEN down[h] \o c ELSE down[h]
  BY BroadcastType DEF Inv, TypeOK
<1>2. down[h] # <<>> => down'[h] # <<>> /\ Head(down'[h]) = Head(down[h])
  BY <1>1
<1>3. gui'[h] = gui[h] /\ handled'[h] = handled[h] /\ link'[h] = link[h]
  OBVIOUS
<1> QED
  BY <1>1, <1>2, <1>3 DEF Fine

(* What is told ends with the state.                                       *)
LEMMA StateTold ==
  ASSUME Inv, NEW c \in Seq(Callback), adepoState' \in AdepoState,
         Broadcast(c \o <<ChangedState(adepoState')>>), NEW h \in Guis,
         UNCHANGED <<clients, link, handled, gui>>
  PROVE  Fine(h)'
<1>1. c \o <<ChangedState(adepoState')>> \in Seq(Callback)
  BY Callbacks
<1>2. h \in clients => InSync(gui[h].shown, down'[h], adepoState')
  <2>1. h \in clients => down'[h] = down[h] \o (c \o <<ChangedState(adepoState')>>)
    BY <1>1, BroadcastType DEF Inv
  <2>2. down[h] \in Seq(Callback)
    BY DEF Inv, TypeOK
  <2> QED
    BY <2>1, <2>2, InSyncTold
<1>3. link[h] = "open" => h \in clients
  BY DEF Inv, Fine
<1> QED
  BY <1>1, <1>2, <1>3, Told

LEMMA UpdateAllSaid ==
  ASSUME NEW x, NEW y, NEW z
  PROVE  <<x, y>> \o <<z>> = <<x, y, z>>
<1>1. <<x, y>> \o <<z>> \in Seq({x, y, z}) /\ <<x, y, z>> \in Seq({x, y, z})
  OBVIOUS
<1>2. Len(<<x, y>> \o <<z>>) = 3 /\ Len(<<x, y, z>>) = 3
  OBVIOUS
<1>3. \A i \in 1 .. 3 : (<<x, y>> \o <<z>>)[i] = <<x, y, z>>[i]
  OBVIOUS
<1> QED
  BY <1>1, <1>2, <1>3, SeqEqual

LEMMA ProcessMessageInv ==
  ASSUME Inv, NEW g \in Guis, ProcessMessage(g)
  PROVE  Inv'
<1> DEFINE u == up[g]  call == Head(u)
<1>1. /\ u \in Seq(Call) /\ u # <<>> /\ call \in Call /\ Tail(u) \in Seq(Call)
      /\ up' = [up EXCEPT ![g] = Tail(u)]
      /\ UNCHANGED <<clients, link, handlers, handled, gui>>
  BY DEF Inv, TypeOK, ProcessMessage
<1>2. up' \in [Guis -> Seq(Call)]
  BY <1>1 DEF Inv, TypeOK
<1>3. ASSUME call.op # "updateAll", NEW h \in Guis, Asked(up'[h])
      PROVE  Asked(up[h])
  <2>1. up'[h] = IF h = g THEN Tail(u) ELSE up[h]
    BY <1>1 DEF Inv, TypeOK
  <2> QED
    BY <1>1, <1>3, <2>1, AskedTail
<1>4. run \in Run /\ runFile \in Run /\ adepoState \in AdepoState
      /\ "IDLE" \in AdepoState /\ [run EXCEPT !.mode = "CLOSURE"] \in Run
  BY RunType DEF Inv, TypeOK, AdepoState
<1>5. ASSUME call.op = "updateRun", UpdateRun(call.run)
      PROVE  Inv'
  <2>1. call.run \in Run
    BY <1>1, <1>5, CallCases
  <2> DEFINE m == ChangedRun(call.run)
  <2>2. m \in Callback /\ ~IsState(m) /\ <<m>> \in Seq(Callback)
    BY <2>1, Callbacks DEF ChangedRun, IsState
  <2>3. Broadcast(<<m>>) /\ UNCHANGED adepoState
    BY <1>5 DEF UpdateRun
  <2>4. run' \in Run /\ runFile' \in Run
    BY <1>5, <2>1 DEF UpdateRun
  <2> HIDE DEF m, call, u
  <2>5. TypeOK'
    BY <1>1, <1>2, <2>2, <2>3, <2>4, BroadcastType DEF Inv, TypeOK
  <2>6. ASSUME NEW h \in Guis PROVE Fine(h)'
    <3>1. link[h] = "open" /\ Asked(up'[h]) =>
            h \in clients /\ InSync(gui[h].shown, down[h], adepoState)
      BY <1>3, <1>5 DEF Inv, Fine
    <3>2. down[h] \in Seq(Callback)
      BY DEF Inv, TypeOK
    <3>3. h \in clients => down'[h] = down[h] \o <<m>>
      BY <2>2, <2>3, BroadcastType DEF Inv
    <3>4. link[h] = "open" /\ Asked(up'[h]) => InSync(gui[h].shown, down'[h], adepoState')
      BY <2>2, <2>3, <3>1, <3>2, <3>3, InSyncOther
    <3> QED
      BY <1>1, <2>2, <2>3, <3>4, Told
  <2> QED
    BY <2>5, <2>6 DEF Inv
<1>6. ASSUME call.op = "updateAll", UpdateAll
      PROVE  Inv'
  <2> DEFINE c == <<ChangedRun(run), ChangedConfiguration>>
  <2>1. c \in Seq(Callback) /\ ChangedState(adepoState) \in Callback
    BY <1>4, Callbacks
  <2>2. UNCHANGED adepoState /\ Broadcast(c \o <<ChangedState(adepoState')>>)
    <3>1. c \o <<ChangedState(adepoState)>>
            = <<ChangedRun(run), ChangedConfiguration, ChangedState(adepoState)>>
      BY UpdateAllSaid, Zenon
    <3>2. UNCHANGED adepoState /\ Broadcast(c \o <<ChangedState(adepoState)>>)
      BY <1>6, <3>1, Zenon DEF UpdateAll
    <3> QED
      BY <3>2, Zenon
  <2>3. run' \in Run /\ runFile' \in Run
    BY <1>4, <1>6 DEF UpdateAll
  <2> HIDE DEF c, call, u
  <2>4. c \o <<ChangedState(adepoState')>> \in Seq(Callback)
    BY <2>1, <2>2
  <2>5. TypeOK'
    BY <1>1, <1>2, <2>2, <2>3, <2>4, BroadcastType DEF Inv, TypeOK
  <2>6. \A h \in Guis : Fine(h)'
    BY <1>1, <1>4, <2>1, <2>2, StateTold
  <2> QED
    BY <2>5, <2>6 DEF Inv
<1>7. ASSUME call.op = "start", Started
      PROVE  Inv'
  <2>1. UNCHANGED <<adepoState, run, runFile, down>>
    BY <1>7 DEF Started
  <2>2. TypeOK'
    BY <1>1, <1>2, <2>1 DEF Inv, TypeOK
  <2>3. \A h \in Guis : Fine(h)'
    BY <1>1, <1>3, <1>7, <2>1, Untouched DEF Inv
  <2> QED
    BY <2>2, <2>3 DEF Inv
<1>8. ASSUME call.op = "stop", StopDAQ
      PROVE  Inv'
  <2>1. adepoState' \in AdepoState /\ run' \in Run /\ runFile' \in Run
    BY <1>4, <1>8 DEF StopDAQ
  <2>2. Broadcast(<<ChangedState(adepoState')>>)
    BY <1>8 DEF StopDAQ
  <2>3. <<ChangedState(adepoState')>> \in Seq(Callback)
        /\ <<>> \o <<ChangedState(adepoState')>> = <<ChangedState(adepoState')>>
    BY <2>1, Callbacks
  <2>4. TypeOK'
    BY <1>1, <1>2, <2>1, <2>2, <2>3, BroadcastType DEF Inv, TypeOK
  <2>5. Broadcast(<<>> \o <<ChangedState(adepoState')>>) /\ <<>> \in Seq(Callback)
    BY <2>2, <2>3
  <2> HIDE DEF call, u
  <2>6. \A h \in Guis : Fine(h)'
    BY <1>1, <2>1, <2>5, StateTold
  <2> QED
    BY <2>4, <2>6 DEF Inv
<1> QED
  BY <1>5, <1>6, <1>7, <1>8 DEF ProcessMessage

LEMMA LwdaqStateChangedInv ==
  ASSUME Inv, LwdaqStateChanged
  PROVE  Inv'
<1>1. /\ adepoState' \in AdepoState
      /\ Broadcast(<<ChangedState(adepoState')>>)
      /\ UNCHANGED <<run, runFile, clients, link, handlers, handled, gui, up>>
  BY DEF LwdaqStateChanged
<1>2. <<ChangedState(adepoState')>> \in Seq(Callback) /\ <<>> \in Seq(Callback)
      /\ <<>> \o <<ChangedState(adepoState')>> = <<ChangedState(adepoState')>>
  BY <1>1, Callbacks
<1>3. TypeOK'
  BY <1>1, <1>2, BroadcastType DEF Inv, TypeOK
<1>4. \A h \in Guis : Fine(h)'
  BY <1>1, <1>2, StateTold
<1> QED
  BY <1>3, <1>4 DEF Inv
(* The connection of g changes.                                            *)
LEMMA ConnectionInv ==
  ASSUME Inv, NEW g \in Guis,
         NewConnection(g) \/ OnConnected(g) \/ ConnectFails(g)
           \/ SocketDisconnected(g) \/ Reconnect(g)
  PROVE  Inv'
<1>1. ASSUME NewConnection(g) PROVE Inv'
  <2>1. TypeOK' /\ \A h \in Guis : h \in clients => h \in clients'
    BY <1>1 DEF NewConnection, Inv, TypeOK
  <2>2. UNCHANGED <<adepoState, link, handled, down, gui, up>>
    BY <1>1 DEF NewConnection
  <2> QED
    BY <2>1, <2>2, Untouched DEF Inv
<1>2. ASSUME OnConnected(g) PROVE Inv'
  <2>1. /\ g \in clients /\ handled[g] = 0
        /\ link' = [link EXCEPT ![g] = "open"]
        /\ handlers' = [handlers EXCEPT ![g] = @ + 1]
        /\ up' = [up EXCEPT ![g] = Append(@, Simple("updateAll"))]
        /\ UNCHANGED <<adepoState, run, runFile, clients, handled, gui, down>>
    BY <1>2 DEF OnConnected, serverVars, Inv, Fine
  <2>2. up[g] \in Seq(Call) /\ Simple("updateAll") \in Call /\ handlers[g] \in Nat
    BY Calls DEF Inv, TypeOK
  <2>3. TypeOK'
    BY <2>1, <2>2 DEF Inv, TypeOK
  <2>4. ~Asked(up'[g])
    <3>1. up'[g] = Append(up[g], Simple("updateAll"))
      BY <2>1 DEF Inv, TypeOK
    <3>2. Len(up[g]) + 1 \in DOMAIN up'[g]
          /\ up'[g][Len(up[g]) + 1] = Simple("updateAll")
      BY <2>2, <3>1
    <3> QED
      BY <3>2 DEF Asked, None, Asks
  <2>5. Fine(g)'
    BY <2>1, <2>4 DEF Fine, Inv, TypeOK
  <2>6. \A h \in Guis \ {g} : link'[h] = link[h] /\ up'[h] = up[h]
    BY <2>1 DEF Inv, TypeOK
  <2>7. \A h \in Guis \ {g} : Fine(h)'
    BY <2>1, <2>6, Untouched DEF Inv
  <2> QED
    BY <2>3, <2>5, <2>7 DEF Inv
<1>3. ASSUME ConnectFails(g) \/ SocketDisconnected(g) \/ Reconnect(g)
      PROVE  Inv'
  <2> DEFINE s == ShowState(gui[g], "CONNECTING")
  <2>1. s \in Gui
    BY ShowStateType DEF Inv, TypeOK, AdepoState
  <2>2. handled[g] = 0
    BY <1>3 DEF ConnectFails, SocketDisconnected, Reconnect, Free, Inv, Fine
  <2>3. \/ \E n \in 0 .. Len(up[g]) : up' = [up EXCEPT ![g] = SubSeq(@, 1, n)]
        \/ UNCHANGED up
    BY <1>3 DEF ConnectFails, SocketDisconnected, Reconnect
  <2>4. up' \in [Guis -> Seq(Call)] /\ \A h \in Guis \ {g} : up'[h] = up[h]
    <3>1. up[g] \in Seq(Call) /\ up \in [Guis -> Seq(Call)]
      BY DEF Inv, TypeOK
    <3>2. ASSUME NEW n \in 0 .. Len(up[g]), up' = [up EXCEPT ![g] = SubSeq(@, 1, n)]
          PROVE  up' \in [Guis -> Seq(Call)] /\ \A h \in Guis \ {g} : up'[h] = up[h]
      <4>1. SubSeq(up[g], 1, n) \in Seq(Call)
        BY <3>1, SubSeqProperties
      <4> QED
        BY <3>1, <3>2, <4>1
    <3> QED
      BY <2>3, <3>1, <3>2
  <2>5. /\ link' = [link EXCEPT ![g] = "closed"] \/ link' = [link EXCEPT ![g] = "opening"]
        /\ gui' = [gui EXCEPT ![g] = s] \/ UNCHANGED gui
        /\ down' = [down EXCEPT ![g] = <<>>] \/ UNCHANGED down
        /\ clients' = clients \ {g} \/ UNCHANGED clients
        /\ UNCHANGED <<adepoState, run, runFile, handlers, handled>>
    BY <1>3 DEF ConnectFails, SocketDisconnected, Reconnect, serverVars
  <2> HIDE DEF s
  <2>6. gui' \in [Guis -> Gui] /\ down' \in [Guis -> Seq(Callback)]
    <3>1. gui \in [Guis -> Gui] /\ down \in [Guis -> Seq(Callback)]
          /\ <<>> \in Seq(Callback)
      BY DEF Inv, TypeOK
    <3>2. gui' \in [Guis -> Gui]
      BY <2>1, <2>5, <3>1
    <3>3. down' = [down EXCEPT ![g] = <<>>] => down' \in [Guis -> Seq(Callback)]
      BY <3>1
    <3> QED
      BY <2>5, <3>1, <3>2, <3>3
  <2>7. TypeOK'
    BY <2>4, <2>5, <2>6 DEF Inv, TypeOK
  <2>8. link'[g] # "open"
    BY <2>5 DEF Inv, TypeOK
  <2>9. Fine(g)'
    BY <2>2, <2>5, <2>8 DEF Fine
  <2>10. ASSUME NEW h \in Guis \ {g} PROVE Fine(h)'
    <3>1. up'[h] = up[h]
      BY <2>4
    <3>2. gui'[h] = gui[h] /\ down'[h] = down[h] /\ link'[h] = link[h]
          /\ (h \in clients => h \in clients')
      BY <2>5 DEF Inv, TypeOK
    <3> QED
      BY <2>5, <3>1, <3>2, Untouched DEF Inv
  <2> QED
    BY <2>7, <2>9, <2>10 DEF Inv
<1> QED
  BY <1>1, <1>2, <1>3

LEMMA ServerRestartInv ==
  ASSUME Inv, ServerRestart
  PROVE  Inv'
<1>1. \A g \in Guis : ShowState(gui[g], "CONNECTING") \in Gui
  BY ShowStateType DEF Inv, TypeOK, AdepoState
<1>2. "CONNECTING" \in AdepoState /\ <<>> \in Seq(Call) /\ <<>> \in Seq(Callback)
  BY DEF AdepoState
<1>3. TypeOK'
  BY <1>1, <1>2 DEF ServerRestart, Inv, TypeOK
<1>4. \A g \in Guis : Fine(g)'
  BY DEF ServerRestart, Fine, Free
<1> QED
  BY <1>3, <1>4 DEF Inv

LEMMA NextInv == Inv /\ [Next]_vars => Inv'
<1> SUFFICES ASSUME Inv, [Next]_vars PROVE Inv'
  OBVIOUS
<1>1. ASSUME UNCHANGED vars PROVE Inv'
  <2>1. TypeOK'
    BY <1>1 DEF Inv, TypeOK, vars, serverVars
  <2>2. \A g \in Guis : Fine(g)'
    BY <1>1, Untouched DEF Inv, vars, serverVars
  <2> QED
    BY <2>1, <2>2 DEF Inv
<1>2. Next => \/ ServerRestart \/ LwdaqStateChanged
              \/ \E g \in Guis :
                   \/ Press(g) \/ SpinTimeout(g) \/ Receive(g) \/ ProcessMessage(g)
                   \/ NewConnection(g) \/ OnConnected(g) \/ ConnectFails(g)
                   \/ SocketDisconnected(g) \/ Reconnect(g)
  BY DEF Next, Step, Fault
<1> QED
  BY <1>1, <1>2, UserInv, ReceiveInv, ProcessMessageInv, LwdaqStateChangedInv,
     ConnectionInv, ServerRestartInv

-----------------------------------------------------------------------------
(* The run.  A client that is not about to send a run or to ask has the    *)
(* run of the server or is about to be told; its buttons follow the state  *)
(* it shows, or will with the state that is under way.                     *)

Alike(h, r) ==
  h = r \/ (r.mode = "CLOSURE" /\ h = [r EXCEPT !.mode = "MONITORING"])

RunsLike(r) == {ChangedRun(h) : h \in {x \in Run : Alike(x, r)}}

RunInSync(s, d, r) ==
  \/ /\ None(d, Runs)
     /\ Alike(s.held, r)
     /\ s.time = s.held.time \/ s.spinTimer
  \/ LastIn(d, Runs, RunsLike(r))

Buttons(s, d) ==
  /\ s.canStart = (s.shown = "IDLE" /\ s.filled) \/ ~None(d, States)
  /\ Followed(d, Configurations, States)

Filled(s, d) == s.filled \/ ~None(d, Configurations)

Agrees(g) ==
  /\ Buttons(gui[g], down[g])
  /\ link[g] = "open" =>
       /\ ~None(up[g], Updates \cup Asks) \/ RunInSync(gui[g], down[g], run)
       /\ Asked(up[g]) => Filled(gui[g], down[g])

AgreeInv == Inv /\ \A g \in Guis : Agrees(g)

LEMMA AgreeImplies == AgreeInv => QuietClientsAgree
<1> SUFFICES ASSUME AgreeInv, Quiet, NEW g \in Guis, link[g] = "open"
             PROVE  /\ \/ gui[g].held = run
                       \/ run.mode = "CLOSURE" /\ gui[g].held = [run EXCEPT !.mode = "MONITORING"]
                    /\ gui[g].time = run.time
                    /\ gui[g].canStart = (adepoState = "IDLE")
  BY DEF QuietClientsAgree
<1>1. up[g] = <<>> /\ down[g] = <<>> /\ ~gui[g].spinTimer
  BY DEF Quiet
<1>2. \A K, G : None(<<>>, K) /\ ~LastIn(<<>>, K, G)
  BY DEF None, LastIn
<1>3. RunInSync(gui[g], down[g], run) /\ Filled(gui[g], down[g]) /\ Buttons(gui[g], down[g])
  BY <1>1, <1>2 DEF AgreeInv, Agrees, Asked
<1>4. Alike(gui[g].held, run) /\ gui[g].time = gui[g].held.time
  BY <1>1, <1>2, <1>3 DEF RunInSync
<1>5. run \in Run /\ gui[g].held.time = run.time
  BY <1>4 DEF AgreeInv, Inv, TypeOK, Alike, Run
<1>6. InSync(gui[g].shown, down[g], adepoState)
  BY <1>1, <1>2 DEF AgreeInv, Inv, Fine, Asked
<1>7. gui[g].shown = adepoState
  BY <1>1, <1>2, <1>6 DEF InSync
<1>8. gui[g].filled /\ gui[g].canStart = (gui[g].shown = "IDLE" /\ gui[g].filled)
  BY <1>1, <1>2, <1>3 DEF Filled, Buttons
<1> QED
  BY <1>4, <1>5, <1>7, <1>8 DEF Alike

(* What a callback changes.                                                *)
LEMMA AfterParts ==
  ASSUME NEW s \in Gui, NEW m \in Callback
  PROVE  LET a == After(s, m) IN
         /\ a.held = IF m \in Runs THEN m.run ELSE s.held
         /\ \/ m \notin States /\ a.time = a.held.time
            \/ m \in States /\ a.time = s.time /\ a.spinTimer = s.spinTimer
         /\ s.spinTimer => a.spinTimer
         /\ a.spinTimer => s.spinTimer \/ s.time # a.time
         /\ a.filled = (s.filled \/ m \in Configurations)
         /\ m \in States => a.canStart = (a.shown = "IDLE" /\ a.filled)
         /\ m \notin States => a.canStart = s.canStart
<1> DEFINE a == After(s, m)
<1>1. /\ m \in States <=> m.op = "changedState"
      /\ m \in Runs <=> m.op = "changedRun"
      /\ m \in Configurations <=> m.op = "changedConfiguration"
  BY CallbackKinds
<1>2. CASE m.op = "changedState"
  <2>1. a = ShowState(s, m.state)
    BY <1>2 DEF After
  <2> HIDE DEF a
  <2> QED
    BY <1>1, <1>2, <2>1 DEF ShowState, Gui, a
<1>3. CASE m.op = "changedRun"
  <2>1. a = ShowRun(s, m.run)
    BY <1>3 DEF After
  <2> HIDE DEF a
  <2> QED
    BY <1>1, <1>3, <2>1 DEF ShowRun, Gui, a
<1>4. CASE m.op = "changedConfiguration"
  <2> DEFINE f == [s EXCEPT !.filled = TRUE]
  <2>1. a = ShowRun(f, s.held)
    BY <1>4 DEF After
  <2>2. f \in Gui /\ f.held = s.held /\ f.time = s.time /\ f.spinTimer = s.spinTimer
        /\ f.canStart = s.canStart /\ f.filled
    BY DEF Gui
  <2> HIDE DEF a, f
  <2> QED
    BY <1>1, <1>4, <2>1, <2>2 DEF ShowRun, Gui, a
<1> QED
  BY <1>2, <1>3, <1>4, CallbackCases

LEMMA RunAfter ==
  ASSUME NEW s \in Gui, NEW d \in Seq(Callback), d # <<>>, NEW r \in Run,
         RunInSync(s, d, r)
  PROVE  /\ RunInSync(After(s, Head(d)), d, r)
         /\ RunInSync(After(s, Head(d)), Tail(d), r)
<1> DEFINE m == Head(d)  t == Tail(d)  a == After(s, m)  G == RunsLike(r)
<1>1. m \in Callback /\ t \in Seq(Callback)
  OBVIOUS
<1>2. /\ a.held = IF m \in Runs THEN m.run ELSE s.held
      /\ \/ m \notin States /\ a.time = a.held.time
         \/ m \in States /\ a.time = s.time /\ a.spinTimer = s.spinTimer
  BY <1>1, AfterParts
<1>3. G \subseteq Runs /\ \A x \in G : Alike(x.run, r)
  BY DEF RunsLike, Runs, ChangedRun
<1>4. m \in Runs => m \notin States
  BY <1>1, CallbackKinds
<1>5. None(d, Runs) <=> m \notin Runs /\ None(t, Runs)
  BY NoneTail
<1>6. LastIn(d, Runs, G) => LastIn(t, Runs, G) \/ (m \in G /\ None(t, Runs))
  BY <1>3, LastTail
<1> HIDE DEF m, t, a, G
<1>7. ASSUME None(d, Runs), Alike(s.held, r), s.time = s.held.time \/ s.spinTimer
      PROVE  RunInSync(a, d, r) /\ RunInSync(a, t, r)
  BY <1>2, <1>5, <1>7 DEF RunInSync
<1>8. ASSUME LastIn(d, Runs, G)
      PROVE  RunInSync(a, d, r) /\ RunInSync(a, t, r)
  BY <1>2, <1>3, <1>4, <1>6, <1>8 DEF RunInSync, G
<1>9. RunInSync(a, d, r) /\ RunInSync(a, t, r)
  BY <1>7, <1>8 DEF RunInSync, G
<1> QED
  BY <1>9 DEF a, m, t

LEMMA ButtonsAfter ==
  ASSUME NEW s \in Gui, NEW d \in Seq(Callback), d # <<>>, Buttons(s, d)
  PROVE  LET a == After(s, Head(d)) IN
         /\ Buttons(a, d) /\ Buttons(a, Tail(d))
         /\ Filled(s, d) => Filled(a, d) /\ Filled(a, Tail(d))
<1> DEFINE m == Head(d)  t == Tail(d)  a == After(s, m)
<1>1. m \in Callback /\ t \in Seq(Callback)
  OBVIOUS
<1>2. /\ a.filled = (s.filled \/ m \in Configurations)
      /\ m \in States => a.canStart = (a.shown = "IDLE" /\ a.filled)
      /\ m \notin States => a.canStart = s.canStart /\ a.shown = s.shown
  BY <1>1, AfterParts, AfterType, CallbackKinds DEF IsState
<1>3. \A K : None(d, K) <=> m \notin K /\ None(t, K)
  BY NoneTail
<1>4. /\ Followed(d, Configurations, States) => Followed(t, Configurations, States)
      /\ Followed(d, Configurations, States) /\ m \in Configurations => ~None(t, States)
  BY OrderTail
<1> HIDE DEF m, t, a
<1>5. Buttons(a, d) /\ Buttons(a, t)
  BY <1>2, <1>3, <1>4 DEF Buttons
<1>6. Filled(s, d) => Filled(a, d) /\ Filled(a, t)
  BY <1>2, <1>3 DEF Filled
<1> QED
  BY <1>5, <1>6 DEF m, t, a
(* A client that a step does not touch, but for what it sends.             *)
LEMMA AgreesStill ==
  ASSUME NEW g \in Guis, Agrees(g), UNCHANGED run,
         link'[g] = link[g], down'[g] = down[g], gui'[g] = gui[g],
         \A K : None(up'[g], K) => None(up[g], K)
  PROVE  Agrees(g)'
BY DEF Agrees, Asked

(* What is sent is added to what is under way.                             *)
LEMMA SendAdds ==
  ASSUME TypeOK, NEW g \in Guis, NEW c \in Seq(Call), Send(g, c)
  PROVE  /\ \A h \in Guis : \A K : None(up'[h], K) => None(up[h], K)
         /\ link[g] = "open" => up'[g] = up[g] \o c
         /\ \A h \in Guis : h # g \/ link[g] # "open" => up'[h] = up[h]
<1>1. /\ link[g] = "open" => up'[g] = up[g] \o c
      /\ \A h \in Guis : h # g \/ link[g] # "open" => up'[h] = up[h]
  BY DEF Send, TypeOK
<1>2. up[g] \in Seq(Call)
  BY DEF TypeOK
<1>3. \A K : None(up[g] \o c, K) <=> None(up[g], K) /\ None(c, K)
  BY <1>2, NoneConcat
<1> QED
  BY <1>1, <1>3, Zenon

LEMMA UserAgrees ==
  ASSUME AgreeInv, NEW g \in Guis, Press(g) \/ SpinTimeout(g), NEW h \in Guis
  PROVE  Agrees(h)'
<1> DEFINE s == gui[g]
<1>1. PICK a \in Gui, c \in Seq(Call) : Behaves(s, a, c) /\ Acts(g, a, c)
  BY PressType, TimeoutType DEF AgreeInv, Inv
<1>2. /\ \A x \in Guis : \A K : None(up'[x], K) => None(up[x], K)
      /\ link[g] = "open" => up'[g] = up[g] \o c
  BY <1>1, SendAdds DEF AgreeInv, Inv, Acts
<1>3. UNCHANGED <<run, link, down>> /\ gui'[g] = a
      /\ \A x \in Guis \ {g} : gui'[x] = gui[x]
  BY <1>1 DEF AgreeInv, Inv, TypeOK, Acts, serverVars
<1>4. CASE h # g
  BY <1>2, <1>3, <1>4, AgreesStill DEF AgreeInv
<1>5. CASE h = g
  <2>1. Buttons(a, down[g]) /\ (Filled(s, down[g]) => Filled(a, down[g]))
    BY <1>1 DEF Behaves, Buttons, Filled, AgreeInv, Agrees
  <2>2. ASSUME link[g] = "open", None(up'[g], Updates \cup Asks)
        PROVE  RunInSync(a, down[g], run)
    <3> DEFINE u == up[g]
    <3>0. u \in Seq(Call)
      BY DEF AgreeInv, Inv, TypeOK
    <3> HIDE DEF u
    <3>1. None(u \o c, Updates \cup Asks) => None(u, Updates \cup Asks) /\ None(c, Updates \cup Asks)
      BY <3>0, NoneConcat
    <3>2. None(up[g], Updates \cup Asks) /\ None(c, Updates \cup Asks)
      BY <1>2, <2>2, <3>1 DEF u
    <3>3. a.held = s.held /\ a.spinTimer
      BY <1>1, <3>2 DEF Behaves, None
    <3>4. RunInSync(s, down[g], run)
      BY <2>2, <3>2 DEF AgreeInv, Agrees
    <3> QED
      BY <3>3, <3>4 DEF RunInSync
  <2>3. Asked(up'[g]) => Asked(up[g])
    BY <1>2 DEF Asked
  <2> HIDE DEF s
  <2>4. link[g] = "open" /\ Asked(up[g]) => Filled(s, down[g])
    BY DEF AgreeInv, Agrees, s
  <2> QED
    BY <1>3, <1>5, <2>1, <2>2, <2>3, <2>4 DEF Agrees
<1> QED
  BY <1>4, <1>5

LEMMA ReceiveAgrees ==
  ASSUME AgreeInv, NEW g \in Guis, Receive(g), NEW h \in Guis
  PROVE  Agrees(h)'
<1> DEFINE d == down[g]  s == gui[g]  m == Head(d)  a == After(s, m)
<1>1. /\ d \in Seq(Callback) /\ d # <<>> /\ m \in Callback /\ s \in Gui /\ link[g] = "open"
      /\ run \in Run
  BY DEF AgreeInv, Inv, TypeOK, Receive
<1>2. /\ gui' = [gui EXCEPT ![g] = a] /\ Send(g, Echo(s, m))
      /\ UNCHANGED <<run, link>>
  BY DEF Receive, serverVars
<1>3. \A x \in Guis : \A K : None(up'[x], K) => None(up[x], K)
  BY <1>1, <1>2, EchoType, SendAdds DEF AgreeInv, Inv
<1>4. /\ down'[g] = d \/ down'[g] = Tail(d)
      /\ \A x \in Guis \ {g} : down'[x] = down[x]
  BY DEF AgreeInv, Inv, TypeOK, Receive
<1>5. gui'[g] = a /\ \A x \in Guis \ {g} : gui'[x] = gui[x]
  BY <1>2 DEF AgreeInv, Inv, TypeOK
<1>6. CASE h # g
  BY <1>2, <1>3, <1>4, <1>5, <1>6, AgreesStill DEF AgreeInv
<1>7. CASE h = g
  <2>1. Buttons(s, d)
    BY DEF AgreeInv, Agrees
  <2>2. /\ Buttons(a, d) /\ Buttons(a, Tail(d))
        /\ Filled(s, d) => Filled(a, d) /\ Filled(a, Tail(d))
    BY <1>1, <2>1, ButtonsAfter
  <2>3. RunInSync(s, d, run) => RunInSync(a, d, run) /\ RunInSync(a, Tail(d), run)
    BY <1>1, RunAfter
  <2>4. /\ ~None(up[g], Updates \cup Asks) \/ RunInSync(s, d, run)
        /\ Asked(up[g]) => Filled(s, d)
    BY <1>1 DEF AgreeInv, Agrees
  <2>5. Asked(up'[g]) => Asked(up[g])
    BY <1>3 DEF Asked
  <2> HIDE DEF d, s, m, a
  <2> QED
    BY <1>2, <1>3, <1>4, <1>5, <1>7, <2>2, <2>3, <2>4, <2>5 DEF Agrees
<1> QED
  BY <1>6, <1>7

(* A client hears what the server broadcasts: its run, or nothing of it.   *)
LEMMA ToldAgrees ==
  ASSUME AgreeInv, NEW c \in Seq(Callback), Broadcast(c), NEW h \in Guis,
         UNCHANGED <<link, gui>>, Followed(c, Configurations, States),
         Asked(up'[h]) => Asked(up[h]) \/ ~None(c, Configurations),
         \/ LastIn(c, Runs, RunsLike(run'))
         \/ /\ None(c, Runs)
            /\ None(up'[h], Updates \cup Asks) => None(up[h], Updates \cup Asks)
            /\ \A x \in Run : Alike(x, run) => Alike(x, run')
  PROVE  Agrees(h)'
<1> DEFINE d == down[h]  e == down'[h]  s == gui[h]
<1>1. d \in Seq(Callback) /\ e = (IF h \in clients THEN d \o c ELSE d)
      /\ s \in Gui /\ s.held \in Run
  BY BroadcastType DEF AgreeInv, Inv, TypeOK, Gui
<1>2. link[h] = "open" => e = d \o c
  BY <1>1 DEF AgreeInv, Inv, Fine
<1>3. Agrees(h)
  BY DEF AgreeInv
<1>4. \A K : None(d \o c, K) <=> None(d, K) /\ None(c, K)
  BY <1>1, NoneConcat
<1> HIDE DEF e, s, d
<1>5. Buttons(s, e)
  <2>1. Buttons(s, d)
    BY <1>3 DEF Agrees, d, s
  <2>2. Followed(d \o c, Configurations, States)
    BY <1>1, <2>1, OrderConcat DEF Buttons
  <2> QED
    BY <1>1, <1>4, <2>1, <2>2 DEF Buttons
<1>6. ASSUME link[h] = "open" PROVE Asked(up'[h]) => Filled(s, e)
  BY <1>2, <1>3, <1>4, <1>6 DEF Agrees, Filled, d, s
<1>7. ASSUME link[h] = "open", None(up'[h], Updates \cup Asks)
      PROVE  RunInSync(s, e, run')
  <2>1. CASE LastIn(c, Runs, RunsLike(run'))
    BY <1>1, <1>2, <1>7, <2>1, LastAdded DEF RunInSync
  <2>2. CASE /\ None(c, Runs)
             /\ None(up[h], Updates \cup Asks)
             /\ \A x \in Run : Alike(x, run) => Alike(x, run')
    <3>1. RunInSync(s, d, run)
      BY <1>3, <1>7, <2>2 DEF Agrees, d, s
    <3>2. RunsLike(run) \subseteq RunsLike(run')
      BY <2>2 DEF RunsLike
    <3>3. LastIn(d, Runs, RunsLike(run)) => LastIn(d, Runs, RunsLike(run'))
      BY <3>2 DEF LastIn
    <3>4. RunInSync(s, d, run')
      BY <1>1, <2>2, <3>1, <3>3 DEF RunInSync
    <3> QED
      BY <1>1, <1>2, <1>4, <1>7, <2>2, <3>4, LastAdded DEF RunInSync
  <2> QED
    BY <1>7, <2>1, <2>2
<1>8. gui'[h] = s /\ link' = link
  BY DEF s
<1> QED
  BY <1>5, <1>6, <1>7, <1>8 DEF Agrees, e

LEMMA ProcessMessageAgrees ==
  ASSUME AgreeInv, NEW g \in Guis, ProcessMessage(g), NEW h \in Guis
  PROVE  Agrees(h)'
<1> DEFINE u == up[g]  call == Head(u)
<1>1. /\ u \in Seq(Call) /\ u # <<>> /\ call \in Call
      /\ up'[g] = Tail(u) /\ \A x \in Guis \ {g} : up'[x] = up[x]
      /\ UNCHANGED <<clients, link, handlers, handled, gui>>
      /\ run \in Run
  BY DEF AgreeInv, Inv, TypeOK, ProcessMessage
<1>2. ASSUME NEW K, call \notin K, None(up'[h], K) PROVE None(up[h], K)
  <2>1. None(u, K) <=> call \notin K /\ None(Tail(u), K)
    BY <1>1, NoneTail
  <2> QED
    BY <1>1, <1>2, <2>1
<1>3. /\ call \in Updates <=> call.op = "updateRun"
      /\ call \in Asks <=> call.op = "updateAll"
  BY <1>1, CallKinds
<1>4. ASSUME NEW r \in Run
      PROVE  LET m == ChangedRun(r) IN
             /\ m \in Callback /\ m \in Runs /\ m \in RunsLike(r)
             /\ m \notin Configurations
  BY Callbacks, CallbackKinds DEF ChangedRun, Runs, RunsLike, Alike
<1>5. ASSUME NEW state \in AdepoState
      PROVE  LET m == ChangedState(state) IN
             /\ m \in Callback /\ m \in States /\ m \notin Runs /\ m \notin Configurations
  BY Callbacks, CallbackKinds DEF ChangedState, States
<1>6. /\ ChangedConfiguration \in Callback /\ ChangedConfiguration \in Configurations
      /\ ChangedConfiguration \notin Runs
  BY Callbacks, CallbackKinds DEF ChangedConfiguration, Configurations
<1>7. ASSUME call.op = "updateRun", UpdateRun(call.run)
      PROVE  Agrees(h)'
  <2> DEFINE r == call.run  c == <<ChangedRun(r)>>
  <2>1. r \in Run /\ run' = r /\ Broadcast(c)
    BY <1>1, <1>7, CallCases DEF UpdateRun
  <2>2. c \in Seq(Callback) /\ DOMAIN c = {1} /\ c[1] = ChangedRun(r)
    BY <2>1, <1>4
  <2>3. LastIn(c, Runs, RunsLike(run')) /\ Followed(c, Configurations, States)
    <3> HIDE DEF c, r
    <3> QED BY <2>1, <2>2, <1>4 DEF LastIn, Followed
  <2>4. Asked(up'[h]) => Asked(up[h])
    BY <1>2, <1>3, <1>7 DEF Asked
  <2> HIDE DEF c, r, call, u
  <2> QED
    BY <1>1, <2>1, <2>2, <2>3, <2>4, ToldAgrees
<1>8. ASSUME call.op = "updateAll", UpdateAll
      PROVE  Agrees(h)'
  <2> DEFINE c == <<ChangedRun(run), ChangedConfiguration, ChangedState(adepoState)>>
  <2>1. run' = run /\ Broadcast(c) /\ adepoState \in AdepoState
    BY <1>8 DEF UpdateAll, AgreeInv, Inv, TypeOK
  <2>2. c \in Seq(Callback) /\ DOMAIN c = {1, 2, 3} /\ c[1] = ChangedRun(run)
        /\ c[2] = ChangedConfiguration /\ c[3] = ChangedState(adepoState)
    BY <1>1, <1>4, <1>5, <1>6, <2>1
  <2> HIDE DEF c
  <2>3. LastIn(c, Runs, RunsLike(run'))
    BY <1>1, <1>4, <1>5, <1>6, <2>1, <2>2 DEF LastIn
  <2>4. Followed(c, Configurations, States) /\ ~None(c, Configurations)
    BY <1>1, <1>4, <1>5, <1>6, <2>1, <2>2 DEF Followed, None
  <2> HIDE DEF call, u
  <2> QED
    BY <1>1, <2>1, <2>2, <2>3, <2>4, ToldAgrees
<1>9. ASSUME call.op = "start", Started
      PROVE  Agrees(h)'
  <2>1. call \notin Asks /\ call \notin Updates
    BY <1>3, <1>9
  <2>2. Asked(up'[h]) => Asked(up[h])
    BY <1>2, <2>1 DEF Asked
  <2>3. None(up'[h], Updates \cup Asks) => None(up[h], Updates \cup Asks)
    BY <1>2, <2>1
  <2>4. UNCHANGED <<run, down, link, gui>> /\ Agrees(h)
    BY <1>1, <1>9 DEF Started, AgreeInv
  <2> QED
    BY <2>2, <2>3, <2>4 DEF Agrees
<1>10. ASSUME call.op = "stop", StopDAQ
      PROVE  Agrees(h)'
  <2>1. call \notin Asks /\ call \notin Updates
    BY <1>3, <1>10
  <2> DEFINE c == <<ChangedState(adepoState')>>
  <2>2. Broadcast(c) /\ adepoState' \in AdepoState /\ run' = [run EXCEPT !.mode = "CLOSURE"]
    BY <1>10 DEF StopDAQ, AgreeInv, Inv, TypeOK, AdepoState
  <2>3. c \in Seq(Callback) /\ DOMAIN c = {1} /\ c[1] = ChangedState(adepoState')
    BY <1>5, <2>2
  <2>4. None(c, Runs) /\ Followed(c, Configurations, States)
    <3> HIDE DEF c
    <3> QED BY <1>5, <2>2, <2>3 DEF None, Followed
  <2>5. \A x \in Run : Alike(x, run) => Alike(x, run')
    BY <1>1, <2>2 DEF Alike, Run
  <2>6. /\ Asked(up'[h]) => Asked(up[h])
        /\ None(up'[h], Updates \cup Asks) => None(up[h], Updates \cup Asks)
    BY <1>2, <2>1 DEF Asked
  <2> HIDE DEF c, call, u
  <2> QED
    BY <1>1, <2>2, <2>3, <2>4, <2>5, <2>6, ToldAgrees
<1> QED
  BY <1>7, <1>8, <1>9, <1>10 DEF ProcessMessage

LEMMA StateChangedAgrees ==
  ASSUME AgreeInv, LwdaqStateChanged, NEW h \in Guis
  PROVE  Agrees(h)'
<1> DEFINE c == <<ChangedState(adepoState')>>
<1>1. Broadcast(c) /\ adepoState' \in AdepoState /\ UNCHANGED <<run, link, gui, up>>
  BY DEF LwdaqStateChanged
<1>2. c[1] \in Callback /\ c[1] \notin Runs /\ c[1] \notin Configurations
  BY <1>1, Callbacks, CallbackKinds DEF ChangedState
<1>3. c \in Seq(Callback) /\ DOMAIN c = {1}
  BY <1>2
<1> HIDE DEF c
<1>4. None(c, Runs) /\ Followed(c, Configurations, States)
  BY <1>2, <1>3 DEF None, Followed
<1> QED
  BY <1>1, <1>3, <1>4, ToldAgrees

(* The connection of g changes.                                            *)
LEMMA ConnectionAgrees ==
  ASSUME AgreeInv, NEW g \in Guis, NEW h \in Guis,
         NewConnection(g) \/ OnConnected(g) \/ ConnectFails(g)
           \/ SocketDisconnected(g) \/ Reconnect(g)
  PROVE  Agrees(h)'
<1>1. /\ link \in [Guis -> {"closed", "opening", "open"}] /\ gui \in [Guis -> Gui]
      /\ up \in [Guis -> Seq(Call)] /\ down \in [Guis -> Seq(Callback)]
      /\ Agrees(h)
  BY DEF AgreeInv, Inv, TypeOK
<1>2. ASSUME NewConnection(g) PROVE Agrees(h)'
  BY <1>1, <1>2, AgreesStill DEF NewConnection
<1>3. ASSUME OnConnected(g) PROVE Agrees(h)'
  <2>1. /\ link' = [link EXCEPT ![g] = "open"]
        /\ up' = [up EXCEPT ![g] = Append(@, Simple("updateAll"))]
        /\ UNCHANGED <<run, gui, down>>
    BY <1>3 DEF OnConnected, serverVars
  <2>2. CASE h # g
    <3>1. link'[h] = link[h] /\ up'[h] = up[h]
      BY <1>1, <2>1, <2>2
    <3> QED
      BY <1>1, <2>1, <3>1, AgreesStill
  <2>3. CASE h = g
    <3>1. up'[g] = Append(up[g], Simple("updateAll"))
      BY <1>1, <2>1
    <3>2. Len(up[g]) + 1 \in DOMAIN up'[g] /\ up'[g][Len(up[g]) + 1] = Simple("updateAll")
      BY <1>1, <3>1
    <3>3. ~None(up'[g], Updates \cup Asks) /\ ~Asked(up'[g])
      BY <3>2 DEF None, Asked, Asks
    <3> QED
      BY <1>1, <2>1, <2>3, <3>3 DEF Agrees
  <2> QED
    BY <2>2, <2>3
<1>4. ASSUME ConnectFails(g) \/ SocketDisconnected(g) \/ Reconnect(g)
      PROVE  Agrees(h)'
  <2> DEFINE s == ShowState(gui[g], "CONNECTING")
  <2>1. /\ link' = [link EXCEPT ![g] = "closed"] \/ link' = [link EXCEPT ![g] = "opening"]
        /\ gui' = [gui EXCEPT ![g] = s] \/ UNCHANGED gui
        /\ \/ UNCHANGED down
           \/ down' = [down EXCEPT ![g] = <<>>] /\ gui' = [gui EXCEPT ![g] = s]
        /\ \A x \in Guis \ {g} : up'[x] = up[x]
        /\ UNCHANGED run
    BY <1>1, <1>4 DEF ConnectFails, SocketDisconnected, Reconnect, serverVars
  <2>2. s.canStart = (s.shown = "IDLE" /\ s.filled)
    BY <1>1 DEF ShowState, Gui
  <2> HIDE DEF s
  <2>3. CASE h # g
    <3>1. link'[h] = link[h] /\ up'[h] = up[h] /\ gui'[h] = gui[h] /\ down'[h] = down[h]
      BY <1>1, <2>1, <2>3
    <3> QED
      BY <1>1, <2>1, <3>1, AgreesStill
  <2>4. CASE h = g
    <3>1. link'[g] # "open"
      BY <1>1, <2>1
    <3>2. /\ gui'[g] = s \/ gui'[g] = gui[g]
          /\ down'[g] = down[g] \/ (down'[g] = <<>> /\ gui'[g] = s)
      BY <1>1, <2>1
    <3>3. Buttons(gui[g], down[g])
      BY <1>1, <2>4 DEF Agrees
    <3>4. Followed(<<>>, Configurations, States)
      BY DEF Followed
    <3>5. Buttons(gui'[g], down'[g])
      BY <2>2, <3>2, <3>3, <3>4 DEF Buttons
    <3> QED
      BY <2>4, <3>1, <3>5 DEF Agrees
  <2> QED
    BY <2>3, <2>4
<1> QED
  BY <1>2, <1>3, <1>4

LEMMA RestartAgrees ==
  ASSUME AgreeInv, ServerRestart, NEW h \in Guis
  PROVE  Agrees(h)'
<1> DEFINE s == ShowState(gui[h], "CONNECTING")
<1>1. gui[h] \in Gui /\ gui'[h] = s /\ down'[h] = <<>> /\ link'[h] = "closed"
  BY DEF ServerRestart, AgreeInv, Inv, TypeOK
<1>2. s.canStart = (s.shown = "IDLE" /\ s.filled)
  BY <1>1 DEF ShowState, Gui
<1> HIDE DEF s
<1>3. Followed(<<>>, Configurations, States)
  BY DEF Followed
<1> QED
  BY <1>1, <1>2, <1>3 DEF Agrees, Buttons

LEMMA InitAgrees == Init => AgreeInv
<1> SUFFICES ASSUME Init, NEW g \in Guis PROVE Agrees(g)
  BY InitInv DEF AgreeInv
<1>1. /\ link[g] = "opening" /\ down[g] = <<>>
      /\ ~gui[g].canStart /\ gui[g].shown = "CONNECTING"
  BY DEF Init
<1>2. gui[g].canStart = (gui[g].shown = "IDLE" /\ gui[g].filled)
  BY <1>1, InitInv DEF Init
<1>3. Followed(<<>>, Configurations, States)
  BY DEF Followed
<1> QED
  BY <1>1, <1>2, <1>3 DEF Agrees, Buttons

LEMMA NextAgrees == AgreeInv /\ [Next]_vars => AgreeInv'
<1> SUFFICES ASSUME AgreeInv, [Next]_vars, NEW h \in Guis PROVE Agrees(h)'
  BY NextInv DEF AgreeInv
<1>1. ASSUME UNCHANGED vars PROVE Agrees(h)'
  BY <1>1 DEF AgreeInv, Agrees, vars, serverVars
<1>2. Next => \/ ServerRestart \/ LwdaqStateChanged
              \/ \E g \in Guis :
                   \/ Press(g) \/ SpinTimeout(g) \/ Receive(g) \/ ProcessMessage(g)
                   \/ NewConnection(g) \/ OnConnected(g) \/ ConnectFails(g)
                   \/ SocketDisconnected(g) \/ Reconnect(g)
  BY DEF Next, Step, Fault
<1> QED
  BY <1>1, <1>2, UserAgrees, ReceiveAgrees, ProcessMessageAgrees, StateChangedAgrees,
     ConnectionAgrees, RestartAgrees


-----------------------------------------------------------------------------
(* Users who act one after the other.  From what the user of a client did  *)
(* to the end of it (rp) every run that is sent or told is the one that    *)
(* was asked for, and until the server has it some client will send it.    *)

Shows(s, r) == s.held = r /\ s.time = r.time

Serves(g, rp) ==
  /\ None(up[g], Updates \ {Update(want)})
  /\ None(down[g], Runs \ {ChangedRun(want)})
  /\ gui[g].spinTimer /\ (link[g] = "open" \/ ~rp) => Asking(gui[g]) = want
  /\ Followed(up[g], Stops, Updates)
  /\ rp => /\ link[g] # "opening"
           /\ None(up[g], Asks) /\ None(down[g], Configurations)
           /\ link[g] = "closed" => up[g] = <<>>
  /\ ~rp => /\ None(up[g], Stops)
            /\ Shows(gui[g], want) \/ Preceded(down[g], Configurations, Runs)

Sending(g) == link[g] = "open" /\ (~None(up[g], Updates) \/ gui[g].spinTimer)

Known(rp) ==
  \/ run = want /\ runFile = want
  \/ rp /\ \E g \in Guis : Sending(g)

CalmInv(rp) == (\A g \in Guis : Serves(g, rp)) /\ Known(rp)

LastInv ==
  /\ AgreeInv
  /\ want \in Run /\ rippling \in BOOLEAN /\ calm \in BOOLEAN
  /\ calm => IF rippling THEN CalmInv(TRUE) ELSE CalmInv(FALSE)

LEMMA Nothing ==
  /\ \A K : None(<<>>, K)
  /\ \A K, L : Followed(<<>>, K, L) /\ Preceded(<<>>, K, L)
BY DEF None, Followed, Preceded

LEMMA NoneWithin ==
  /\ \A d, K, L : None(d, L) /\ K \subseteq L => None(d, K)
  /\ \A d, K, L : None(d, K) => Followed(d, K, L) /\ Preceded(d, K, L)
BY DEF None, Followed, Preceded

LEMMA QuietHas ==
  ASSUME NEW rp, CalmInv(rp), Quiet
  PROVE  run = want /\ runFile = want
BY Nothing DEF CalmInv, Known, Sending, Quiet

LEMMA LastImplies == LastInv => LastChoiceWins
BY QuietHas DEF LastInv, LastChoiceWins

LEMMA QuietEnds == CalmInv(TRUE) /\ Quiet => CalmInv(FALSE)
<1> SUFFICES ASSUME CalmInv(TRUE), Quiet PROVE CalmInv(FALSE)
  OBVIOUS
<1>1. Known(FALSE)
  BY QuietHas DEF Known
<1>2. ASSUME NEW g \in Guis PROVE Serves(g, FALSE)
  <2>1. up[g] = <<>> /\ down[g] = <<>> /\ ~gui[g].spinTimer
    BY DEF Quiet
  <2> QED
    BY <2>1, Nothing DEF Serves
<1> QED
  BY <1>1, <1>2 DEF CalmInv

LEMMA QuietEndsNext == CalmInv(TRUE)' /\ Quiet' => CalmInv(FALSE)'
BY QuietEnds, PTL

LEMMA ShowsAsking ==
  ASSUME NEW s \in Gui, NEW r \in Run
  PROVE  Shows(s, r) => Asking(s) = r
BY DEF Shows, Asking, Gui, Run

(* What a step leaves alone.                                               *)
LEMMA ServesStill ==
  ASSUME NEW rp \in BOOLEAN, NEW g \in Guis, Serves(g, rp), UNCHANGED want,
         link'[g] = link[g], up'[g] = up[g], down'[g] = down[g], gui'[g] = gui[g]
  PROVE  Serves(g, rp)'
BY DEF Serves

LEMMA EchoParts ==
  ASSUME NEW s \in Gui, NEW m \in Callback
  PROVE  /\ Echo(s, m) \in Seq(Call)
         /\ None(Echo(s, m), Asks) /\ None(Echo(s, m), Stops)
         /\ m \notin Runs => Echo(s, m) = <<>>
         /\ None(Echo(s, m), Updates \ {Update(m.run)})
<1>1. m \in Runs <=> m.op = "changedRun"
  BY CallbackKinds
<1>2. CASE m \in Runs /\ m.run.instant # s.held.instant
  <2>1. m.run \in Run /\ Echo(s, m) = <<Update(m.run)>>
    BY <1>1, <1>2, CallbackCases DEF Echo
  <2> QED
    BY <1>2, <2>1, ShortCalls
<1>3. CASE ~(m \in Runs /\ m.run.instant # s.held.instant)
  <2>1. Echo(s, m) = <<>>
    BY <1>1, <1>3 DEF Echo
  <2>2. <<>> \in Seq(Call)
    OBVIOUS
  <2> QED
    BY <2>1, <2>2, Nothing
<1> QED
  BY <1>2, <1>3

(* What client g sends is the run that was asked for.                      *)
LEMMA SendCalm ==
  ASSUME TypeOK, NEW rp \in BOOLEAN, NEW g \in Guis, Serves(g, rp),
         NEW c \in Seq(Call), Send(g, c),
         None(c, Asks) /\ None(c, Stops),
         link[g] = "open" => None(c, Updates \ {Update(want)})
  PROVE  /\ None(up'[g], Updates \ {Update(want)})
         /\ Followed(up'[g], Stops, Updates)
         /\ rp => None(up'[g], Asks) /\ (link[g] = "closed" => up'[g] = <<>>)
         /\ ~rp => None(up'[g], Stops)
<1> DEFINE u == up[g]
<1>1. u \in Seq(Call)
  BY DEF TypeOK
<1>2. /\ link[g] = "open" => up'[g] = u \o c
      /\ link[g] # "open" => up'[g] = u
  BY SendAdds
<1>3. \A K : None(u \o c, K) <=> None(u, K) /\ None(c, K)
  BY <1>1, NoneConcat
<1>4. Followed(u, Stops, Updates) /\ Followed(c, Stops, Updates)
        => Followed(u \o c, Stops, Updates)
  BY <1>1, OrderConcat
<1>5. Followed(c, Stops, Updates)
  BY NoneWithin
<1>6. /\ None(u, Updates \ {Update(want)}) /\ Followed(u, Stops, Updates)
      /\ rp => None(u, Asks) /\ (link[g] = "closed" => u = <<>>)
      /\ ~rp => None(u, Stops)
  BY DEF Serves
<1> HIDE DEF u
<1>7. CASE link[g] = "open"
  BY <1>2, <1>3, <1>4, <1>5, <1>6, <1>7
<1>8. CASE link[g] # "open"
  BY <1>2, <1>6, <1>8
<1> QED
  BY <1>7, <1>8

LEMMA TimeoutCalm ==
  ASSUME AgreeInv, want \in Run, NEW rp \in BOOLEAN, CalmInv(rp), UNCHANGED want,
         NEW g \in Guis, SpinTimeout(g)
  PROVE  CalmInv(rp)'
<1> DEFINE s == gui[g]
<1>1. PICK a \in Gui, c \in Seq(Call) :
        /\ Behaves(s, a, c) /\ Acts(g, a, c)
        /\ a.held = Asking(s) /\ a.time = s.time /\ ~a.spinTimer
        /\ None(c, Updates \ {Update(a.held)}) /\ None(c, Stops)
  BY TimeoutType DEF AgreeInv, Inv
<1>2. s.spinTimer
  BY TimeoutType DEF AgreeInv, Inv
<1>3. /\ \A h \in Guis : \A K : None(up'[h], K) => None(up[h], K)
      /\ link[g] = "open" => up'[g] = up[g] \o c
      /\ \A h \in Guis : h # g \/ link[g] # "open" => up'[h] = up[h]
  BY <1>1, SendAdds DEF AgreeInv, Inv, Acts
<1>4. UNCHANGED <<run, runFile, link, down>> /\ gui'[g] = a
      /\ \A x \in Guis \ {g} : gui'[x] = gui[x]
  BY <1>1 DEF AgreeInv, Inv, TypeOK, Acts, serverVars
<1>5. Serves(g, rp)
  BY DEF CalmInv
<1>6. link[g] = "open" \/ ~rp => a.held = want
  BY <1>1, <1>2, <1>5 DEF Serves
<1>7. /\ None(up'[g], Updates \ {Update(want)})
      /\ Followed(up'[g], Stops, Updates)
      /\ rp => None(up'[g], Asks) /\ (link[g] = "closed" => up'[g] = <<>>)
      /\ ~rp => None(up'[g], Stops)
  BY <1>1, <1>5, <1>6, SendCalm DEF AgreeInv, Inv, Acts, Behaves
<1>8. ~rp /\ Shows(s, want) => Shows(a, want)
  BY <1>1, <1>6 DEF Shows
<1>9. Serves(g, rp)'
  BY <1>1, <1>4, <1>5, <1>7, <1>8 DEF Serves
<1>10. ASSUME NEW h \in Guis \ {g} PROVE Serves(h, rp)'
  BY <1>3, <1>4, ServesStill DEF CalmInv
<1>11. ASSUME NEW h \in Guis, Sending(h) PROVE Sending(h)'
  <2>1. CASE h # g
    BY <1>3, <1>4, <1>11, <2>1 DEF Sending
  <2>2. CASE h = g
    <3>1. link[g] = "open" /\ ~None(c, Updates)
      BY <1>1, <1>11, <2>2 DEF Sending, Behaves
    <3>2. up[g] \in Seq(Call)
      BY DEF AgreeInv, Inv, TypeOK
    <3>3. ~None(up[g] \o c, Updates)
      BY <3>1, <3>2, NoneConcat
    <3> QED
      BY <1>3, <1>4, <2>2, <3>1, <3>3 DEF Sending
  <2> QED
    BY <2>1, <2>2
<1>12. Known(rp)'
  BY <1>4, <1>11 DEF CalmInv, Known
<1> QED
  BY <1>9, <1>10, <1>12 DEF CalmInv

LEMMA ReceiveCalm ==
  ASSUME AgreeInv, want \in Run, NEW rp \in BOOLEAN, CalmInv(rp), UNCHANGED want,
         NEW g \in Guis, Receive(g)
  PROVE  CalmInv(rp)'
<1> DEFINE d == down[g]  s == gui[g]  m == Head(d)  a == After(s, m)
<1>1. /\ d \in Seq(Callback) /\ d # <<>> /\ m \in Callback /\ s \in Gui /\ link[g] = "open"
      /\ a \in Gui
  BY AfterType DEF AgreeInv, Inv, TypeOK, Receive
<1>2. /\ gui' = [gui EXCEPT ![g] = a] /\ Send(g, Echo(s, m))
      /\ UNCHANGED <<run, runFile, link>>
  BY DEF Receive, serverVars
<1>3. /\ down'[g] = d \/ down'[g] = Tail(d)
      /\ \A x \in Guis \ {g} : down'[x] = down[x]
  BY DEF AgreeInv, Inv, TypeOK, Receive
<1>4. gui'[g] = a /\ \A x \in Guis \ {g} : gui'[x] = gui[x]
  BY <1>2 DEF AgreeInv, Inv, TypeOK
<1>5. /\ Echo(s, m) \in Seq(Call)
      /\ None(Echo(s, m), Asks) /\ None(Echo(s, m), Stops)
      /\ m \notin Runs => Echo(s, m) = <<>>
      /\ None(Echo(s, m), Updates \ {Update(m.run)})
  BY <1>1, EchoParts
<1>6. /\ a.held = IF m \in Runs THEN m.run ELSE s.held
      /\ \/ m \notin States /\ a.time = a.held.time
         \/ m \in States /\ a.time = s.time /\ a.spinTimer = s.spinTimer
      /\ s.spinTimer => a.spinTimer
      /\ a.spinTimer => s.spinTimer \/ s.time # a.time
  BY <1>1, AfterParts
<1>7. /\ m \in Runs => m \notin States /\ m \notin Configurations
      /\ m \in States => m \notin Configurations
      /\ m \in Runs \/ m \in States \/ m \in Configurations
  BY <1>1, CallbackKinds, CallbackCases
<1>8. \A K : None(d, K) <=> m \notin K /\ None(Tail(d), K)
  BY <1>1, NoneTail
<1>9. /\ Preceded(d, Configurations, Runs) => m \notin Configurations
      /\ Preceded(d, Configurations, Runs) /\ m \notin Runs
           => Preceded(Tail(d), Configurations, Runs)
  BY <1>1, OrderTail
<1>10. Serves(g, rp)
  BY DEF CalmInv
<1>11. m \in Runs => m.run = want
  <2>1. None(d, Runs \ {ChangedRun(want)})
    BY <1>10 DEF Serves
  <2>2. m \in Runs => m = ChangedRun(want)
    BY <1>8, <2>1
  <2> HIDE DEF m
  <2> QED
    BY <2>2 DEF ChangedRun
<1>12. /\ \A h \in Guis : \A K : None(up'[h], K) => None(up[h], K)
       /\ \A h \in Guis : h # g => up'[h] = up[h]
  BY <1>2, <1>5, SendAdds DEF AgreeInv, Inv
<1>13. /\ None(up'[g], Updates \ {Update(want)})
       /\ Followed(up'[g], Stops, Updates)
       /\ rp => None(up'[g], Asks) /\ (link[g] = "closed" => up'[g] = <<>>)
       /\ ~rp => None(up'[g], Stops)
  <2>1. None(Echo(s, m), Updates \ {Update(want)})
    BY <1>5, <1>11, Nothing
  <2> QED
    BY <1>2, <1>5, <1>10, <2>1, SendCalm DEF AgreeInv, Inv
<1> HIDE DEF d, s, m, a
<1>14. m \in Runs => Shows(a, want)
  BY <1>6, <1>7, <1>11 DEF Shows
<1>15. Shows(s, want) => Shows(a, want)
  BY <1>6, <1>11 DEF Shows
<1>16. m \in Configurations => ~rp /\ Shows(s, want)
  BY <1>8, <1>9, <1>10 DEF Serves, d, s
<1>17. a.spinTimer => Asking(a) = want
  <2>1. Shows(a, want) => Asking(a) = want
    BY <1>1, ShowsAsking
  <2>2. ASSUME m \in States, a.spinTimer PROVE Asking(a) = want
    <3>1. a.held = s.held /\ a.time = s.time /\ s.spinTimer
      BY <1>6, <1>7, <2>2
    <3>2. Asking(s) = want
      BY <1>1, <1>10, <3>1 DEF Serves, s
    <3> QED
      BY <3>1, <3>2 DEF Asking
  <2> QED
    BY <1>7, <1>14, <1>15, <1>16, <2>1, <2>2
<1>18. ~rp => Shows(a, want) \/ Preceded(down'[g], Configurations, Runs)
  <2>1. ~rp => Shows(s, want) \/ Preceded(d, Configurations, Runs)
    BY <1>10 DEF Serves, d, s
  <2> QED
    BY <1>3, <1>9, <1>14, <1>15, <2>1
<1>19. Serves(g, rp)'
  <2>1. None(down'[g], Runs \ {ChangedRun(want)}) /\ (rp => None(down'[g], Configurations))
    BY <1>3, <1>8, <1>10 DEF Serves, d
  <2>2. rp => link[g] # "opening"
    BY <1>10 DEF Serves
  <2> QED
    BY <1>2, <1>4, <1>13, <1>17, <1>18, <2>1, <2>2 DEF Serves
<1>20. ASSUME NEW h \in Guis \ {g} PROVE Serves(h, rp)'
  BY <1>2, <1>3, <1>4, <1>12, ServesStill DEF CalmInv
<1>21. ASSUME NEW h \in Guis, Sending(h) PROVE Sending(h)'
  BY <1>2, <1>4, <1>6, <1>12, <1>21 DEF Sending, s
<1>22. Known(rp)'
  BY <1>2, <1>21 DEF CalmInv, Known
<1> QED
  BY <1>19, <1>20, <1>22 DEF CalmInv


(* Client h is told the run that was asked for, or no run.                 *)
LEMMA ToldCalm ==
  ASSUME TypeOK, NEW rp \in BOOLEAN, NEW h \in Guis, Serves(h, rp),
         NEW c \in Seq(Callback), Broadcast(c), UNCHANGED <<link, gui, want>>,
         None(c, Runs \ {ChangedRun(want)}), Preceded(c, Configurations, Runs),
         rp => None(c, Configurations),
         up'[h] = up[h] \/ (up[h] # <<>> /\ up'[h] = Tail(up[h]))
  PROVE  Serves(h, rp)'
<1> DEFINE d == down[h]  u == up[h]
<1>1. d \in Seq(Callback) /\ u \in Seq(Call)
      /\ (down'[h] = d \/ down'[h] = d \o c)
  BY BroadcastType DEF TypeOK
<1>2. \A K : None(d \o c, K) <=> None(d, K) /\ None(c, K)
  BY <1>1, NoneConcat
<1>3. Preceded(d, Configurations, Runs) => Preceded(d \o c, Configurations, Runs)
  BY <1>1, OrderConcat
<1>4. u # <<>> => /\ \A K : None(u, K) => None(Tail(u), K)
                  /\ Followed(u, Stops, Updates) => Followed(Tail(u), Stops, Updates)
  BY <1>1, NoneTail, OrderTail
<1>5. gui'[h] = gui[h] /\ link'[h] = link[h]
  OBVIOUS
<1> HIDE DEF d, u
<1>6. /\ None(down'[h], Runs \ {ChangedRun(want)})
      /\ rp => None(down'[h], Configurations)
      /\ ~rp => Shows(gui[h], want) \/ Preceded(down'[h], Configurations, Runs)
  BY <1>1, <1>2, <1>3 DEF Serves, d
<1>7. /\ None(up'[h], Updates \ {Update(want)})
      /\ Followed(up'[h], Stops, Updates)
      /\ rp => None(up'[h], Asks) /\ (link[h] = "closed" => up'[h] = <<>>)
      /\ ~rp => None(up'[h], Stops)
  BY <1>4 DEF Serves, u
<1>8. /\ gui[h].spinTimer /\ (link[h] = "open" \/ ~rp) => Asking(gui[h]) = want
      /\ rp => link[h] # "opening"
  BY DEF Serves
<1> QED
  BY <1>5, <1>6, <1>7, <1>8 DEF Serves

LEMMA ProcessCalm ==
  ASSUME AgreeInv, want \in Run, NEW rp \in BOOLEAN, CalmInv(rp), UNCHANGED want,
         NEW g \in Guis, ProcessMessage(g)
  PROVE  CalmInv(rp)'
<1> DEFINE u == up[g]  call == Head(u)
<1>1. /\ u \in Seq(Call) /\ u # <<>> /\ call \in Call
      /\ up'[g] = Tail(u) /\ \A x \in Guis \ {g} : up'[x] = up[x]
      /\ UNCHANGED <<clients, link, handlers, handled, gui>>
      /\ run \in Run /\ adepoState \in AdepoState /\ TypeOK
  BY DEF AgreeInv, Inv, TypeOK, ProcessMessage
<1>2. \A h \in Guis : up'[h] = up[h] \/ (up[h] # <<>> /\ up'[h] = Tail(up[h]))
  BY <1>1
<1>3. /\ call \in Updates <=> call.op = "updateRun" /\ call.run \in Run /\ call = Update(call.run)
      /\ call \in Updates <=> call.op = "updateRun"
      /\ call \in Asks <=> call.op = "updateAll"
      /\ call \in Stops <=> call.op = "stop"
  BY <1>1, CallKinds
<1>4. \A K : None(u, K) <=> call \notin K /\ None(Tail(u), K)
  BY <1>1, NoneTail
<1>5. Serves(g, rp)
  BY DEF CalmInv
<1>6. ASSUME NEW r \in Run
      PROVE  /\ ChangedRun(r) \in Callback /\ ChangedRun(r) \in Runs
             /\ ChangedRun(r) \notin Configurations
  BY Callbacks, CallbackKinds DEF ChangedRun, Runs
<1>7. ASSUME NEW state \in AdepoState
      PROVE  /\ ChangedState(state) \in Callback
             /\ ChangedState(state) \notin Runs /\ ChangedState(state) \notin Configurations
  BY Callbacks, CallbackKinds DEF ChangedState
<1>8. ChangedConfiguration \in Callback /\ ChangedConfiguration \notin Runs
  BY Callbacks, CallbackKinds DEF ChangedConfiguration
<1>9. ASSUME call.op = "updateRun", UpdateRun(call.run)
      PROVE  CalmInv(rp)'
  <2>1. call.run = want
    <3>1. call \in {Update(want)}
      BY <1>3, <1>4, <1>5, <1>9 DEF Serves
    <3> HIDE DEF call
    <3> QED
      BY <3>1 DEF Update
  <2> DEFINE c == <<ChangedRun(want)>>
  <2>2. Broadcast(c) /\ run' = want /\ runFile' = want
    BY <1>9, <2>1 DEF UpdateRun
  <2>3. c \in Seq(Callback) /\ DOMAIN c = {1} /\ c[1] = ChangedRun(want)
    BY <1>6
  <2> HIDE DEF c, call, u
  <2>4. None(c, Runs \ {ChangedRun(want)}) /\ None(c, Configurations)
    BY <1>6, <2>3 DEF None
  <2>5. ASSUME NEW h \in Guis PROVE Serves(h, rp)'
    BY <1>1, <1>2, <2>2, <2>3, <2>4, ToldCalm, NoneWithin DEF CalmInv
  <2> QED
    BY <2>2, <2>5 DEF CalmInv, Known
<1>10. ASSUME call.op = "updateAll", UpdateAll
       PROVE  CalmInv(rp)'
  <2>1. ~rp
    BY <1>3, <1>4, <1>5, <1>10 DEF Serves
  <2>2. run = want
    BY <2>1 DEF CalmInv, Known
  <2> DEFINE c == <<ChangedRun(want), ChangedConfiguration, ChangedState(adepoState)>>
  <2>3. Broadcast(c) /\ run' = want /\ runFile' = want
    BY <1>10, <2>2 DEF UpdateAll
  <2>4. c \in Seq(Callback) /\ DOMAIN c = {1, 2, 3} /\ c[1] = ChangedRun(want)
        /\ c[2] = ChangedConfiguration /\ c[3] = ChangedState(adepoState)
    BY <1>1, <1>6, <1>7, <1>8
  <2> HIDE DEF c, call, u
  <2>5. None(c, Runs \ {ChangedRun(want)}) /\ Preceded(c, Configurations, Runs)
    BY <1>1, <1>6, <1>7, <1>8, <2>4 DEF None, Preceded
  <2>6. ASSUME NEW h \in Guis PROVE Serves(h, rp)'
    BY <1>1, <1>2, <2>1, <2>3, <2>4, <2>5, ToldCalm DEF CalmInv
  <2> QED
    BY <2>3, <2>6 DEF CalmInv, Known
<1>11. ASSUME call.op = "start", Started
       PROVE  CalmInv(rp)'
  <2>1. UNCHANGED <<run, runFile, down>> /\ call \notin Updates
    BY <1>3, <1>11 DEF Started
  <2> HIDE DEF call
  <2>2. ASSUME NEW h \in Guis PROVE Serves(h, rp)'
    <3>1. Serves(h, rp) /\ up[h] \in Seq(Call)
      BY <1>1 DEF CalmInv, TypeOK
    <3>2. up[h] # <<>> =>
            /\ \A K : None(up[h], K) => None(Tail(up[h]), K)
            /\ Followed(up[h], Stops, Updates) => Followed(Tail(up[h]), Stops, Updates)
      BY <3>1, NoneTail, OrderTail
    <3> HIDE DEF u
    <3>3. gui'[h] = gui[h] /\ link'[h] = link[h] /\ down'[h] = down[h]
      BY <1>1, <2>1
    <3> QED
      BY <1>2, <3>1, <3>2, <3>3 DEF Serves
  <2>3. ASSUME NEW h \in Guis, Sending(h) PROVE Sending(h)'
    BY <1>1, <1>4, <2>1, <2>3 DEF Sending
  <2> QED
    BY <2>1, <2>2, <2>3 DEF CalmInv, Known
<1>12. ASSUME call.op = "stop", StopDAQ
       PROVE  CalmInv(rp)'
  <2>1. call \in Stops
    BY <1>3, <1>12
  <2>2. rp /\ link[g] = "open"
    BY <1>1, <1>4, <1>5, <2>1 DEF Serves, TypeOK
  <2>3. ~None(Tail(u), Updates)
    BY <1>1, <1>5, <2>1, OrderTail DEF Serves
  <2>4. Known(rp)'
    BY <1>1, <2>2, <2>3 DEF Known, Sending
  <2> DEFINE c == <<ChangedState(adepoState')>>
  <2>5. Broadcast(c) /\ adepoState' \in AdepoState
    BY <1>1, <1>12 DEF StopDAQ, AdepoState
  <2>6. c \in Seq(Callback) /\ DOMAIN c = {1} /\ c[1] = ChangedState(adepoState')
    BY <1>7, <2>5
  <2> HIDE DEF c, call, u
  <2>7. None(c, Runs \ {ChangedRun(want)}) /\ None(c, Configurations)
    BY <1>7, <2>5, <2>6 DEF None
  <2>8. ASSUME NEW h \in Guis PROVE Serves(h, rp)'
    BY <1>1, <1>2, <2>5, <2>6, <2>7, ToldCalm, NoneWithin DEF CalmInv
  <2> QED
    BY <2>4, <2>8 DEF CalmInv
<1> QED
  BY <1>9, <1>10, <1>11, <1>12 DEF ProcessMessage

LEMMA StateChangedCalm ==
  ASSUME AgreeInv, want \in Run, NEW rp \in BOOLEAN, CalmInv(rp), UNCHANGED want,
         LwdaqStateChanged
  PROVE  CalmInv(rp)'
<1> DEFINE c == <<ChangedState(adepoState')>>
<1>1. Broadcast(c) /\ adepoState' \in AdepoState /\ TypeOK
      /\ UNCHANGED <<run, runFile, link, gui, up>>
  BY DEF LwdaqStateChanged, AgreeInv, Inv
<1>2. c[1] \in Callback /\ c[1] \notin Runs /\ c[1] \notin Configurations
  BY <1>1, Callbacks, CallbackKinds DEF ChangedState
<1>3. c \in Seq(Callback) /\ DOMAIN c = {1}
  BY <1>2
<1> HIDE DEF c
<1>4. None(c, Runs \ {ChangedRun(want)}) /\ None(c, Configurations)
  BY <1>2, <1>3 DEF None
<1>5. ASSUME NEW h \in Guis PROVE Serves(h, rp)'
  BY <1>1, <1>3, <1>4, ToldCalm, NoneWithin DEF CalmInv
<1> QED
  BY <1>1, <1>5 DEF CalmInv, Known, Sending


(* Connections change only after what users did has come to its end.       *)
LEMMA ConnectionCalm ==
  ASSUME AgreeInv, want \in Run, NEW rp \in BOOLEAN, CalmInv(rp), UNCHANGED want,
         rp => UNCHANGED <<clients, link>>, NEW g \in Guis,
         NewConnection(g) \/ OnConnected(g) \/ ConnectFails(g)
           \/ SocketDisconnected(g) \/ Reconnect(g)
  PROVE  CalmInv(rp)'
<1>1. /\ link \in [Guis -> {"closed", "opening", "open"}] /\ gui \in [Guis -> Gui]
      /\ up \in [Guis -> Seq(Call)] /\ down \in [Guis -> Seq(Callback)]
  BY DEF AgreeInv, Inv, TypeOK
<1>2. ASSUME NewConnection(g) PROVE CalmInv(rp)'
  <2>1. UNCHANGED <<run, runFile, link, gui, up, down>>
    BY <1>2 DEF NewConnection
  <2>2. ASSUME NEW h \in Guis PROVE Serves(h, rp)'
    BY <2>1, ServesStill DEF CalmInv
  <2> QED
    BY <2>1, <2>2 DEF CalmInv, Known, Sending
<1>3. ASSUME OnConnected(g) \/ ConnectFails(g) \/ SocketDisconnected(g) \/ Reconnect(g)
      PROVE  ~rp /\ UNCHANGED <<run, runFile>> /\ run = want /\ runFile = want
  <2>1. link'[g] # link[g] /\ UNCHANGED <<run, runFile>>
    BY <1>1, <1>3 DEF OnConnected, ConnectFails, SocketDisconnected, Reconnect, serverVars
  <2> QED
    BY <2>1 DEF CalmInv, Known
<1>4. Serves(g, rp)
  BY DEF CalmInv
<1>5. ASSUME OnConnected(g) PROVE CalmInv(rp)'
  <2> DEFINE u == up[g]  c == <<Simple("updateAll")>>
  <2>1. u \in Seq(Call) /\ c \in Seq(Call) /\ Append(u, Simple("updateAll")) = u \o c
    <3>1. u \in Seq(Call) /\ Simple("updateAll") \in Call
      BY <1>1, Calls
    <3> QED
      BY <3>1, AppendIsConcat
  <2>2. /\ up'[g] = u \o c /\ \A h \in Guis \ {g} : up'[h] = up[h] /\ link'[h] = link[h]
        /\ UNCHANGED <<gui, down>>
    BY <1>1, <1>5, <2>1 DEF OnConnected
  <2>3. DOMAIN c = {1} /\ c[1] = Simple("updateAll") /\ c[1] \in Call
    BY Calls
  <2> HIDE DEF u, c
  <2>4. c[1] \notin Updates /\ c[1] \notin Stops
    BY <2>3, CallKinds DEF Simple
  <2>5. None(c, Updates) /\ None(c, Stops)
    BY <2>3, <2>4 DEF None
  <2>6. \A K : None(u \o c, K) <=> None(u, K) /\ None(c, K)
    BY <2>1, NoneConcat
  <2>7. None(up'[g], Updates \ {Update(want)}) /\ None(up'[g], Stops)
    BY <1>3, <1>4, <1>5, <2>2, <2>5, <2>6, NoneWithin DEF Serves, u
  <2>8. Serves(g, rp)'
    BY <1>3, <1>4, <1>5, <2>2, <2>7, NoneWithin DEF Serves
  <2>9. ASSUME NEW h \in Guis \ {g} PROVE Serves(h, rp)'
    BY <2>2, ServesStill DEF CalmInv
  <2> QED
    BY <1>3, <1>5, <2>8, <2>9 DEF CalmInv, Known
<1>6. ASSUME ConnectFails(g) \/ SocketDisconnected(g) \/ Reconnect(g)
      PROVE  CalmInv(rp)'
  <2> DEFINE s == ShowState(gui[g], "CONNECTING")
  <2>1. /\ \/ \E n \in 0 .. Len(up[g]) : up' = [up EXCEPT ![g] = SubSeq(@, 1, n)]
           \/ UNCHANGED up
        /\ gui' = [gui EXCEPT ![g] = s] \/ UNCHANGED gui
        /\ down' = [down EXCEPT ![g] = <<>>] \/ UNCHANGED down
        /\ \A h \in Guis \ {g} : link'[h] = link[h]
    BY <1>1, <1>6 DEF ConnectFails, SocketDisconnected, Reconnect
  <2>2. s.held = gui[g].held /\ s.time = gui[g].time /\ s.spinTimer = gui[g].spinTimer
    BY <1>1 DEF ShowState, Gui
  <2> HIDE DEF s
  <2>3. /\ \A h \in Guis \ {g} : gui'[h] = gui[h] /\ down'[h] = down[h] /\ up'[h] = up[h]
        /\ gui'[g] = s \/ gui'[g] = gui[g]
        /\ down'[g] = <<>> \/ down'[g] = down[g]
    BY <1>1, <2>1
  <2>4. \A K : None(up[g], K) => None(up'[g], K)
    <3>1. ASSUME NEW n \in 0 .. Len(up[g]), up' = [up EXCEPT ![g] = SubSeq(@, 1, n)]
          PROVE  \A i \in DOMAIN up'[g] : i \in DOMAIN up[g] /\ up'[g][i] = up[g][i]
      <4>1. up'[g] = SubSeq(up[g], 1, n) /\ up[g] \in Seq(Call)
        BY <1>1, <3>1
      <4> QED
        BY <4>1, SubSeqProperties
    <3> QED
      BY <2>1, <3>1 DEF None
  <2>5. None(up'[g], Updates \ {Update(want)}) /\ None(up'[g], Stops)
    BY <1>3, <1>4, <1>6, <2>4 DEF Serves
  <2>6. None(down'[g], Runs \ {ChangedRun(want)})
    BY <1>4, <2>3, Nothing DEF Serves
  <2>7. /\ gui'[g].spinTimer => Asking(gui'[g]) = want
        /\ Shows(gui'[g], want) \/ Preceded(down'[g], Configurations, Runs)
    BY <1>3, <1>4, <1>6, <2>2, <2>3, Nothing DEF Serves, Shows, Asking
  <2>8. Serves(g, rp)'
    BY <1>3, <1>6, <2>5, <2>6, <2>7, NoneWithin DEF Serves
  <2>9. ASSUME NEW h \in Guis \ {g} PROVE Serves(h, rp)'
    BY <2>1, <2>3, ServesStill DEF CalmInv
  <2> QED
    BY <1>3, <1>6, <2>8, <2>9 DEF CalmInv, Known
<1> QED
  BY <1>2, <1>5, <1>6

LEMMA RestartCalm ==
  ASSUME AgreeInv, want \in Run, NEW rp \in BOOLEAN, CalmInv(rp), UNCHANGED want,
         rp => UNCHANGED <<clients, link>>, ServerRestart
  PROVE  CalmInv(rp)'
<1>1. /\ link' = [g \in Guis |-> "closed"]
      /\ gui' = [g \in Guis |-> ShowState(gui[g], "CONNECTING")]
      /\ up' = [g \in Guis |-> <<>>] /\ down' = [g \in Guis |-> <<>>]
      /\ run' = runFile /\ UNCHANGED runFile
  BY DEF ServerRestart
<1>2. runFile = want
  <2>1. \A g \in Guis : rp => ~Sending(g)
    BY <1>1 DEF Sending
  <2> QED
    BY <2>1 DEF CalmInv, Known
<1>3. ASSUME NEW g \in Guis PROVE Serves(g, rp)'
  <2> DEFINE s == ShowState(gui[g], "CONNECTING")
  <2>1. s.held = gui[g].held /\ s.time = gui[g].time /\ s.spinTimer = gui[g].spinTimer
    BY DEF ShowState, AgreeInv, Inv, TypeOK, Gui
  <2>2. link'[g] = "closed" /\ gui'[g] = s /\ up'[g] = <<>> /\ down'[g] = <<>>
    BY <1>1
  <2> HIDE DEF s
  <2>3. s.spinTimer /\ ~rp => Asking(s) = want
    BY <2>1 DEF CalmInv, Serves, Asking
  <2> QED
    BY <2>2, <2>3, Nothing DEF Serves
<1> QED
  BY <1>1, <1>2, <1>3 DEF CalmInv, Known

(* A user acts after what was done before has come to its end.             *)
LEMMA PressCalm ==
  ASSUME AgreeInv, want \in Run, NEW rp \in BOOLEAN, CalmInv(rp), Quiet,
         NEW g \in Guis, Press(g), want' = IF link[g] = "open" THEN Wanted(g) ELSE want
  PROVE  CalmInv(TRUE)' /\ want' \in Run
<1> DEFINE s == gui[g]
<1>1. PICK a \in Gui, c \in Seq(Call) :
        /\ Behaves(s, a, c) /\ Acts(g, a, c)
        /\ s.time = s.held.time => None(c, Updates \ {Update(Asking(a))})
  BY PressType DEF AgreeInv, Inv
<1>2. /\ link[g] = "open" => up'[g] = up[g] \o c
      /\ \A h \in Guis : h # g \/ link[g] # "open" => up'[h] = up[h]
  BY <1>1, SendAdds DEF AgreeInv, Inv, Acts
<1>3. UNCHANGED <<run, runFile, link, down>> /\ gui'[g] = a
      /\ \A x \in Guis \ {g} : gui'[x] = gui[x]
  BY <1>1 DEF AgreeInv, Inv, TypeOK, Acts, serverVars
<1>4. run = want /\ runFile = want
  BY QuietHas
<1>5. \A h \in Guis : up[h] = <<>> /\ down[h] = <<>> /\ ~gui[h].spinTimer /\ link[h] # "opening"
  BY DEF Quiet
<1>6. ASSUME NEW h \in Guis, h # g \/ link[g] # "open"
      PROVE  Serves(h, TRUE)'
  <2>1. /\ up'[h] = <<>> /\ down'[h] = <<>> /\ link'[h] # "opening"
        /\ link'[h] = "open" => ~gui'[h].spinTimer
    BY <1>2, <1>3, <1>5, <1>6
  <2> QED
    BY <2>1, Nothing DEF Serves
<1>7. CASE link[g] # "open"
  <2>1. want' = want
    BY <1>7
  <2> QED
    BY <1>3, <1>4, <1>6, <1>7, <2>1 DEF CalmInv, Known
<1>8. CASE link[g] = "open"
  <2>1. want' = Asking(a)
    <3>1. want' = Wanted(g)
      BY <1>8
    <3>2. Wanted(g) = Asking(a)
      BY <1>3, Zenon DEF Wanted, Asking
    <3> QED
      BY <3>1, <3>2
  <2>2. want' \in Run
    <3>1. a.held \in Run /\ a.time \in 0 .. 1
      BY DEF Gui
    <3>2. Asking(a) \in Run
      BY <3>1, RunType DEF Asking
    <3> QED
      BY <2>1, <3>2
  <2>3. up'[g] = c
    <3>1. <<>> \o c = c
      BY ConcatEmptySeq
    <3> QED
      BY <1>2, <1>5, <1>8, <3>1
  <2>4. s.time = s.held.time
    <3>1. s.time = run.time /\ Alike(s.held, run)
      BY <1>8, AgreeImplies DEF QuietClientsAgree, Alike
    <3> QED
      BY <3>1 DEF AgreeInv, Inv, TypeOK, Alike, Run
  <2>5. None(c, Updates \ {Update(want')})
    BY <1>1, <2>1, <2>4
  <2>6. Serves(g, TRUE)'
    BY <1>1, <1>3, <1>5, <1>8, <2>1, <2>3, <2>5, Nothing DEF Serves, Behaves
  <2>7. Sending(g)'
    BY <1>1, <1>3, <1>8, <2>3 DEF Sending, Behaves
  <2> QED
    BY <1>6, <2>2, <2>6, <2>7 DEF CalmInv, Known
<1> QED
  BY <1>7, <1>8

LEMMA StepCalm ==
  ASSUME AgreeInv, want \in Run, NEW rp \in BOOLEAN, CalmInv(rp), UNCHANGED want,
         rp => UNCHANGED <<clients, link>>, Step \/ Fault \/ LwdaqStateChanged
  PROVE  CalmInv(rp)'
<1>1. \/ ServerRestart \/ LwdaqStateChanged
      \/ \E g \in Guis :
           \/ SpinTimeout(g) \/ Receive(g) \/ ProcessMessage(g)
           \/ NewConnection(g) \/ OnConnected(g) \/ ConnectFails(g)
           \/ SocketDisconnected(g) \/ Reconnect(g)
  BY DEF Step, Fault
<1> QED
  BY <1>1, TimeoutCalm, ReceiveCalm, ProcessCalm, StateChangedCalm, ConnectionCalm, RestartCalm

(* What users do comes to its end in the next quiet state.                 *)
LEMMA SettlingLast ==
  ASSUME LastInv, AgreeInv', Settling, Step \/ Fault \/ LwdaqStateChanged
  PROVE  LastInv'
<1>1. /\ want' = want /\ want \in Run /\ rippling' \in BOOLEAN /\ calm' \in BOOLEAN
      /\ rippling' = (rippling /\ ~Quiet')
      /\ calm' => calm /\ (rippling => UNCHANGED <<clients, link>>)
  BY DEF Settling, LastInv
<1>2. ASSUME calm', rippling PROVE CalmInv(TRUE)'
  BY <1>1, <1>2, StepCalm DEF LastInv
<1>3. ASSUME calm', ~rippling PROVE CalmInv(FALSE)'
  BY <1>1, <1>3, StepCalm DEF LastInv
<1>4. calm' => IF rippling' THEN CalmInv(TRUE)' ELSE CalmInv(FALSE)'
  BY <1>1, <1>2, <1>3, QuietEndsNext
<1> QED
  BY <1>1, <1>4 DEF LastInv

LEMMA PressedLast ==
  ASSUME LastInv, AgreeInv', NEW g \in Guis, Pressed(g)
  PROVE  LastInv'
<1>1. /\ Press(g) /\ rippling' = TRUE /\ calm' = (calm /\ Quiet)
      /\ want' = IF link[g] = "open" THEN Wanted(g) ELSE want
      /\ want \in Run
  BY DEF Pressed, LastInv
<1>2. want' \in Run
  <2>1. PICK a \in Gui, c \in Seq(Call) : Acts(g, a, c)
    BY <1>1, PressType DEF LastInv, AgreeInv, Inv
  <2>2. gui'[g] = a
    BY <2>1 DEF Acts, LastInv, AgreeInv, Inv, TypeOK
  <2>3. Wanted(g) \in Run
    BY <2>2, RunType DEF Wanted, Gui
  <2> QED
    BY <1>1, <2>3
<1>3. calm' => CalmInv(TRUE)'
  <2> SUFFICES ASSUME calm, Quiet PROVE CalmInv(TRUE)'
    BY <1>1
  <2>1. CASE rippling
    BY <1>1, <2>1, PressCalm DEF LastInv
  <2>2. CASE ~rippling
    BY <1>1, <2>2, PressCalm DEF LastInv
  <2> QED
    BY <2>1, <2>2
<1> QED
  BY <1>1, <1>2, <1>3 DEF LastInv

LEMMA NextLast == LastInv /\ [MCNext]_mcVars => LastInv'
<1> SUFFICES ASSUME LastInv, [MCNext]_mcVars PROVE LastInv'
  OBVIOUS
<1>1. CASE UNCHANGED mcVars
  <2>1. UNCHANGED vars /\ UNCHANGED <<rippling, calm, want>>
    BY <1>1 DEF mcVars
  <2>2. AgreeInv'
    BY <2>1, NextAgrees DEF LastInv
  <2>3. UNCHANGED <<run, runFile, link, gui, up, down>>
    BY <2>1 DEF vars, serverVars
  <2>4. ASSUME NEW rp \in BOOLEAN, CalmInv(rp) PROVE CalmInv(rp)'
    BY <2>1, <2>3, <2>4, ServesStill DEF CalmInv, Known, Sending
  <2> QED
    BY <2>1, <2>2, <2>4 DEF LastInv
<1>2. CASE MCNext
  <2>1. \/ (Step \/ Fault \/ LwdaqStateChanged) /\ Settling
        \/ \E g \in Guis : Pressed(g)
    BY <1>2 DEF MCNext
  <2>2. Next
    BY <2>1 DEF Next, Pressed
  <2>3. AgreeInv'
    BY <2>2, NextAgrees DEF LastInv
  <2> QED
    BY <2>1, <2>3, SettlingLast, PressedLast
<1> QED
  BY <1>1, <1>2

LEMMA AtRestAgrees ==
  ASSUME AtRest
  PROVE  AgreeInv
<1>1. /\ adepoState \in AdepoState /\ run \in Run /\ runFile = run
      /\ clients = Guis /\ run.time \in 0 .. 1
  <2>1. DefaultRun \in Run
    BY DEF DefaultRun, Run
  <2>2. run \in Run
    <3>1. \A t \in 0 .. 1 : [DefaultRun EXCEPT !.time = t] \in Run
      BY <2>1, RunType
    <3>2. [DefaultRun EXCEPT !.time = 1] \in Run
      BY <3>1
    <3> QED
      BY <3>2 DEF AtRest
  <2> QED
    BY <2>2 DEF AtRest, AdepoState, Run
<1> DEFINE s == [shown |-> adepoState, canStart |-> adepoState = "IDLE", filled |-> TRUE,
                 held |-> run, time |-> run.time, spinTimer |-> FALSE]
<1>2. s \in Gui
  BY <1>1 DEF Gui
<1>3. /\ link = [g \in Guis |-> "open"] /\ gui = [g \in Guis |-> s]
      /\ handlers = [g \in Guis |-> 1] /\ handled = [g \in Guis |-> 0]
      /\ up = [g \in Guis |-> <<>>] /\ down = [g \in Guis |-> <<>>]
  BY DEF AtRest
<1>4. <<>> \in Seq(Call) /\ <<>> \in Seq(Callback)
  OBVIOUS
<1>5. TypeOK
  <2> HIDE DEF s
  <2> QED
    BY <1>1, <1>2, <1>3, <1>4 DEF TypeOK
<1>6. ASSUME NEW g \in Guis PROVE Fine(g) /\ Agrees(g)
  <2>1. gui[g] = s /\ up[g] = <<>> /\ down[g] = <<>> /\ handled[g] = 0 /\ g \in clients
    BY <1>1, <1>3
  <2>2. /\ s.shown = adepoState /\ s.canStart = (s.shown = "IDLE" /\ s.filled) /\ s.filled
        /\ s.held = run /\ s.time = s.held.time
    OBVIOUS
  <2> HIDE DEF s
  <2>3. Fine(g)
    BY <2>1, <2>2, Nothing DEF Fine, InSync
  <2>4. Agrees(g)
    BY <2>1, <2>2, Nothing DEF Agrees, Buttons, RunInSync, Alike, Filled
  <2> QED
    BY <2>3, <2>4
<1> QED
  BY <1>5, <1>6 DEF AgreeInv, Inv

LEMMA InitLast == MCInit => LastInv
<1> SUFFICES ASSUME MCInit PROVE LastInv
  OBVIOUS
<1>1. AgreeInv
  BY InitAgrees, AtRestAgrees DEF MCInit
<1>2. rippling = FALSE /\ calm = TRUE /\ want = run /\ runFile = run /\ run \in Run
  BY <1>1 DEF MCInit, AtRest, Init, AgreeInv, Inv, TypeOK
<1>3. ASSUME NEW g \in Guis PROVE Serves(g, FALSE)
  <2>1. up[g] = <<>> /\ down[g] = <<>> /\ ~gui[g].spinTimer
    BY DEF MCInit, AtRest, Init
  <2> QED
    BY <2>1, Nothing DEF Serves
<1>4. CalmInv(FALSE)
  BY <1>2, <1>3 DEF CalmInv, Known
<1> QED
  BY <1>1, <1>2, <1>4 DEF LastInv


-----------------------------------------------------------------------------
LEMMA Invariance == Spec => []Inv
BY InitInv, NextInv, PTL DEF Spec

(***************************************************************************)
(* Every message, of any number of clients and with any number of          *)
(* reconnections, has the form the handlers of its receiver expect.        *)
(***************************************************************************)
THEOREM BridgeType == Spec => []TypeOK
<1>1. Inv => TypeOK
  BY DEF Inv
<1> QED
  BY <1>1, Invariance, PTL

(***************************************************************************)
(* However the connections break and are made again, a connected client    *)
(* that has asked shows the state of the server or is about to.            *)
(***************************************************************************)
THEOREM InSyncAlways == Spec => []StateInSync
BY InvImplies, Invariance, PTL

(***************************************************************************)
(* However often the slot is connected, handling a callback once more      *)
(* changes nothing and sends nothing.                                      *)
(***************************************************************************)
THEOREM AgainIsHarmless == Spec => []HandledAgain
BY InvImplies, Invariance, PTL

(***************************************************************************)
(* Once no message is under way every connected client has the run of the  *)
(* server, shows it, and enables its buttons as the state asks; but for    *)
(* the mode, where stopDAQ() has reset it and the updateRun() that follows *)
(* it was lost.                                                            *)
(***************************************************************************)
THEOREM AgreeWhenQuiet == Spec => []QuietClientsAgree
BY InitAgrees, NextAgrees, AgreeImplies, PTL DEF Spec

(***************************************************************************)
(* Whatever any number of clients press one after the other, and however   *)
(* connections come and go in between, the server ends with the run that   *)
(* was asked for last: no widget that is set by a callback undoes it.      *)
(***************************************************************************)
THEOREM LastChoiceStands == MCSpec => []LastChoiceWins
BY InitLast, NextLast, LastImplies, PTL DEF MCSpec
=============================================================================

--------------------------- MODULE ReplyFlow_proofs ---------------------------
(* Machine-checked theorems about ReplyFlow, for any posts, composers, calls, *)
(* faults and bounds.                                                         *)
EXTENDS ReplyFlow, FiniteSetTheorems, TLAPS

\* Whatever waits to be sent was committed: in the store, and in the hands of a call.
StoreAsked(st) == st.msg # None => clicks[st.msg] > 0
CallsAsked == \A c \in Calls : call[c].arg # None => clicks[call[c].arg] > 0
Asked == StoreAsked(store) /\ CallsAsked /\ NeverUnasked

IInv == TypeOK /\ Asked

-------------------------------------------------------------------------------
(* What the helpers yield *)

LEMMA StateNames ==
    /\ Editing \subseteq States /\ Processing \subseteq States /\ Sent \subseteq States
    /\ {"IDLE", "COMPOSING", "ERROR", "VALIDATING", "AUTHENTICATING", "JOINING_GROUP",
        "CREATING_CHAT", "SHOWING_WELCOME", "COMPLETED"} \subseteq States
  BY DEF States, Editing, Processing, Sent

LEMMA SavedTyped ==
    ASSUME NEW st \in StoreRecords, NEW s \in States, NEW new \in BOOLEAN
    PROVE  /\ Saved(st, s, new) \in StoreRecords
           /\ Saved(st, s, new).msg \in {st.msg, None}
  BY DEF Saved, Persisted, Cleared, StoreRecords, States, Sent, Editing, Processing

LEMMA PersistedTyped ==
    ASSUME NEW st \in StoreRecords, NEW s \in States, NEW new \in BOOLEAN
    PROVE  /\ Persisted(st, s, new) \in StoreRecords
           /\ Persisted(st, s, new).msg = st.msg
  BY DEF Persisted, StoreRecords, States, Sent, Editing, Processing

LEMMA MovedTyped ==
    ASSUME TypeOK, NEW p \in Panes, NEW s \in States
    PROVE  /\ Moved(p, s) \in [Panes -> PaneRecords]
           /\ \A q \in Panes : Moved(p, s)[q].post = pane[q].post
           /\ \A q \in Panes : Moved(p, s)[q].open = pane[q].open
           /\ \A q \in Panes : Moved(p, s)[q].dirty = pane[q].dirty
           /\ \A q \in Panes \ {p} : Moved(p, s)[q] = pane[q]
  <1> DEFINE r == [pane[p] EXCEPT !.state = s, !.erred = @ \/ s = "ERROR"]
  <1>1. pane \in [Panes -> PaneRecords]
    BY DEF TypeOK
  <1>2. /\ r \in PaneRecords
        /\ r.post = pane[p].post /\ r.open = pane[p].open /\ r.dirty = pane[p].dirty
    BY <1>1 DEF PaneRecords
  <1>3. Moved(p, s) = [pane EXCEPT ![p] = r]
    BY <1>1 DEF Moved
  <1> HIDE DEF r
  <1> QED
    BY <1>1, <1>2, <1>3

\* The composer that is moved has a post, so its record stays well formed.
LEMMA EnterKeeps ==
    ASSUME IInv, NEW p \in Panes, pane[p].post # None, NEW s \in States, Enter(p, s)
    PROVE  /\ pane' \in [Panes -> PaneRecords]
           /\ \A q \in Panes : pane'[q].post = pane[q].post
           /\ \A q \in Panes : (pane'[q].open \/ pane'[q].dirty \/ pane'[q].state # "IDLE")
                                  => pane'[q].post # None
           /\ store' \in StoreRecords
           /\ store'.msg \in {store.msg, None}
  <1>1. pane' = Moved(p, s) /\ store' = Saved(store, s, pane[p].isNew)
    BY DEF Enter
  <1>2. pane[p].isNew \in BOOLEAN /\ store \in StoreRecords
    BY DEF IInv, TypeOK, PaneRecords
  <1>3. \A q \in Panes : (pane'[q].open \/ pane'[q].dirty \/ pane'[q].state # "IDLE")
                            => pane'[q].post # None
    <2>1. TypeOK /\ \A q \in Panes : (pane[q].open \/ pane[q].dirty \/ pane[q].state # "IDLE")
                                       => pane[q].post # None
      BY DEF IInv, TypeOK
    <2> QED
      BY <1>1, <2>1, MovedTyped
  <1> QED
    BY <1>1, <1>2, <1>3, MovedTyped, SavedTyped DEF IInv

LEMMA StayKeeps ==
    ASSUME IInv, Stay
    PROVE  /\ pane' \in [Panes -> PaneRecords]
           /\ \A q \in Panes : pane'[q].post = pane[q].post
           /\ \A q \in Panes : (pane'[q].open \/ pane'[q].dirty \/ pane'[q].state # "IDLE")
                                  => pane'[q].post # None
           /\ store' \in StoreRecords
           /\ store'.msg \in {store.msg, None}
  BY DEF Stay, IInv, TypeOK

LEMMA FaultTyped ==
    ASSUME IInv, NEW f, Fault(f)
    PROVE  faults' \in 0..MaxFaults
  BY ReplyAssumption DEF IInv, TypeOK, Fault

LEMMA FetchesTyped ==
    ASSUME IInv, NEW seen \in SUBSET Posts, NEW m \in Posts, Fetches(seen, m)
    PROVE  known' \in SUBSET Posts /\ faults' \in 0..MaxFaults
  <1>1. CASE known' = seen \union {m} /\ UNCHANGED faults
    BY <1>1 DEF IInv, TypeOK
  <1>2. CASE known' = seen /\ Fault("fetch")
    BY <1>2, FaultTyped
  <1> QED
    BY <1>1, <1>2 DEF Fetches

\* A commit charges every call it overtakes, and there are finitely many.
LEMMA OvertakesTyped ==
    ASSUME IInv, NEW m \in Posts, Overtakes(m)
    PROVE  overtaken' \in SUBSET (Posts \X Posts) /\ excused' \in [Posts -> Nat]
  <1> DEFINE behind == {About(d) : d \in {d \in Calls : Settled(d)}}
                          \union {pane[q].post : q \in Waiting \union Welcoming}
             may == {d \in Calls : Past(d) /\ About(d) # m}
             wait == \E q \in Waiting : Uses(q) = {} /\ pane[q].post # m
  <1>1. /\ overtaken' = overtaken \union ((behind \ {m}) \X {m})
        /\ excused' = [excused EXCEPT ![m] = @ + Cardinality(may) + IF wait THEN 1 ELSE 0]
    BY DEF Overtakes
  <1>2. behind \subseteq Posts
    <2>1. ASSUME NEW d \in Calls, Settled(d)
          PROVE  About(d) \in Posts
      <3>1. CASE call[d].pane = None
        BY <2>1, <3>1 DEF Settled, Past, About, IInv, TypeOK, CallsInOrder, CallRecords
      <3>2. CASE call[d].pane # None
        BY <3>2 DEF About, IInv, TypeOK, CallsInOrder, CallRecords, PaneRecords
      <3> QED
        BY <3>1, <3>2
    <2>2. ASSUME NEW q \in Waiting \union Welcoming
          PROVE  pane[q].post \in Posts
      BY DEF Waiting, Welcoming, OpenPanes, IInv, TypeOK, PaneRecords
    <2> QED
      BY <2>1, <2>2
  <1>3. Cardinality(may) \in Nat
    BY ReplyAssumption, FS_Subset, FS_CardinalityType
  <1> HIDE DEF behind, may, wait
  <1>4. excused[m] \in Nat
    BY DEF IInv, TypeOK
  <1>5. excused[m] + Cardinality(may) + (IF wait THEN 1 ELSE 0) \in Nat
    BY <1>3, <1>4
  <1>6. excused' \in [Posts -> Nat]
    BY <1>1, <1>5 DEF IInv, TypeOK
  <1>7. overtaken' \in SUBSET (Posts \X Posts)
    BY <1>1, <1>2 DEF IInv, TypeOK
  <1> QED
    BY <1>6, <1>7

\* Moving a call on, when it has what the step needs.
LEMMA StepKeeps ==
    ASSUME IInv, NEW c \in Calls, NEW s \in Steps \ {"idle"}, Step(c, s),
           s \in {"opening", "answered"} => call[c].arg # None,
           call[c].pane = None => s \in {"creating", "opening", "answered"},
           \A q \in Panes : pane'[q].post = pane[q].post
    PROVE  /\ call' \in [Calls -> CallRecords]
           /\ CallsInOrder'
           /\ \A d \in Calls : call'[d].arg = call[d].arg
  <1>1. call \in [Calls -> CallRecords] /\ CallsInOrder
    BY DEF IInv, TypeOK
  <1>2. /\ call' \in [Calls -> CallRecords]
        /\ \A d \in Calls : call'[d].arg = call[d].arg /\ call'[d].pane = call[d].pane
        /\ \A d \in Calls \ {c} : call'[d] = call[d]
        /\ call'[c].pc = s
    BY <1>1 DEF Step, CallRecords
  <1>3. \A d \in Calls : call[d].pane # None => call[d].pane \in Panes
    BY <1>1 DEF CallRecords
  <1> QED
    BY <1>1, <1>2, <1>3 DEF CallsInOrder

LEMMA EndsKeeps ==
    ASSUME IInv, NEW c \in Calls, Ends(c),
           \A q \in Panes : pane'[q].post = pane[q].post
    PROVE  /\ call' \in [Calls -> CallRecords]
           /\ CallsInOrder'
           /\ \A d \in Calls : call'[d].arg \in {call[d].arg, None}
  <1>1. call \in [Calls -> CallRecords] /\ CallsInOrder
    BY DEF IInv, TypeOK
  <1>2. /\ call' \in [Calls -> CallRecords]
        /\ \A d \in Calls \ {c} : call'[d] = call[d]
        /\ call'[c] = NoCall
    BY <1>1 DEF Ends, CallRecords, NoCall, Steps
  <1>3. \A d \in Calls : call[d].pane # None => call[d].pane \in Panes
    BY <1>1 DEF CallRecords
  <1> QED
    BY <1>1, <1>2, <1>3 DEF CallsInOrder, NoCall

\* What a step has to leave in order when it commits no reply and reaches no server.
LEMMA Assemble ==
    ASSUME IInv,
           me' \in BOOLEAN, login' \in {"quiet", "woken", "onetap", "bump"},
           pane' \in [Panes -> PaneRecords],
           \A q \in Panes : (pane'[q].open \/ pane'[q].dirty \/ pane'[q].state # "IDLE")
                               => pane'[q].post # None,
           store' \in StoreRecords, store'.msg \in {store.msg, None},
           call' \in [Calls -> CallRecords], CallsInOrder',
           \A d \in Calls : call'[d].arg \in {call[d].arg, store.msg, None},
           rows' = rows, clicks' = clicks, excused' \in [Posts -> Nat],
           known' \in SUBSET Posts, overtaken' \in SUBSET (Posts \X Posts),
           faults' \in 0..MaxFaults, loads' \in 0..MaxLoads
    PROVE  IInv'
  <1>1. TypeOK'
    BY DEF IInv, TypeOK
  <1>2. NeverUnasked'
    BY DEF IInv, Asked, NeverUnasked, Sends
  <1>3. StoreAsked(store)' /\ CallsAsked'
    BY DEF IInv, Asked, StoreAsked, CallsAsked
  <1> QED
    BY <1>1, <1>2, <1>3 DEF IInv, Asked

LEMMA FailsKeeps ==
    ASSUME IInv, NEW c \in Calls, NEW s \in {"ERROR", "same"}, Fails(c, s), Running(c)
    PROVE  /\ pane' \in [Panes -> PaneRecords]
           /\ \A q \in Panes : pane'[q].post = pane[q].post
           /\ \A q \in Panes : (pane'[q].open \/ pane'[q].dirty \/ pane'[q].state # "IDLE")
                                  => pane'[q].post # None
           /\ store' \in StoreRecords /\ store'.msg \in {store.msg, None}
           /\ call' \in [Calls -> CallRecords] /\ CallsInOrder'
           /\ \A d \in Calls : call'[d].arg \in {call[d].arg, None}
           /\ faults' \in 0..MaxFaults
  <1>1. call[c].pane = None \/ (call[c].pane \in Panes /\ pane[call[c].pane].post # None)
    BY DEF IInv, TypeOK, CallsInOrder, CallRecords
  <1>2. Stay \/ (call[c].pane # None /\ \E t \in States : Enter(call[c].pane, t))
    BY StateNames DEF Fails
  <1>3. /\ pane' \in [Panes -> PaneRecords]
        /\ \A q \in Panes : pane'[q].post = pane[q].post
        /\ \A q \in Panes : (pane'[q].open \/ pane'[q].dirty \/ pane'[q].state # "IDLE")
                               => pane'[q].post # None
        /\ store' \in StoreRecords /\ store'.msg \in {store.msg, None}
    BY <1>1, <1>2, StayKeeps, EnterKeeps
  <1>4. Ends(c) /\ (Fault("reach") \/ Fault("auth") \/ Fault("error"))
    BY DEF Fails
  <1>5. faults' \in 0..MaxFaults
    BY <1>4, FaultTyped
  <1>6. /\ call' \in [Calls -> CallRecords] /\ CallsInOrder'
        /\ \A d \in Calls : call'[d].arg \in {call[d].arg, None}
    BY <1>3, <1>4, EndsKeeps
  <1> QED
    BY <1>3, <1>5, <1>6

LEMMA InitInv == Init => IInv
  <1> SUFFICES ASSUME Init
               PROVE  IInv
    OBVIOUS
  <1>1. NewPane(None) \in PaneRecords
    BY StateNames DEF NewPane, PaneRecords
  <1>2. NoCall \in CallRecords /\ Cleared \in StoreRecords
    BY DEF NoCall, CallRecords, Steps, Cleared, StoreRecords
  <1>3. 0 \in 0..MaxFaults /\ 0 \in 0..MaxLoads
    BY ReplyAssumption
  <1>4. TypeOK
    <2>1. rows \in [Posts -> Seq(Posts)]
      BY DEF Init
    <2>2. pane \in [Panes -> PaneRecords] /\ call \in [Calls -> CallRecords] /\ store \in StoreRecords
      BY <1>1, <1>2 DEF Init
    <2>3. CallsInOrder
      BY DEF Init, CallsInOrder, NoCall
    <2>4. \A p \in Panes : ~pane[p].open /\ ~pane[p].dirty /\ pane[p].state = "IDLE"
      BY DEF Init, NewPane
    <2> QED
      BY <1>3, <2>1, <2>2, <2>3, <2>4 DEF Init, TypeOK
  <1>5. Asked
    BY DEF Init, Asked, StoreAsked, CallsAsked, NeverUnasked, Sends, Cleared, NoCall
  <1> QED
    BY <1>4, <1>5 DEF IInv

-------------------------------------------------------------------------------
(* The composer *)

LEMMA DraftedTyped ==
    ASSUME IInv, NEW p \in Panes
    PROVE  Drafted(p) \in StoreRecords /\ Drafted(p).msg = store.msg
  BY DEF IInv, TypeOK, Drafted, StoreRecords, PaneRecords

LEMMA UnmountedTyped ==
    ASSUME IInv, NEW P \in SUBSET Panes
    PROVE  /\ Unmounted(P) \in [Panes -> PaneRecords]
           /\ \A q \in Panes : (Unmounted(P)[q].open \/ Unmounted(P)[q].dirty
                                   \/ Unmounted(P)[q].state # "IDLE") => Unmounted(P)[q].post # None
           /\ \A q \in Panes : Uses(q) # {} => Unmounted(P)[q].post = pane[q].post
  <1>1. NewPane(None) \in PaneRecords
    BY StateNames DEF NewPane, PaneRecords
  <1> QED
    BY <1>1 DEF IInv, TypeOK, Unmounted, NewPane, PaneRecords

LEMMA FlushedTyped ==
    ASSUME IInv, NEW P \in SUBSET Panes
    PROVE  Flushed(P) \in StoreRecords /\ Flushed(P).msg = store.msg
  <1>1. CASE \E p \in P : pane[p].dirty
    <2>1. (CHOOSE p \in P : TRUE) \in Panes
      BY <1>1
    <2> QED
      BY <1>1, <2>1, DraftedTyped DEF Flushed
  <1>2. CASE ~ \E p \in P : pane[p].dirty
    BY <1>2 DEF Flushed, IInv, TypeOK
  <1> QED
    BY <1>1, <1>2

\* Calls that are left alone stay in order while the composers they use keep their posts.
LEMMA CallsStay ==
    ASSUME IInv, call' = call,
           \A q \in Panes : Uses(q) # {} => pane'[q].post = pane[q].post
    PROVE  /\ call' \in [Calls -> CallRecords] /\ CallsInOrder'
           /\ \A d \in Calls : call'[d].arg = call[d].arg
  <1>1. call \in [Calls -> CallRecords] /\ CallsInOrder
    BY DEF IInv, TypeOK
  <1>2. \A d \in Calls : call[d].pane # None => call[d].pane \in Panes /\ pane[call[d].pane].post # None
    BY <1>1 DEF CallsInOrder, CallRecords
  <1>3. \A d \in Calls : call[d].pane # None /\ Running(d) => d \in Uses(call[d].pane)
    BY <1>2 DEF Uses
  <1> QED
    BY <1>1, <1>2, <1>3 DEF CallsInOrder, Running, NoCall

LEMMA JoinsAsKeeps ==
    ASSUME IInv, NEW c \in Calls, NEW p \in Panes, pane[p].post # None, NEW user \in BOOLEAN,
           NEW st \in StoreRecords, JoinsAs(c, p, user, pane, st)
    PROVE  /\ pane' \in [Panes -> PaneRecords]
           /\ \A q \in Panes : (pane'[q].open \/ pane'[q].dirty \/ pane'[q].state # "IDLE")
                                  => pane'[q].post # None
           /\ store' \in StoreRecords /\ store'.msg \in {st.msg, None}
           /\ call' \in [Calls -> CallRecords] /\ CallsInOrder'
           /\ \A d \in Calls : call'[d].arg \in {call[d].arg, None}
  <1> DEFINE s == IF user THEN "JOINING_GROUP" ELSE "AUTHENTICATING"
             next == IF user THEN [NoCall EXCEPT !.pc = "joining", !.pane = p] ELSE NoCall
  <1>1. s \in States
    BY StateNames
  <1>2. /\ pane' = [pane EXCEPT ![p].state = s]
        /\ store' = Saved(st, s, pane[p].isNew)
        /\ call' = [call EXCEPT ![c] = next]
    BY DEF JoinsAs
  <1>3. pane \in [Panes -> PaneRecords] /\ call \in [Calls -> CallRecords] /\ CallsInOrder
    BY DEF IInv, TypeOK
  <1>4. /\ pane' \in [Panes -> PaneRecords]
        /\ \A q \in Panes : pane'[q].post = pane[q].post
        /\ \A q \in Panes : (pane'[q].open \/ pane'[q].dirty \/ pane'[q].state # "IDLE")
                               => pane'[q].post # None
    BY <1>1, <1>2, <1>3, ZenonT(30) DEF PaneRecords, IInv, TypeOK
  <1>5. pane[p].isNew \in BOOLEAN
    BY <1>3 DEF PaneRecords
  <1>6. store' \in StoreRecords /\ store'.msg \in {st.msg, None}
    BY <1>1, <1>2, <1>5, SavedTyped
  <1>7. /\ next \in CallRecords /\ next.arg = None
        /\ next = NoCall \/ (next.pc = "joining" /\ next.pane = p)
    BY DEF NoCall, CallRecords, Steps
  <1>8. call' \in [Calls -> CallRecords] /\ \A d \in Calls : call'[d].arg \in {call[d].arg, None}
    BY <1>2, <1>3, <1>7
  <1>9. CallsInOrder'
    <2>1. \A d \in Calls : call[d].pane # None => call[d].pane \in Panes
      BY <1>3 DEF CallRecords
    <2>2. ASSUME NEW d \in Calls
          PROVE  /\ call'[d].pc = "idle" => call'[d] = NoCall
                 /\ call'[d].pc \in {"opening", "answered"} => call'[d].arg # None
                 /\ call'[d].pane = None => call'[d].pc \in {"idle", "creating", "opening", "answered"}
                 /\ call'[d].pane # None => pane'[call'[d].pane].post # None
      <3>1. CASE d = c
        <4>1. call'[d] = next
          BY <1>2, <1>3, <3>1
        <4>2. p # None /\ pane'[p].post # None
          BY <1>4, ReplyAssumption
        <4> HIDE DEF next
        <4>3. CASE next = NoCall
          BY <4>1, <4>3 DEF NoCall
        <4>4. CASE next.pc = "joining" /\ next.pane = p
          BY <4>1, <4>2, <4>4
        <4> QED
          BY <1>7, <4>3, <4>4
      <3>2. CASE d # c
        <4>1. call'[d] = call[d]
          BY <1>2, <1>3, <3>2
        <4> QED
          BY <4>1, <1>3, <1>4, <2>1 DEF CallsInOrder
      <3> QED
        BY <3>1, <3>2
    <2> QED
      BY <2>2 DEF CallsInOrder
  <1> QED
    BY <1>4, <1>6, <1>8, <1>9

\* A call that has a composer has one with a post.
LEMMA PaneOfCall ==
    ASSUME IInv, NEW c \in Calls,
           call[c].pane # None \/ call[c].pc \in {"validating", "checking", "registering", "fetchingme", "joining"}
    PROVE  call[c].pane \in Panes /\ pane[call[c].pane].post \in Posts
  <1>1. call[c].pane # None
    BY DEF IInv, TypeOK, CallsInOrder
  <1>2. call[c].pane \in Panes /\ pane[call[c].pane].post # None
    BY <1>1 DEF IInv, TypeOK, CallsInOrder, CallRecords
  <1> QED
    BY <1>2 DEF IInv, TypeOK, PaneRecords

-------------------------------------------------------------------------------
(* Every step *)

LEMMA UserInv ==
    ASSUME IInv, NEW p \in Panes, User(p) \/ Timers(p)
    PROVE  IInv'
  <1> USE DEF IInv
  <1>1. ASSUME NEW m \in Posts, OpenPane(p, m)
        PROVE  IInv'
    <2> DEFINE resumed == IF store.machine \in Sent THEN store.machine ELSE "COMPOSING"
               at(s, new) == [NewPane(m) EXCEPT !.state = s, !.dirty = TRUE, !.isNew = new]
    <2>1. m # None /\ NewPane(m) \in PaneRecords /\ NewPane(m).post = m
      BY StateNames, ReplyAssumption DEF NewPane, PaneRecords
    <2>2. resumed \in States
      BY StateNames
    <2>3. \A s \in States, new \in BOOLEAN : at(s, new) \in PaneRecords /\ at(s, new).post = m
      BY <2>1 DEF NewPane, PaneRecords
    <2>4. store \in StoreRecords /\ store.isNew \in BOOLEAN
      BY DEF TypeOK, StoreRecords
    <2>5. /\ \E r \in PaneRecords : r.post = m /\ pane' = [pane EXCEPT ![p] = r]
          /\ store' \in StoreRecords /\ store'.msg \in {store.msg, None}
      <3>1. CASE store.msg = m /\ (~store.fresh \/ resumed = "COMPLETED")
        <4>1. pane' = [pane EXCEPT ![p] = NewPane(m)] /\ store' = Cleared
          BY <1>1, <3>1, <2>1 DEF OpenPane
        <4> QED
          BY <4>1, <2>1 DEF Cleared, StoreRecords
      <3>2. CASE store.msg = m /\ store.fresh /\ resumed # "COMPLETED"
        <4> DEFINE new == store.isNew \/ resumed = "SHOWING_WELCOME"
        <4>1. pane' = [pane EXCEPT ![p] = at(resumed, new)] /\ store' = Saved(store, resumed, new)
          BY <1>1, <3>2 DEF OpenPane
        <4>2. new \in BOOLEAN
          BY <2>4
        <4> QED
          BY <4>1, <4>2, <2>2, <2>3, <2>4, SavedTyped
      <3>3. CASE store.msg # m /\ store.draft = m
        <4>1. \/ /\ pane' = [pane EXCEPT ![p] = at("COMPOSING", FALSE)]
                 /\ store' = Saved(store, "COMPOSING", FALSE)
              \/ /\ pane' = [pane EXCEPT ![p] = NewPane(m)]
                 /\ store' = [store EXCEPT !.draft = None]
          BY <1>1, <3>3 DEF OpenPane
        <4>2. [store EXCEPT !.draft = None] \in StoreRecords
              /\ [store EXCEPT !.draft = None].msg = store.msg
          BY <2>4 DEF StoreRecords
        <4>3. CASE /\ pane' = [pane EXCEPT ![p] = at("COMPOSING", FALSE)]
                   /\ store' = Saved(store, "COMPOSING", FALSE)
          <5>1. at("COMPOSING", FALSE) \in PaneRecords /\ at("COMPOSING", FALSE).post = m
            BY <2>3, StateNames
          <5>2. store' \in StoreRecords /\ store'.msg \in {store.msg, None}
            BY <4>3, <2>4, SavedTyped, StateNames
          <5> QED
            BY <4>3, <5>1, <5>2
        <4> QED
          BY <4>1, <4>2, <4>3, <2>1
      <3>4. CASE m \notin {store.msg, store.draft}
        BY <1>1, <3>4, <2>1, <2>4 DEF OpenPane
      <3> QED
        BY <3>1, <3>2, <3>3, <3>4
    <2>6. /\ pane' \in [Panes -> PaneRecords]
          /\ \A q \in Panes : (pane'[q].open \/ pane'[q].dirty \/ pane'[q].state # "IDLE")
                                 => pane'[q].post # None
          /\ \A q \in Panes : Uses(q) # {} => pane'[q].post = pane[q].post
      BY <1>1, <2>1, <2>5 DEF OpenPane, TypeOK
    <2>7. known' \in SUBSET Posts /\ faults' \in 0..MaxFaults
      BY <1>1, FetchesTyped DEF OpenPane, TypeOK
    <2> QED
      BY <1>1, <2>5, <2>6, <2>7, CallsStay, Assemble DEF OpenPane, TypeOK
  <1>2. CASE Type(p)
    <2>1. pane[p].post # None /\ pane[p].isNew \in BOOLEAN
      BY <1>2 DEF Type, TypeOK, PaneRecords
    <2>2. PICK s \in States : /\ pane' = [pane EXCEPT ![p].dirty = TRUE, ![p].state = s]
                              /\ store' = store \/ store' = Saved(store, s, pane[p].isNew)
      <3>1. (IF pane[p].state = "IDLE" THEN "COMPOSING" ELSE pane[p].state) \in States
        BY StateNames DEF TypeOK, PaneRecords
      <3> QED
        BY <1>2, <3>1 DEF Type
    <2>3. store' \in StoreRecords /\ store'.msg \in {store.msg, None}
      BY <2>1, <2>2, SavedTyped DEF TypeOK
    <2>4. /\ pane' \in [Panes -> PaneRecords]
          /\ \A q \in Panes : pane'[q].post = pane[q].post
          /\ \A q \in Panes : (pane'[q].open \/ pane'[q].dirty \/ pane'[q].state # "IDLE")
                                 => pane'[q].post # None
      BY <2>1, <2>2, ZenonT(30) DEF TypeOK, PaneRecords
    <2> QED
      BY <1>2, <2>3, <2>4, CallsStay, Assemble DEF Type, TypeOK
  <1>3. CASE Close(p)
    <2>1. {p} \in SUBSET Panes /\ store' = Flushed({p}) /\ pane' = Unmounted({p})
      BY <1>3 DEF Close
    <2>2. store' \in StoreRecords /\ store'.msg \in {store.msg, None}
      BY <2>1, FlushedTyped
    <2>3. /\ pane' \in [Panes -> PaneRecords]
          /\ \A q \in Panes : (pane'[q].open \/ pane'[q].dirty \/ pane'[q].state # "IDLE")
                                 => pane'[q].post # None
          /\ \A q \in Panes : Uses(q) # {} => pane'[q].post = pane[q].post
      BY <2>1, UnmountedTyped
    <2> QED
      BY <1>3, <2>2, <2>3, CallsStay, Assemble DEF Close, TypeOK
  <1>4. CASE Retry(p)
    <2>1. pane[p].post # None /\ pane[p].isNew \in BOOLEAN /\ "COMPOSING" \in States
      BY <1>4, StateNames DEF Retry, TypeOK, PaneRecords
    <2>2. store' \in StoreRecords /\ store'.msg \in {store.msg, None}
      BY <1>4, <2>1, SavedTyped DEF Retry, TypeOK
    <2>3. /\ pane' \in [Panes -> PaneRecords]
          /\ \A q \in Panes : pane'[q].post = pane[q].post
          /\ \A q \in Panes : (pane'[q].open \/ pane'[q].dirty \/ pane'[q].state # "IDLE")
                                 => pane'[q].post # None
      BY <1>4, <2>1 DEF Retry, TypeOK, PaneRecords
    <2> QED
      BY <1>4, <2>2, <2>3, CallsStay, Assemble DEF Retry, TypeOK
  <1>5. CASE CloseWelcome(p)
    <2>1. pane[p].post # None /\ Enter(p, "COMPLETED") /\ "COMPLETED" \in States
      BY <1>5, StateNames DEF CloseWelcome, TypeOK
    <2>2. /\ pane' \in [Panes -> PaneRecords]
          /\ \A q \in Panes : pane'[q].post = pane[q].post
          /\ \A q \in Panes : (pane'[q].open \/ pane'[q].dirty \/ pane'[q].state # "IDLE")
                                 => pane'[q].post # None
          /\ store' \in StoreRecords /\ store'.msg \in {store.msg, None}
      BY <2>1, EnterKeeps
    <2> QED
      BY <1>5, <2>2, CallsStay, Assemble DEF CloseWelcome, TypeOK
  <1>6. ASSUME NEW c \in Calls, Submit(p, c)
        PROVE  IInv'
    <2>1. pane[p].post # None /\ Enter(p, "VALIDATING") /\ "VALIDATING" \in States
      BY <1>6, StateNames DEF Submit, TypeOK
    <2>2. /\ pane' \in [Panes -> PaneRecords]
          /\ \A q \in Panes : pane'[q].post = pane[q].post
          /\ \A q \in Panes : (pane'[q].open \/ pane'[q].dirty \/ pane'[q].state # "IDLE")
                                 => pane'[q].post # None
          /\ store' \in StoreRecords /\ store'.msg \in {store.msg, None}
      BY <2>1, EnterKeeps
    <2> DEFINE new == [NoCall EXCEPT !.pc = "validating", !.pane = p]
    <2>3. new \in CallRecords /\ new.pc = "validating" /\ new.pane = p /\ new.arg = None /\ p # None
      BY ReplyAssumption DEF NoCall, CallRecords, Steps
    <2>4. call' = [call EXCEPT ![c] = new] /\ call \in [Calls -> CallRecords] /\ CallsInOrder
      BY <1>6 DEF Submit, TypeOK
    <2>5. \A d \in Calls : call[d].pane # None => call[d].pane \in Panes
      BY <2>4 DEF CallRecords
    <2>6. CallsInOrder'
      <3>1. \A d \in Calls : call'[d] = IF d = c THEN new ELSE call[d]
        BY <2>4
      <3> QED
        BY <2>1, <2>2, <2>3, <2>4, <2>5, <3>1 DEF CallsInOrder
    <2>7. call' \in [Calls -> CallRecords] /\ \A d \in Calls : call'[d].arg \in {call[d].arg, None}
      BY <2>3, <2>4
    <2> QED
      BY <1>6, <2>2, <2>6, <2>7, Assemble DEF Submit, TypeOK
  <1>7. CASE PersistDraft(p)
    <2>1. pane[p].post # None
      BY <1>7 DEF PersistDraft, TypeOK
    <2>2. store' \in StoreRecords /\ store'.msg \in {store.msg, None}
      BY <1>7, DraftedTyped DEF PersistDraft
    <2>3. /\ pane' \in [Panes -> PaneRecords]
          /\ \A q \in Panes : pane'[q].post = pane[q].post
          /\ \A q \in Panes : (pane'[q].open \/ pane'[q].dirty \/ pane'[q].state # "IDLE")
                                 => pane'[q].post # None
      BY <1>7, <2>1 DEF PersistDraft, TypeOK, PaneRecords
    <2> QED
      BY <1>7, <2>2, <2>3, CallsStay, Assemble DEF PersistDraft, TypeOK
  <1>8. CASE TimesOut(p)
    <2>1. pane[p].post # None /\ Enter(p, "COMPOSING") /\ "COMPOSING" \in States
      BY <1>8, StateNames DEF TimesOut, TypeOK, Processing
    <2>2. /\ pane' \in [Panes -> PaneRecords]
          /\ \A q \in Panes : pane'[q].post = pane[q].post
          /\ \A q \in Panes : (pane'[q].open \/ pane'[q].dirty \/ pane'[q].state # "IDLE")
                                 => pane'[q].post # None
          /\ store' \in StoreRecords /\ store'.msg \in {store.msg, None}
      BY <2>1, EnterKeeps
    <2> QED
      BY <1>8, <2>2, CallsStay, Assemble DEF TimesOut, TypeOK
  <1> QED
    BY <1>1, <1>2, <1>3, <1>4, <1>5, <1>6, <1>7, <1>8 DEF User, Timers

LEMMA FinishKeeps ==
    ASSUME IInv, NEW c \in Calls, Finish(c), call[c].arg # None,
           call[c].pane = None \/ (call[c].pane \in Panes /\ pane[call[c].pane].post # None)
    PROVE  /\ pane' \in [Panes -> PaneRecords]
           /\ \A q \in Panes : pane'[q].post = pane[q].post
           /\ \A q \in Panes : (pane'[q].open \/ pane'[q].dirty \/ pane'[q].state # "IDLE")
                                  => pane'[q].post # None
           /\ store' \in StoreRecords /\ store'.msg \in {store.msg, None}
           /\ call' \in [Calls -> CallRecords] /\ CallsInOrder'
           /\ \A d \in Calls : call'[d].arg \in {call[d].arg, store.msg, None}
  <1> DEFINE p == call[c].pane
             st == Forgotten(call[c].arg)
             s == IF pane[p].isNew THEN "SHOWING_WELCOME" ELSE "COMPLETED"
  <1>1. st \in StoreRecords /\ st.msg = None /\ s \in States
    BY StateNames DEF Forgotten, IInv, TypeOK, StoreRecords
  <1>2. /\ pane' \in [Panes -> PaneRecords]
        /\ \A q \in Panes : pane'[q].post = pane[q].post
        /\ \A q \in Panes : (pane'[q].open \/ pane'[q].dirty \/ pane'[q].state # "IDLE")
                               => pane'[q].post # None
        /\ store' \in StoreRecords /\ store'.msg \in {store.msg, None}
    <2>1. CASE p = None /\ store' = st /\ UNCHANGED pane
      BY <1>1, <2>1 DEF IInv, TypeOK
    <2>2. CASE p # None /\ pane' = Moved(p, s) /\ store' = Saved(st, s, pane[p].isNew)
      <3>1. p \in Panes /\ pane[p].isNew \in BOOLEAN /\ pane[p].post # None /\ TypeOK
        BY <2>2 DEF IInv, TypeOK, PaneRecords
      <3> HIDE DEF p, st, s
      <3>2. store' \in StoreRecords /\ store'.msg \in {store.msg, None}
        BY <1>1, <2>2, <3>1, SavedTyped
      <3>3. ASSUME NEW q \in Panes,
                   pane'[q].open \/ pane'[q].dirty \/ pane'[q].state # "IDLE"
            PROVE  pane'[q].post # None
        <4>1. CASE q = p
          BY <1>1, <2>2, <3>1, <4>1, MovedTyped
        <4>2. CASE q # p
          BY <1>1, <2>2, <3>1, <3>3, <4>2, MovedTyped DEF TypeOK
        <4> QED
          BY <4>1, <4>2
      <3> QED
        BY <1>1, <2>2, <3>1, <3>2, <3>3, MovedTyped
    <2> QED
      BY <2>1, <2>2 DEF Finish
  <1>3. Ends(c)
    BY DEF Finish
  <1> QED
    BY <1>2, <1>3, EndsKeeps

LEMMA CallInv ==
    ASSUME IInv, NEW c \in Calls, Continue(c)
    PROVE  IInv'
  <1> USE DEF IInv
  <1>0. /\ store \in StoreRecords /\ call \in [Calls -> CallRecords] /\ CallsInOrder
        /\ pane \in [Panes -> PaneRecords]
    BY DEF TypeOK
  <1>1. ASSUME Validated(c)
        PROVE  IInv'
    <2> DEFINE p == call[c].pane
               kept == Committed(p)
    <2>1. /\ p \in Panes /\ pane[p].post \in Posts /\ pane[p].post # None
          /\ Running(c) /\ pane[p].state \in States /\ pane[p].isNew \in BOOLEAN
      BY <1>0, <1>1, PaneOfCall, ReplyAssumption DEF Validated, Running, PaneRecords
    <2>2. CASE /\ clicks' = [clicks EXCEPT ![pane[p].post] = @ + 1] /\ Overtakes(pane[p].post)
               /\ \/ me /\ JoinsAs(c, p, me, pane, kept)
                  \/ ~me /\ store' = kept /\ Step(c, "checking") /\ UNCHANGED pane
               /\ UNCHANGED faults
      <3>1. kept \in StoreRecords /\ kept.msg = pane[p].post
        <4>1. [store EXCEPT !.msg = pane[p].post, !.fresh = TRUE] \in StoreRecords
              /\ [store EXCEPT !.msg = pane[p].post, !.fresh = TRUE].msg = pane[p].post
          BY <1>0, <2>1 DEF StoreRecords
        <4> QED
          BY <2>1, <4>1, PersistedTyped DEF Committed
      <3>2. /\ pane' \in [Panes -> PaneRecords]
            /\ \A q \in Panes : (pane'[q].open \/ pane'[q].dirty \/ pane'[q].state # "IDLE")
                                   => pane'[q].post # None
            /\ store' \in StoreRecords /\ store'.msg \in {pane[p].post, None}
            /\ call' \in [Calls -> CallRecords] /\ CallsInOrder'
            /\ \A d \in Calls : call'[d].arg \in {call[d].arg, None}
        <4> HIDE DEF p, kept
        <4>1. CASE me /\ JoinsAs(c, p, me, pane, kept)
          BY <2>1, <3>1, <4>1, JoinsAsKeeps DEF TypeOK
        <4>2. CASE ~me /\ store' = kept /\ Step(c, "checking") /\ UNCHANGED pane
          <5>1. call[c].pane # None /\ "checking" \in Steps \ {"idle"}
            BY <2>1, ReplyAssumption DEF Steps, p
          <5>2. /\ call' \in [Calls -> CallRecords] /\ CallsInOrder'
                /\ \A d \in Calls : call'[d].arg = call[d].arg
            BY <4>2, <5>1, StepKeeps
          <5> QED
            BY <3>1, <4>2, <5>2 DEF TypeOK
        <4> QED
          BY <2>2, <4>1, <4>2
      <3>3. /\ clicks' \in [Posts -> Nat] /\ clicks'[pane[p].post] > 0
            /\ \A m \in Posts : clicks[m] > 0 => clicks'[m] > 0
        BY <2>1, <2>2 DEF TypeOK
      <3>4. /\ me' = me /\ login' = login /\ rows' = rows /\ known' = known /\ loads' = loads
            /\ faults' = faults
        BY <1>1, <2>2 DEF Validated
      <3>5. TypeOK'
        <4>1. overtaken' \in SUBSET (Posts \X Posts) /\ excused' \in [Posts -> Nat]
          BY <2>1, <2>2, OvertakesTyped
        <4> QED
          BY <3>2, <3>3, <3>4, <4>1 DEF TypeOK
      <3>6. StoreAsked(store)'
        BY <3>2, <3>3 DEF StoreAsked
      <3>7. CallsAsked'
        BY <1>0, <3>2, <3>3 DEF Asked, CallsAsked, CallRecords
      <3>8. NeverUnasked'
        BY <3>3, <3>4 DEF Asked, NeverUnasked, Sends
      <3> QED
        BY <3>5, <3>6, <3>7, <3>8 DEF Asked
    <2>3. CASE /\ Enter(p, "COMPOSING") /\ Ends(c) /\ UNCHANGED <<clicks, excused, overtaken>>
               /\ faults' = faults \/ Fault("form")
      <3>1. faults' \in 0..MaxFaults
        BY <2>3, FaultTyped DEF TypeOK
      <3>2. /\ pane' \in [Panes -> PaneRecords]
            /\ \A q \in Panes : pane'[q].post = pane[q].post
            /\ \A q \in Panes : (pane'[q].open \/ pane'[q].dirty \/ pane'[q].state # "IDLE")
                                   => pane'[q].post # None
            /\ store' \in StoreRecords /\ store'.msg \in {store.msg, None}
        BY <2>1, <2>3, EnterKeeps, StateNames
      <3>3. /\ call' \in [Calls -> CallRecords] /\ CallsInOrder'
            /\ \A d \in Calls : call'[d].arg \in {call[d].arg, None}
        BY <2>3, <3>2, EndsKeeps
      <3> QED
        BY <1>1, <2>3, <3>1, <3>2, <3>3, Assemble DEF Validated, TypeOK
    <2> QED
      BY <1>1, <2>2, <2>3 DEF Validated
  <1>2. ASSUME CheckEmail(c)
        PROVE  IInv'
    <2>1. call[c].pane \in Panes /\ pane[call[c].pane].post # None /\ call[c].pane # None
      BY <1>2, PaneOfCall, ReplyAssumption DEF CheckEmail
    <2>2. PICK s \in States : Enter(call[c].pane, s)
      BY <1>2, StateNames DEF CheckEmail
    <2>3. /\ pane' \in [Panes -> PaneRecords]
          /\ \A q \in Panes : pane'[q].post = pane[q].post
          /\ \A q \in Panes : (pane'[q].open \/ pane'[q].dirty \/ pane'[q].state # "IDLE")
                                 => pane'[q].post # None
          /\ store' \in StoreRecords /\ store'.msg \in {store.msg, None}
      BY <2>1, <2>2, EnterKeeps
    <2>4. /\ call' \in [Calls -> CallRecords] /\ CallsInOrder'
          /\ \A d \in Calls : call'[d].arg \in {call[d].arg, None}
      <3>1. CASE Step(c, "registering")
        BY <2>1, <2>3, <3>1, StepKeeps DEF Steps
      <3>2. CASE Ends(c)
        BY <2>3, <3>2, EndsKeeps
      <3> QED
        BY <1>2, <3>1, <3>2 DEF CheckEmail
    <2> QED
      BY <1>2, <2>3, <2>4, Assemble DEF CheckEmail, TypeOK
  <1>3. ASSUME Register(c)
        PROVE  IInv'
    <2> DEFINE p == call[c].pane
    <2>1. p \in Panes /\ pane[p].post # None /\ p # None /\ Running(c)
      BY <1>3, PaneOfCall, ReplyAssumption DEF Register, Running
    <2>2. CASE /\ pane' = [pane EXCEPT ![p].isNew = TRUE, ![p].state = "JOINING_GROUP"]
               /\ store' = Saved(store, "JOINING_GROUP", TRUE)
               /\ Step(c, "fetchingme") /\ UNCHANGED faults
      <3>1. /\ pane' \in [Panes -> PaneRecords]
            /\ \A q \in Panes : pane'[q].post = pane[q].post
            /\ \A q \in Panes : (pane'[q].open \/ pane'[q].dirty \/ pane'[q].state # "IDLE")
                                   => pane'[q].post # None
            /\ store' \in StoreRecords /\ store'.msg \in {store.msg, None}
        <4>1. "JOINING_GROUP" \in States
          BY StateNames
        <4>2. store' \in StoreRecords /\ store'.msg \in {store.msg, None}
          BY <1>0, <2>2, <4>1, SavedTyped
        <4>3. /\ pane' \in [Panes -> PaneRecords]
              /\ \A q \in Panes : pane'[q].post = pane[q].post
              /\ \A q \in Panes \ {p} : pane'[q] = pane[q]
          <5> DEFINE r == [pane[p] EXCEPT !.isNew = TRUE, !.state = "JOINING_GROUP"]
          <5>1. r \in PaneRecords /\ r.post = pane[p].post
            BY <1>0, <2>1, <4>1 DEF PaneRecords
          <5>2. pane' = [pane EXCEPT ![p] = r]
            BY <1>0, <2>1, <2>2
          <5> HIDE DEF r
          <5> QED
            BY <1>0, <2>1, <5>1, <5>2
        <4> QED
          BY <2>1, <4>2, <4>3 DEF TypeOK
      <3>2. /\ call' \in [Calls -> CallRecords] /\ CallsInOrder'
            /\ \A d \in Calls : call'[d].arg \in {call[d].arg, store.msg, None}
        BY <2>1, <2>2, <3>1, StepKeeps DEF Steps
      <3> QED
        BY <1>3, <2>2, <3>1, <3>2, Assemble DEF Register, TypeOK
    <2>3. CASE Stay /\ Ends(c) /\ UNCHANGED faults
      <3>1. /\ pane' \in [Panes -> PaneRecords]
            /\ \A q \in Panes : pane'[q].post = pane[q].post
            /\ \A q \in Panes : (pane'[q].open \/ pane'[q].dirty \/ pane'[q].state # "IDLE")
                                   => pane'[q].post # None
            /\ store' \in StoreRecords /\ store'.msg \in {store.msg, None}
        BY <2>3, StayKeeps
      <3>2. /\ call' \in [Calls -> CallRecords] /\ CallsInOrder'
            /\ \A d \in Calls : call'[d].arg \in {call[d].arg, store.msg, None}
        BY <2>3, <3>1, EndsKeeps
      <3> QED
        BY <1>3, <2>3, <3>1, <3>2, Assemble DEF Register, TypeOK
    <2>4. CASE Fails(c, "same")
      <3>1. /\ pane' \in [Panes -> PaneRecords]
            /\ \A q \in Panes : pane'[q].post = pane[q].post
            /\ \A q \in Panes : (pane'[q].open \/ pane'[q].dirty \/ pane'[q].state # "IDLE")
                                   => pane'[q].post # None
            /\ store' \in StoreRecords /\ store'.msg \in {store.msg, None}
            /\ call' \in [Calls -> CallRecords] /\ CallsInOrder'
            /\ \A d \in Calls : call'[d].arg \in {call[d].arg, store.msg, None}
            /\ faults' \in 0..MaxFaults
        BY <2>1, <2>4, FailsKeeps
      <3> QED
        BY <1>3, <3>1, Assemble DEF Register, TypeOK
    <2> QED
      BY <1>3, <2>2, <2>3, <2>4 DEF Register
  <1>4. ASSUME FetchMe(c)
        PROVE  IInv'
    <2> DEFINE p == call[c].pane
    <2>1. p \in Panes /\ pane[p].post # None /\ p # None /\ Running(c)
      BY <1>4, PaneOfCall, ReplyAssumption DEF FetchMe, Running
    <2>2. me' \in BOOLEAN /\ login' \in {"quiet", "woken", "onetap", "bump"}
      BY <1>4 DEF FetchMe, TypeOK
    <2>3. CASE JoinsAs(c, p, TRUE, pane, store) /\ UNCHANGED faults
      BY <1>0, <1>4, <2>1, <2>2, <2>3, JoinsAsKeeps, Assemble DEF FetchMe, TypeOK
    <2>4. CASE Fails(c, "same")
      <3>1. /\ pane' \in [Panes -> PaneRecords]
            /\ \A q \in Panes : pane'[q].post = pane[q].post
            /\ \A q \in Panes : (pane'[q].open \/ pane'[q].dirty \/ pane'[q].state # "IDLE")
                                   => pane'[q].post # None
            /\ store' \in StoreRecords /\ store'.msg \in {store.msg, None}
            /\ call' \in [Calls -> CallRecords] /\ CallsInOrder'
            /\ \A d \in Calls : call'[d].arg \in {call[d].arg, store.msg, None}
            /\ faults' \in 0..MaxFaults
        BY <2>1, <2>4, FailsKeeps
      <3> QED
        BY <1>4, <2>2, <3>1, Assemble DEF FetchMe, TypeOK
    <2> QED
      BY <1>4, <2>3, <2>4 DEF FetchMe
  <1>5. ASSUME JoinGroup(c)
        PROVE  IInv'
    <2> DEFINE p == call[c].pane
    <2>1. p \in Panes /\ pane[p].post # None /\ p # None /\ Running(c)
      BY <1>5, PaneOfCall, ReplyAssumption DEF JoinGroup, Running
    <2>2. CASE /\ Enter(p, "CREATING_CHAT") /\ Step(c, "creating")
               /\ known' = known \union {About(c)} /\ UNCHANGED faults
      <3>1. /\ pane' \in [Panes -> PaneRecords]
            /\ \A q \in Panes : pane'[q].post = pane[q].post
            /\ \A q \in Panes : (pane'[q].open \/ pane'[q].dirty \/ pane'[q].state # "IDLE")
                                   => pane'[q].post # None
            /\ store' \in StoreRecords /\ store'.msg \in {store.msg, None}
        BY <2>1, <2>2, EnterKeeps, StateNames
      <3>2. /\ call' \in [Calls -> CallRecords] /\ CallsInOrder'
            /\ \A d \in Calls : call'[d].arg \in {call[d].arg, store.msg, None}
        BY <2>1, <2>2, <3>1, StepKeeps DEF Steps
      <3>3. known' \in SUBSET Posts
        BY <2>1, <2>2 DEF About, TypeOK, PaneRecords
      <3> QED
        BY <1>5, <2>2, <3>1, <3>2, <3>3, Assemble DEF JoinGroup, TypeOK
    <2>3. CASE Fails(c, "ERROR") /\ UNCHANGED known
      <3>1. /\ pane' \in [Panes -> PaneRecords]
            /\ \A q \in Panes : pane'[q].post = pane[q].post
            /\ \A q \in Panes : (pane'[q].open \/ pane'[q].dirty \/ pane'[q].state # "IDLE")
                                   => pane'[q].post # None
            /\ store' \in StoreRecords /\ store'.msg \in {store.msg, None}
            /\ call' \in [Calls -> CallRecords] /\ CallsInOrder'
            /\ \A d \in Calls : call'[d].arg \in {call[d].arg, store.msg, None}
            /\ faults' \in 0..MaxFaults
        BY <2>1, <2>3, FailsKeeps
      <3> QED
        BY <1>5, <2>3, <3>1, Assemble DEF JoinGroup, TypeOK
    <2> QED
      BY <1>5, <2>2, <2>3 DEF JoinGroup
  <1>6. ASSUME CreateChat(c)
        PROVE  IInv'
    <2> DEFINE p == call[c].pane
    <2>1. p = None \/ (p \in Panes /\ pane[p].post # None)
      BY <1>6, PaneOfCall, ReplyAssumption DEF CreateChat
    <2>2. CASE /\ Sendable
               /\ call' = [call EXCEPT ![c].pc = "opening", ![c].arg = store.msg]
               /\ Stay /\ UNCHANGED faults
      <3>1. /\ pane' \in [Panes -> PaneRecords]
            /\ \A q \in Panes : pane'[q].post = pane[q].post
            /\ \A q \in Panes : (pane'[q].open \/ pane'[q].dirty \/ pane'[q].state # "IDLE")
                                   => pane'[q].post # None
            /\ store' \in StoreRecords /\ store'.msg \in {store.msg, None}
        BY <2>2, StayKeeps
      <3> DEFINE new == [call[c] EXCEPT !.pc = "opening", !.arg = store.msg]
      <3>2. /\ new \in CallRecords /\ new.pc = "opening" /\ new.arg = store.msg
            /\ new.pane = p /\ store.msg # None
        BY <1>0, <2>2 DEF Sendable, CallRecords, StoreRecords, Steps
      <3>3. call' = [call EXCEPT ![c] = new]
        BY <1>0, <2>2 DEF CallRecords
      <3>4. \A d \in Calls : call[d].pane # None => call[d].pane \in Panes
        BY <1>0 DEF CallRecords
      <3>5. \A d \in Calls : call'[d] = IF d = c THEN new ELSE call[d]
        BY <1>0, <3>3
      <3>6. /\ call' \in [Calls -> CallRecords] /\ CallsInOrder'
            /\ \A d \in Calls : call'[d].arg \in {call[d].arg, store.msg, None}
        <4> HIDE DEF new, p
        <4> QED
          BY <1>0, <2>1, <3>1, <3>2, <3>3, <3>4, <3>5 DEF CallsInOrder, p
      <3> QED
        BY <1>6, <2>2, <3>1, <3>6, Assemble DEF CreateChat, TypeOK
    <2>4. CASE /\ Sendable /\ store' = Forgotten(store.msg)
               /\ Ends(c) /\ UNCHANGED <<pane, faults>>
      <3>1. store' \in StoreRecords /\ store'.msg \in {store.msg, None}
        BY <1>0, <2>4 DEF Forgotten, StoreRecords
      <3>2. /\ call' \in [Calls -> CallRecords] /\ CallsInOrder'
            /\ \A d \in Calls : call'[d].arg \in {call[d].arg, store.msg, None}
        BY <2>4, EndsKeeps
      <3> QED
        BY <1>6, <2>4, <3>1, <3>2, Assemble DEF CreateChat, TypeOK
    <2>3. CASE /\ \/ Stay
                  \/ p # None /\ \E s \in States : Enter(p, s)
               /\ Ends(c)
               /\ faults' = faults \/ Fault("button")
      <3>1. /\ pane' \in [Panes -> PaneRecords]
            /\ \A q \in Panes : pane'[q].post = pane[q].post
            /\ \A q \in Panes : (pane'[q].open \/ pane'[q].dirty \/ pane'[q].state # "IDLE")
                                   => pane'[q].post # None
            /\ store' \in StoreRecords /\ store'.msg \in {store.msg, None}
        BY <2>1, <2>3, StayKeeps, EnterKeeps
      <3>2. /\ call' \in [Calls -> CallRecords] /\ CallsInOrder'
            /\ \A d \in Calls : call'[d].arg \in {call[d].arg, store.msg, None}
        BY <2>3, <3>1, EndsKeeps
      <3>3. faults' \in 0..MaxFaults
        BY <2>3, FaultTyped DEF TypeOK
      <3> QED
        BY <1>6, <3>1, <3>2, <3>3, Assemble DEF CreateChat, TypeOK
    <2> QED
      BY <1>6, <2>2, <2>3, <2>4, StateNames DEF CreateChat, NothingSent
  <1>7. ASSUME OpenChat(c)
        PROVE  IInv'
    <2> DEFINE p == call[c].pane
    <2>1. /\ call[c].arg # None /\ call[c].arg \in Posts /\ Running(c)
          /\ p = None \/ (p \in Panes /\ pane[p].post # None)
      BY <1>0, <1>7, PaneOfCall, ReplyAssumption DEF OpenChat, CallsInOrder, CallRecords, Running
    <2>2. CASE /\ rows' = [rows EXCEPT ![call[c].arg] = Append(@, ChatWith(c))]
               /\ Step(c, "answered") /\ Stay /\ UNCHANGED faults
      <3>1. /\ pane' \in [Panes -> PaneRecords]
            /\ \A q \in Panes : pane'[q].post = pane[q].post
            /\ \A q \in Panes : (pane'[q].open \/ pane'[q].dirty \/ pane'[q].state # "IDLE")
                                   => pane'[q].post # None
            /\ store' \in StoreRecords /\ store'.msg \in {store.msg, None}
        BY <2>2, StayKeeps
      <3>2. /\ call' \in [Calls -> CallRecords] /\ CallsInOrder'
            /\ \A d \in Calls : call'[d].arg = call[d].arg
        BY <2>1, <2>2, <3>1, StepKeeps DEF Steps
      <3>3. /\ rows' \in [Posts -> Seq(Posts)]
            /\ \A m \in Posts \ {call[c].arg} : rows'[m] = rows[m]
        <4>1. ChatWith(c) \in Posts /\ rows \in [Posts -> Seq(Posts)]
          BY <1>0, <2>1 DEF ChatWith, About, PaneRecords, TypeOK
        <4>2. Append(rows[call[c].arg], ChatWith(c)) \in Seq(Posts)
          BY <2>1, <4>1
        <4> QED
          BY <2>1, <2>2, <4>1, <4>2
      <3>4. TypeOK'
        BY <1>7, <2>2, <3>1, <3>2, <3>3 DEF OpenChat, TypeOK
      <3>5. clicks' = clicks
        BY <1>7 DEF OpenChat
      <3>6. StoreAsked(store)' /\ CallsAsked'
        BY <3>1, <3>2, <3>5 DEF Asked, StoreAsked, CallsAsked
      <3>7. NeverUnasked'
        BY <2>1, <3>3, <3>5 DEF Asked, NeverUnasked, CallsAsked, Sends
      <3> QED
        BY <3>4, <3>6, <3>7 DEF Asked
    <2>3. CASE Finish(c) /\ UNCHANGED <<rows, faults>>
      BY <1>7, <2>1, <2>3, FinishKeeps, Assemble DEF OpenChat, TypeOK
    <2>4. CASE Fails(c, "ERROR") /\ UNCHANGED rows
      <3>1. /\ pane' \in [Panes -> PaneRecords]
            /\ \A q \in Panes : pane'[q].post = pane[q].post
            /\ \A q \in Panes : (pane'[q].open \/ pane'[q].dirty \/ pane'[q].state # "IDLE")
                                   => pane'[q].post # None
            /\ store' \in StoreRecords /\ store'.msg \in {store.msg, None}
            /\ call' \in [Calls -> CallRecords] /\ CallsInOrder'
            /\ \A d \in Calls : call'[d].arg \in {call[d].arg, store.msg, None}
            /\ faults' \in 0..MaxFaults
        BY <2>1, <2>4, FailsKeeps
      <3> QED
        BY <1>7, <2>4, <3>1, Assemble DEF OpenChat, TypeOK
    <2> QED
      BY <1>7, <2>2, <2>3, <2>4 DEF OpenChat
  <1>8. ASSUME Answer(c)
        PROVE  IInv'
    <2> DEFINE p == call[c].pane
    <2>1. /\ call[c].arg # None /\ call[c].arg \in Posts /\ Running(c)
          /\ p = None \/ (p \in Panes /\ pane[p].post # None)
      BY <1>0, <1>8, PaneOfCall, ReplyAssumption DEF Answer, CallsInOrder, CallRecords, Running
    <2>2. excused' \in [Posts -> Nat]
      <3>1. excused \in [Posts -> Nat]
        BY DEF TypeOK
      <3> QED
        BY <1>8, <2>1, <3>1 DEF Answer
    <2>3. CASE Finish(c) /\ UNCHANGED <<excused, faults>>
      BY <1>8, <2>1, <2>2, <2>3, FinishKeeps, Assemble DEF Answer, TypeOK
    <2>4. CASE Fault("lost") /\ Step(c, "opening") /\ Stay
      <3>1. /\ pane' \in [Panes -> PaneRecords]
            /\ \A q \in Panes : pane'[q].post = pane[q].post
            /\ \A q \in Panes : (pane'[q].open \/ pane'[q].dirty \/ pane'[q].state # "IDLE")
                                   => pane'[q].post # None
            /\ store' \in StoreRecords /\ store'.msg \in {store.msg, None}
        BY <2>4, StayKeeps
      <3>2. /\ call' \in [Calls -> CallRecords] /\ CallsInOrder'
            /\ \A d \in Calls : call'[d].arg \in {call[d].arg, store.msg, None}
        BY <2>1, <2>4, <3>1, StepKeeps DEF Steps
      <3>3. faults' \in 0..MaxFaults
        BY <2>4, FaultTyped
      <3> QED
        BY <1>8, <2>2, <3>1, <3>2, <3>3, Assemble DEF Answer, TypeOK
    <2>5. CASE Fails(c, "ERROR")
      <3>1. /\ pane' \in [Panes -> PaneRecords]
            /\ \A q \in Panes : pane'[q].post = pane[q].post
            /\ \A q \in Panes : (pane'[q].open \/ pane'[q].dirty \/ pane'[q].state # "IDLE")
                                   => pane'[q].post # None
            /\ store' \in StoreRecords /\ store'.msg \in {store.msg, None}
            /\ call' \in [Calls -> CallRecords] /\ CallsInOrder'
            /\ \A d \in Calls : call'[d].arg \in {call[d].arg, store.msg, None}
            /\ faults' \in 0..MaxFaults
        BY <2>1, <2>5, FailsKeeps
      <3> QED
        BY <1>8, <2>2, <3>1, Assemble DEF Answer, TypeOK
    <2> QED
      BY <1>8, <2>3, <2>4, <2>5 DEF Answer
  <1>9. ASSUME WakePane(c)
        PROVE  IInv'
    <2>1. login' \in {"quiet", "woken", "onetap", "bump"}
      BY <1>9 DEF WakePane
    <2>2. CASE Stay /\ UNCHANGED <<call, excused>>
      <3>1. /\ pane' \in [Panes -> PaneRecords]
            /\ \A q \in Panes : pane'[q].post = pane[q].post
            /\ \A q \in Panes : (pane'[q].open \/ pane'[q].dirty \/ pane'[q].state # "IDLE")
                                   => pane'[q].post # None
            /\ store' \in StoreRecords /\ store'.msg \in {store.msg, None}
        BY <2>2, StayKeeps
      <3>2. /\ call' \in [Calls -> CallRecords] /\ CallsInOrder'
            /\ \A d \in Calls : call'[d].arg \in {call[d].arg, store.msg, None}
        BY <2>2, <3>1, CallsStay
      <3> QED
        BY <1>9, <2>1, <2>2, <3>1, <3>2, Assemble DEF WakePane, TypeOK
    <2>3. ASSUME NEW p \in Waiting, JoinsAs(c, p, me, pane, store),
                 excused' = [m \in Posts |-> IF Uses(p) # {} /\ m \in {pane[p].post, store.msg}
                                             THEN excused[m] + 1 ELSE excused[m]]
          PROVE  IInv'
      <3>1. p \in Panes /\ pane[p].post # None
        BY <2>3 DEF Waiting, OpenPanes, TypeOK
      <3>2. excused' \in [Posts -> Nat]
        BY <2>3 DEF TypeOK
      <3>3. me \in BOOLEAN
        BY DEF TypeOK
      <3>4. /\ pane' \in [Panes -> PaneRecords]
            /\ \A q \in Panes : (pane'[q].open \/ pane'[q].dirty \/ pane'[q].state # "IDLE")
                                   => pane'[q].post # None
            /\ store' \in StoreRecords /\ store'.msg \in {store.msg, None}
            /\ call' \in [Calls -> CallRecords] /\ CallsInOrder'
            /\ \A d \in Calls : call'[d].arg \in {call[d].arg, store.msg, None}
        BY <1>0, <2>3, <3>1, <3>3, JoinsAsKeeps
      <3> QED
        BY <1>9, <2>1, <3>2, <3>4, Assemble DEF WakePane, TypeOK
    <2> QED
      BY <1>9, <2>2, <2>3 DEF WakePane
  <1> QED
    BY <1>1, <1>2, <1>3, <1>4, <1>5, <1>6, <1>7, <1>8, <1>9 DEF Continue

LEMMA MountsKeeps ==
    ASSUME IInv, NEW c \in Calls, NEW user, NEW calls \in [Calls -> CallRecords],
           NEW seen \in SUBSET Posts, Mounts(c, user, calls, seen, store)
    PROVE  /\ known' \in SUBSET Posts /\ faults' \in 0..MaxFaults
           /\ call' \in [Calls -> CallRecords]
           /\ \A d \in Calls : \/ call'[d] = calls[d]
                               \/ call'[d] = [pc |-> "creating", pane |-> None, arg |-> store.msg]
  <1>1. [pc |-> "creating", pane |-> None, arg |-> store.msg] \in CallRecords
    BY DEF IInv, TypeOK, StoreRecords, CallRecords, Steps
  <1>2. CASE user /\ store.msg # None /\ store.fresh
    <2>1. /\ call' = [calls EXCEPT ![c] = [pc |-> "creating", pane |-> None, arg |-> store.msg]]
          /\ Fetches(seen, store.msg)
      BY <1>2 DEF Mounts
    <2>2. store.msg \in Posts
      BY <1>2 DEF IInv, TypeOK, StoreRecords
    <2> QED
      BY <1>1, <2>1, <2>2, FetchesTyped
  <1>3. CASE ~(user /\ store.msg # None /\ store.fresh)
    BY <1>3 DEF Mounts, IInv, TypeOK
  <1> QED
    BY <1>2, <1>3

LEMMA WorldInv ==
    ASSUME IInv, World
    PROVE  IInv'
  <1> USE DEF IInv
  <1>0. /\ store \in StoreRecords /\ call \in [Calls -> CallRecords] /\ CallsInOrder
        /\ pane \in [Panes -> PaneRecords]
    BY DEF TypeOK
  <1>1. ASSUME NEW how \in {"woken", "onetap"}, Login(how)
        PROVE  IInv'
    <2>1. /\ call' \in [Calls -> CallRecords] /\ CallsInOrder'
          /\ \A d \in Calls : call'[d].arg \in {call[d].arg, store.msg, None}
      BY <1>1, CallsStay DEF Login
    <2> QED
      BY <1>1, <2>1, Assemble DEF Login, TypeOK
  <1>2. CASE SessionEnds
    <2>1. /\ call' \in [Calls -> CallRecords] /\ CallsInOrder'
          /\ \A d \in Calls : call'[d].arg \in {call[d].arg, store.msg, None}
      BY <1>2, CallsStay DEF SessionEnds
    <2>2. faults' \in 0..MaxFaults
      BY <1>2, FaultTyped DEF SessionEnds
    <2> QED
      BY <1>2, <2>1, <2>2, Assemble DEF SessionEnds, TypeOK
  <1>3. CASE Age
    <2>1. /\ call' \in [Calls -> CallRecords] /\ CallsInOrder'
          /\ \A d \in Calls : call'[d].arg \in {call[d].arg, store.msg, None}
      BY <1>3, CallsStay DEF Age
    <2>2. faults' \in 0..MaxFaults
      BY <1>3, FaultTyped DEF Age
    <2>3. store' \in StoreRecords /\ store'.msg = store.msg
      BY <1>0, <1>3 DEF Age, StoreRecords
    <2> QED
      BY <1>3, <2>1, <2>2, <2>3, Assemble DEF Age, TypeOK
  <1>4. ASSUME NEW c \in Calls, Remount(c)
        PROVE  IInv'
    <2>1. OpenPanes \in SUBSET Panes
      BY DEF OpenPanes
    <2>2. store' \in StoreRecords /\ store'.msg \in {store.msg, None}
      BY <1>4, <2>1, FlushedTyped DEF Remount
    <2>3. /\ pane' \in [Panes -> PaneRecords]
          /\ \A q \in Panes : (pane'[q].open \/ pane'[q].dirty \/ pane'[q].state # "IDLE")
                                 => pane'[q].post # None
          /\ \A q \in Panes : Uses(q) # {} => pane'[q].post = pane[q].post
      BY <1>4, <2>1, UnmountedTyped DEF Remount
    <2>4. /\ known' \in SUBSET Posts /\ faults' \in 0..MaxFaults
          /\ call' \in [Calls -> CallRecords]
          /\ \A d \in Calls : \/ call'[d] = call[d]
                              \/ call'[d] = [pc |-> "creating", pane |-> None, arg |-> store.msg]
      BY <1>0, <1>4, MountsKeeps DEF Remount, TypeOK
    <2>5. \A d \in Calls : call[d].pane # None => call[d].pane \in Panes /\ Uses(call[d].pane) # {}
      BY <1>0 DEF CallRecords, CallsInOrder, Uses, Running, NoCall
    <2>6. CallsInOrder'
      BY <1>0, <2>3, <2>4, <2>5 DEF CallsInOrder
    <2>7. \A d \in Calls : call'[d].arg \in {call[d].arg, store.msg, None}
      BY <2>4
    <2>8. excused' \in [Posts -> Nat] /\ loads' \in 0..MaxLoads
      BY <1>4, ReplyAssumption DEF Remount, TypeOK
    <2> QED
      BY <1>4, <2>2, <2>3, <2>4, <2>6, <2>7, <2>8, Assemble DEF Remount, TypeOK
  <1>5. ASSUME NEW c \in Calls, NEW user \in BOOLEAN, Reload(c, user)
        PROVE  IInv'
    <2> DEFINE none == [d \in Calls |-> NoCall]
    <2>1. NewPane(None) \in PaneRecords /\ NoCall \in CallRecords
      BY StateNames DEF NewPane, PaneRecords, NoCall, CallRecords, Steps
    <2>2. /\ pane' \in [Panes -> PaneRecords]
          /\ \A q \in Panes : (pane'[q].open \/ pane'[q].dirty \/ pane'[q].state # "IDLE")
                                 => pane'[q].post # None
      BY <1>5, <2>1 DEF Reload, NewPane
    <2>3. none \in [Calls -> CallRecords] /\ Mounts(c, user, none, {}, store)
      BY <1>5, <2>1 DEF Reload
    <2>4. /\ known' \in SUBSET Posts /\ faults' \in 0..MaxFaults
          /\ call' \in [Calls -> CallRecords]
          /\ \A d \in Calls : \/ call'[d] = none[d]
                              \/ call'[d] = [pc |-> "creating", pane |-> None, arg |-> store.msg]
      BY <2>3, MountsKeeps
    <2>5. \A d \in Calls : \/ call'[d] = NoCall
                          \/ call'[d] = [pc |-> "creating", pane |-> None, arg |-> store.msg]
      BY <2>4
    <2>6. CallsInOrder' /\ \A d \in Calls : call'[d].arg \in {call[d].arg, store.msg, None}
      BY <2>5 DEF CallsInOrder, NoCall
    <2>7. excused' \in [Posts -> Nat]
      <3>1. \A m \in Posts : Cardinality({d \in Calls : call[d].pc = "answered" /\ call[d].arg = m}) \in Nat
        BY ReplyAssumption, FS_Subset, FS_CardinalityType
      <3>2. excused \in [Posts -> Nat]
        BY DEF TypeOK
      <3> QED
        BY <1>5, <3>1, <3>2 DEF Reload
    <2>8. loads' \in 0..MaxLoads
      BY <1>5, ReplyAssumption DEF Reload, TypeOK
    <2> QED
      BY <1>5, <2>2, <2>4, <2>6, <2>7, <2>8, Assemble DEF Reload, TypeOK
  <1> QED
    BY <1>1, <1>2, <1>3, <1>4, <1>5 DEF World

-------------------------------------------------------------------------------
(* The theorems *)

LEMMA StutterInv ==
    ASSUME IInv, UNCHANGED vars
    PROVE  IInv'
  BY DEF vars, IInv, TypeOK, CallsInOrder, Asked, StoreAsked, CallsAsked, NeverUnasked, Sends

LEMMA Inductive == Spec => []IInv
  <1>1. IInv /\ [Next]_vars => IInv'
    BY UserInv, CallInv, WorldInv, StutterInv DEF Next
  <1> QED
    BY InitInv, <1>1, PTL DEF Spec

\* However calls, logins, timers and page loads interleave, every value stays where it belongs:
\* a call past the join has a reply to send, and only the layout's own sends lack a composer.
THEOREM Typing == Spec => []TypeOK
  BY Inductive, PTL DEF IInv

\* What no press of Send committed is never sent: not a draft, and not by the layout's own
\* sends, whatever is resumed, aged, retried or left in the store.
THEOREM NothingUnasked == Spec => []NeverUnasked
  <1>1. IInv => NeverUnasked
    BY DEF IInv, Asked
  <1> QED
    BY Inductive, <1>1, PTL
===============================================================================

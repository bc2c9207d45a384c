------------------------- MODULE ReplyFlowSends_proofs -------------------------
(* Where a reply goes, how often, and what the user is told: machine-checked   *)
(* theorems about ReplyFlow for any posts, composers, calls, faults and bounds. *)
(*                                                                             *)
(* Every action is first reduced to what it does to the things these theorems  *)
(* are about (Effects); each invariant is then kept effect by effect.          *)
EXTENDS ReplyFlow_proofs

\* The store's reply is the one to n, or has overtaken it.
Fits(n) == store.msg \in {None, n} \/ <<n, store.msg>> \in overtaken

\* Once a call is past its commit, or a composer waits for a login or shows the welcome, the
\* store holds no other reply but one that has overtaken its own; and so with the reply that a
\* call has taken from the store.
OneOpen == \A p, q \in OpenPanes : p = q
OwnReply == \A c \in Calls : Settled(c) => Fits(About(c))
OwnArg == \A c \in Calls : call[c].pc \in {"opening", "answered"} =>
              call[c].arg = About(c) \/ <<About(c), call[c].arg>> \in overtaken
WaitsFit == \A p \in Waiting \union Welcoming : Fits(pane[p].post)
SendInv == OneOpen /\ OwnReply /\ OwnArg /\ WaitsFit

-------------------------------------------------------------------------------
(* The effects a step can have *)

Others(P) == \A q \in Panes \ P : pane'[q] = pane[q]
Same(q) == pane'[q].post = pane[q].post /\ pane'[q].open = pane[q].open
Unsent == UNCHANGED <<rows, clicks, excused, overtaken>>
SameStore == store'.msg = store.msg /\ store'.machine = store.machine /\ store'.fresh = store.fresh
Becomes(c, s, p, a) ==
    /\ \A d \in Calls \ {c} : call'[d] = call[d]
    /\ call'[c].pc = s /\ call'[c].pane = p /\ call'[c].arg = a

\* Nothing moves but logins and the age of the stored reply.
Idles == UNCHANGED <<pane, call>> /\ Unsent /\ store'.msg = store.msg /\ store'.machine = store.machine

Edits(p) ==
    /\ Others({p}) /\ Same(p) /\ call' = call /\ Unsent /\ store'.msg = store.msg
    /\ \/ store'.machine = store.machine /\ pane'[p].state = pane[p].state
       \/ store'.machine = "other" /\ pane'[p].state = "COMPOSING"

Welcomed(p) ==
    /\ Others({p}) /\ Same(p) /\ call' = call /\ Unsent
    /\ pane[p].open /\ pane[p].state = "SHOWING_WELCOME"
    /\ pane'[p].state = "COMPLETED" /\ store'.msg = None

\* The composers of P close; those that a call still uses keep their post and state.
Shut(P) ==
    /\ Others(P)
    /\ \A q \in P : /\ ~pane'[q].open
                    /\ Uses(q) # {} => pane'[q].post = pane[q].post /\ pane'[q].state = pane[q].state
                    /\ Uses(q) = {} => pane'[q].state = "IDLE"
Closes(P) == Shut(P) /\ call' = call /\ Unsent /\ SameStore

Opens(p, m) ==
    /\ OpenPanes = {} /\ Uses(p) = {}
    /\ Others({p}) /\ pane'[p].post = m /\ pane'[p].open /\ call' = call /\ Unsent
    /\ \/ /\ pane'[p].state = "IDLE" /\ store'.msg = None
          /\ store.msg = m /\ (~store.fresh \/ store.machine = "COMPLETED")
       \/ /\ pane'[p].state = "SHOWING_WELCOME" /\ store'.msg = store.msg
          /\ store.msg = m /\ store.machine = "SHOWING_WELCOME"
       \/ pane'[p].state = "COMPOSING" /\ store'.msg = store.msg /\ store'.machine = "other"
       \/ pane'[p].state = "IDLE" /\ SameStore

Submits(p, c) ==
    /\ pane[p].open /\ pane[p].state \in {"COMPOSING", "ERROR"} /\ ~Running(c)
    /\ Others({p}) /\ Same(p) /\ pane'[p].state = "VALIDATING" /\ store' = store /\ Unsent
    /\ Becomes(c, "validating", p, None)

\* The store keeps its reply; the call's composer may be moved by it.
Quietly(c) ==
    /\ Others({call[c].pane}) /\ store'.msg = store.msg /\ store'.fresh = store.fresh
    /\ \/ pane' = pane /\ store' = store
       \/ /\ call[c].pane # None /\ Same(call[c].pane) /\ store'.machine = "other"
          /\ pane'[call[c].pane].state \in Processing \union {"COMPOSING", "ERROR"}

GivesUp(c) ==
    /\ Running(c) /\ Quietly(c) /\ Ends(c) /\ UNCHANGED <<rows, clicks, overtaken>>
    /\ call[c].pc = "validating" => pane'[call[c].pane].state = "COMPOSING"
    /\ call[c].pc = "checking" => store'.machine = "other"
    /\ excused' = IF call[c].pc = "answered" THEN [excused EXCEPT ![call[c].arg] = @ + 1] ELSE excused

Unsure == {"checking", "registering", "fetchingme", "joining", "creating", "opening"}

Goes(c) ==
    /\ call[c].pc \in Unsure /\ Quietly(c) /\ Unsent
    /\ call[c].pc = "checking" => store'.machine = "other"
    /\ \E s \in Unsure, a \in Posts \union {None} :
          /\ Becomes(c, s, call[c].pane, a)
          /\ call[c].pane = None => s = "opening"
          /\ s = "opening" => a = store.msg /\ a # None

Commits(c) ==
    LET p == call[c].pane
    IN  /\ call[c].pc = "validating" /\ UNCHANGED rows /\ Overtakes(pane[p].post)
        /\ clicks' = [clicks EXCEPT ![pane[p].post] = @ + 1]
        /\ Others({p}) /\ Same(p) /\ store'.msg = pane[p].post
        /\ \E s \in {"joining", "checking"}, a \in Posts \union {None} :
              /\ Becomes(c, s, p, a)
              /\ s = "joining" => store'.machine = "other" /\ pane'[p].state = "JOINING_GROUP"
              /\ s = "checking" => /\ pane' = pane
                                   /\ store'.machine \in Sent => store'.machine = pane[p].state

Delivers(c) ==
    /\ call[c].pc = "opening" /\ About(c) \notin Banned
    /\ UNCHANGED <<pane, store, clicks, excused, overtaken>>
    /\ Becomes(c, "answered", call[c].pane, call[c].arg)
    /\ rows' = [rows EXCEPT ![call[c].arg] = Append(@, About(c))]

Finishes(c) ==
    /\ call[c].pc = "answered" \/ (call[c].pc = "opening" /\ About(c) \in Banned)
    /\ Ends(c) /\ Unsent /\ store'.msg = None /\ Others({call[c].pane})
    /\ call[c].pane # None => Same(call[c].pane) /\ pane'[call[c].pane].state \in Sent

Resends(c) ==
    /\ call[c].pc = "answered" /\ Becomes(c, "opening", call[c].pane, call[c].arg)
    /\ UNCHANGED <<pane, store, rows, clicks, overtaken>>
    /\ excused' = [excused EXCEPT ![call[c].arg] = @ + 1]

\* The layout has nobody to send the reply to, and lets it go.
Drops(c) ==
    /\ call[c].pc = "creating" /\ call[c].pane = None /\ store.msg \notin known
    /\ Ends(c) /\ pane' = pane /\ Unsent /\ store'.msg = None

Wakes(p, c) ==
    /\ p \in Waiting /\ ~Running(c)
    /\ Others({p}) /\ Same(p) /\ store'.msg = store.msg /\ store'.machine = "other"
    /\ UNCHANGED <<rows, clicks, overtaken>>
    /\ excused' = [m \in Posts |-> IF Uses(p) # {} /\ m \in {pane[p].post, store.msg}
                                   THEN excused[m] + 1 ELSE excused[m]]
    /\ \/ /\ pane'[p].state = "JOINING_GROUP"
          /\ Becomes(c, "joining", p, None)
       \/ pane'[p].state = "AUTHENTICATING" /\ call' = call

Remounts(c) ==
    /\ ~Running(c) /\ Shut(OpenPanes) /\ SameStore /\ UNCHANGED <<rows, clicks, overtaken>>
    /\ \/ call' = call /\ excused' = excused
       \/ /\ store.msg # None /\ Becomes(c, "creating", None, store.msg)
          /\ LET again == \E d \in Calls : Past(d)
             IN  excused' = [m \in Posts |-> IF m = store.msg /\ again THEN excused[m] + 1 ELSE excused[m]]

Unheard(m) == {d \in Calls : call[d].pc = "answered" /\ call[d].arg = m}

Reloads(c) ==
    /\ \A q \in Panes : ~pane'[q].open /\ pane'[q].state = "IDLE"
    /\ UNCHANGED <<store, rows, clicks, overtaken>>
    /\ \A d \in Calls \ {c} : call'[d] = NoCall
    /\ \/ call'[c] = NoCall
       \/ /\ store.msg # None
          /\ call'[c].pc = "creating" /\ call'[c].pane = None /\ call'[c].arg = store.msg
    /\ excused' = [m \in Posts |-> excused[m] + Cardinality(Unheard(m))]

-------------------------------------------------------------------------------
(* Every step has one of them *)

LEMMA EnterEffect ==
    ASSUME IInv, NEW p \in Panes, NEW s \in States, Enter(p, s)
    PROVE  /\ Others({p}) /\ Same(p) /\ pane'[p].state = s
           /\ s = "VALIDATING" => store' = store
           /\ s = "COMPLETED" => store' = Cleared
           /\ s \notin {"VALIDATING", "COMPLETED"} =>
                 /\ store'.msg = store.msg /\ store'.fresh = store.fresh
                 /\ store'.machine = IF s \in Sent THEN s ELSE "other"
  <1>1. pane' = Moved(p, s) /\ store' = Saved(store, s, pane[p].isNew)
    BY DEF Enter
  <1>2. Moved(p, s)[p].state = s
    BY DEF Moved, IInv, TypeOK, PaneRecords
  <1>3. store \in StoreRecords
    BY DEF IInv, TypeOK
  <1>4. /\ s = "VALIDATING" => store' = store
        /\ s = "COMPLETED" => store' = Cleared
        /\ s \notin {"VALIDATING", "COMPLETED"} =>
                 /\ store'.msg = store.msg /\ store'.fresh = store.fresh
                 /\ store'.machine = IF s \in Sent THEN s ELSE "other"
    BY <1>1, <1>3 DEF Saved, Persisted, StoreRecords
  <1> QED
    BY <1>1, <1>2, <1>4, MovedTyped DEF IInv, Others, Same

\* A call that moves its composer to one of the states in which nothing has been sent.
LEMMA EnterQuietly ==
    ASSUME IInv, NEW c \in Calls, call[c].pane \in Panes,
           NEW s \in {"ERROR", "COMPOSING", "AUTHENTICATING", "JOINING_GROUP", "CREATING_CHAT"},
           Enter(call[c].pane, s)
    PROVE  /\ Quietly(c) /\ pane'[call[c].pane].state = s
           /\ store'.machine = "other"
  <1>1. s \in States /\ s \notin Sent /\ s \in Processing \union {"COMPOSING", "ERROR"}
        /\ s \notin {"VALIDATING", "COMPLETED"}
    BY DEF States, Editing, Processing, Sent
  <1>2. call[c].pane # None
    BY ReplyAssumption
  <1> QED
    BY <1>1, <1>2, EnterEffect DEF Quietly

LEMMA StayQuietly ==
    ASSUME NEW c \in Calls, Stay
    PROVE  Quietly(c)
  BY DEF Stay, Quietly, Others

LEMMA FailsEffect ==
    ASSUME IInv, NEW c \in Calls, NEW s \in {"ERROR", "same"}, Fails(c, s)
    PROVE  Quietly(c) /\ Ends(c)
  <1>1. call[c].pane = None \/ call[c].pane \in Panes
    BY DEF IInv, TypeOK, CallRecords
  <1>2. Stay \/ (call[c].pane # None /\ \E t \in {"ERROR", "AUTHENTICATING"} : Enter(call[c].pane, t))
    BY DEF Fails
  <1> QED
    BY <1>1, <1>2, EnterQuietly, StayQuietly DEF Fails

LEMMA UnmountedShut ==
    ASSUME IInv, NEW P \in SUBSET Panes, pane' = Unmounted(P)
    PROVE  Shut(P)
  <1>1. NewPane(None).open = FALSE /\ NewPane(None).state = "IDLE"
    BY DEF NewPane
  <1>2. \A q \in Panes \ P : pane'[q] = pane[q]
    BY DEF Unmounted
  <1>3. \A q \in P : Uses(q) = {} => pane'[q] = NewPane(None)
    BY DEF Unmounted
  <1>4. \A q \in P : Uses(q) # {} => pane'[q] = [pane[q] EXCEPT !.open = FALSE, !.dirty = FALSE]
    BY DEF Unmounted
  <1>5. \A q \in P : Uses(q) # {} =>
           ~pane'[q].open /\ pane'[q].post = pane[q].post /\ pane'[q].state = pane[q].state
    <2> TAKE q \in P
    <2>1. pane[q] \in PaneRecords
      BY DEF IInv, TypeOK
    <2>2. /\ ~[pane[q] EXCEPT !.open = FALSE, !.dirty = FALSE].open
          /\ [pane[q] EXCEPT !.open = FALSE, !.dirty = FALSE].post = pane[q].post
          /\ [pane[q] EXCEPT !.open = FALSE, !.dirty = FALSE].state = pane[q].state
      BY <2>1 DEF PaneRecords
    <2> QED
      BY <1>4, <2>2
  <1> QED
    BY <1>1, <1>2, <1>3, <1>5 DEF Shut, Others

LEMMA DraftedSame ==
    ASSUME IInv, NEW p \in Panes, store' = Drafted(p)
    PROVE  SameStore
  BY DEF SameStore, Drafted, IInv, TypeOK, StoreRecords

LEMMA FlushedSame ==
    ASSUME IInv, NEW P \in SUBSET Panes, store' = Flushed(P)
    PROVE  SameStore
  <1>1. CASE \E p \in P : pane[p].dirty
    <2>1. (CHOOSE p \in P : TRUE) \in Panes
      BY <1>1
    <2> QED
      BY <1>1, <2>1, DraftedSame DEF Flushed
  <1>2. CASE ~ \E p \in P : pane[p].dirty
    BY <1>2 DEF Flushed, SameStore
  <1> QED
    BY <1>1, <1>2

LEMMA OpenPaneEffect ==
    ASSUME IInv, NEW p \in Panes, NEW m \in Posts, OpenPane(p, m)
    PROVE  Opens(p, m)
  <1> DEFINE resumed == IF store.machine \in Sent THEN store.machine ELSE "COMPOSING"
             at(s, new) == [NewPane(m) EXCEPT !.state = s, !.dirty = TRUE, !.isNew = new]
  <1>1. /\ OpenPanes = {} /\ Uses(p) = {} /\ call' = call /\ Unsent
        /\ pane \in [Panes -> PaneRecords] /\ store \in StoreRecords /\ m # None
    BY ReplyAssumption DEF OpenPane, Unsent, IInv, TypeOK
  <1>2. /\ NewPane(m).post = m /\ NewPane(m).open /\ NewPane(m).state = "IDLE"
        /\ \A s, new : at(s, new).post = m /\ at(s, new).open /\ at(s, new).state = s
    BY <1>1 DEF NewPane
  <1>3. \A new : /\ Saved(store, "COMPOSING", new).msg = store.msg
                 /\ Saved(store, "COMPOSING", new).machine = "other"
                 /\ Saved(store, "SHOWING_WELCOME", new).msg = store.msg
    BY <1>1 DEF Saved, Persisted, Sent, StoreRecords
  <1> HIDE DEF at
  <1>4. CASE store.msg = m /\ (~store.fresh \/ resumed = "COMPLETED")
    <2>1. pane' = [pane EXCEPT ![p] = NewPane(m)] /\ store' = Cleared
      BY <1>1, <1>4 DEF OpenPane
    <2>2. ~store.fresh \/ store.machine = "COMPLETED"
      BY <1>4
    <2> QED
      BY <1>1, <1>2, <1>4, <2>1, <2>2 DEF Opens, Others, Cleared
  <1>5. CASE store.msg = m /\ store.fresh /\ resumed # "COMPLETED"
    <2> DEFINE new == store.isNew \/ resumed = "SHOWING_WELCOME"
    <2>1. pane' = [pane EXCEPT ![p] = at(resumed, new)] /\ store' = Saved(store, resumed, new)
      BY <1>5 DEF OpenPane, at
    <2>2. resumed = "COMPOSING" \/ (resumed = "SHOWING_WELCOME" /\ store.machine = "SHOWING_WELCOME")
      BY <1>5 DEF Sent
    <2> HIDE DEF new, resumed
    <2>3. /\ Others({p}) /\ pane'[p].post = m /\ pane'[p].open /\ pane'[p].state = resumed
      BY <1>1, <1>2, <2>1 DEF Others
    <2> QED
      BY <1>1, <1>3, <1>5, <2>1, <2>2, <2>3 DEF Opens
  <1>6. CASE store.msg # m /\ store.draft = m
    <2>1. CASE /\ pane' = [pane EXCEPT ![p] = at("COMPOSING", FALSE)]
               /\ store' = Saved(store, "COMPOSING", FALSE)
      BY <1>1, <1>2, <1>3, <2>1 DEF Opens, Others
    <2>2. CASE /\ pane' = [pane EXCEPT ![p] = NewPane(m)]
               /\ store' = [store EXCEPT !.draft = None]
      <3>1. SameStore
        BY <1>1, <2>2 DEF SameStore, StoreRecords
      <3> QED
        BY <1>1, <1>2, <2>2, <3>1 DEF Opens, Others
    <2> QED
      BY <1>6, <2>1, <2>2 DEF OpenPane, at
  <1>7. CASE m \notin {store.msg, store.draft}
    <2>1. pane' = [pane EXCEPT ![p] = NewPane(m)] /\ store' = store
      BY <1>7 DEF OpenPane
    <2> QED
      BY <1>1, <1>2, <2>1 DEF Opens, Others, SameStore
  <1> QED
    BY <1>4, <1>5, <1>6, <1>7

LEMMA UserEffect ==
    ASSUME IInv, NEW p \in Panes, User(p) \/ Timers(p)
    PROVE  \/ Edits(p) \/ Welcomed(p) \/ Closes({p})
           \/ \E m \in Posts : Opens(p, m)
           \/ \E c \in Calls : Submits(p, c)
  <1>0. /\ pane \in [Panes -> PaneRecords] /\ store \in StoreRecords
        /\ {"COMPOSING", "COMPLETED", "VALIDATING"} \subseteq States
    BY StateNames DEF IInv, TypeOK
  <1>1. ASSUME NEW m \in Posts, OpenPane(p, m)
        PROVE  Opens(p, m)
    BY <1>1, OpenPaneEffect
  <1>2. CASE Type(p)
    <2>1. /\ pane'[p].state = IF pane[p].state = "IDLE" THEN "COMPOSING" ELSE pane[p].state
          /\ Others({p}) /\ Same(p)
      BY <1>0, <1>2 DEF Type, Others, Same, PaneRecords
    <2>2. \/ pane[p].state # "IDLE" /\ store' = store
          \/ pane[p].state = "IDLE" /\ store' = Saved(store, "COMPOSING", pane[p].isNew)
      BY <1>2 DEF Type
    <2>3. Saved(store, "COMPOSING", pane[p].isNew).msg = store.msg
          /\ Saved(store, "COMPOSING", pane[p].isNew).machine = "other"
      BY <1>0 DEF Saved, Persisted, Sent, StoreRecords
    <2>4. Edits(p)
      BY <1>2, <2>1, <2>2, <2>3 DEF Type, Edits, Unsent
    <2> QED
      BY <2>4
  <1>3. CASE Close(p)
    BY <1>3, UnmountedShut, FlushedSame DEF Close, Closes, Unsent
  <1>4. CASE Retry(p)
    <2>1. Others({p}) /\ Same(p) /\ pane'[p].state = "COMPOSING"
      BY <1>0, <1>4 DEF Retry, Others, Same, PaneRecords
    <2>2. Saved(store, "COMPOSING", pane[p].isNew).msg = store.msg
          /\ Saved(store, "COMPOSING", pane[p].isNew).machine = "other"
      BY <1>0 DEF Saved, Persisted, Sent, StoreRecords
    <2>3. Edits(p)
      BY <1>4, <2>1, <2>2 DEF Retry, Edits, Unsent
    <2> QED
      BY <2>3
  <1>5. CASE CloseWelcome(p)
    <2>1. pane[p].open /\ pane[p].state = "SHOWING_WELCOME" /\ Enter(p, "COMPLETED")
      BY <1>5 DEF CloseWelcome
    <2>2. Others({p}) /\ Same(p) /\ pane'[p].state = "COMPLETED" /\ store' = Cleared
      BY <1>0, <2>1, EnterEffect
    <2>3. Welcomed(p)
      BY <1>5, <2>1, <2>2 DEF CloseWelcome, Welcomed, Unsent, Cleared
    <2> QED
      BY <2>3
  <1>6. ASSUME NEW c \in Calls, Submit(p, c)
        PROVE  Submits(p, c)
    <2>1. Becomes(c, "validating", p, None)
      BY <1>6 DEF Submit, Becomes, NoCall, IInv, TypeOK
    <2>2. pane[p].state \in {"COMPOSING", "ERROR"}
      BY <1>6 DEF Submit, Editing
    <2> QED
      BY <1>0, <1>6, <2>1, <2>2, EnterEffect DEF Submit, Submits, Unsent
  <1>7. CASE PersistDraft(p)
    <2>1. Others({p}) /\ Same(p) /\ pane'[p].state = pane[p].state
      BY <1>0, <1>7 DEF PersistDraft, Others, Same, PaneRecords
    <2>2. Edits(p)
      BY <1>7, <2>1, DraftedSame DEF PersistDraft, Edits, Unsent, SameStore
    <2> QED
      BY <2>2
  <1>8. CASE TimesOut(p)
    BY <1>0, <1>8, EnterEffect DEF TimesOut, Edits, Unsent, Sent
  <1> QED
    BY <1>1, <1>2, <1>3, <1>4, <1>5, <1>6, <1>7, <1>8 DEF User, Timers

LEMMA StepBecomes ==
    ASSUME IInv, NEW c \in Calls, NEW s, Step(c, s)
    PROVE  Becomes(c, s, call[c].pane, call[c].arg)
  BY DEF Step, Becomes, IInv, TypeOK, CallRecords

LEMMA JoinsAsEffect ==
    ASSUME IInv, NEW c \in Calls, NEW p \in Panes, NEW user \in BOOLEAN, NEW st \in StoreRecords,
           JoinsAs(c, p, user, pane, st)
    PROVE  /\ Others({p}) /\ Same(p)
           /\ store'.msg = st.msg /\ store'.fresh = st.fresh /\ store'.machine = "other"
           /\ user => pane'[p].state = "JOINING_GROUP" /\ Becomes(c, "joining", p, None)
           /\ ~user => pane'[p].state = "AUTHENTICATING" /\ Ends(c)
  <1> DEFINE s == IF user THEN "JOINING_GROUP" ELSE "AUTHENTICATING"
  <1>1. pane' = [pane EXCEPT ![p].state = s] /\ store' = Saved(st, s, pane[p].isNew)
    BY DEF JoinsAs
  <1>2. pane \in [Panes -> PaneRecords] /\ call \in [Calls -> CallRecords]
    BY DEF IInv, TypeOK
  <1>3. s \notin Sent /\ s # "VALIDATING"
    BY DEF Sent
  <1>4. store'.msg = st.msg /\ store'.fresh = st.fresh /\ store'.machine = "other"
    BY <1>1, <1>3 DEF Saved, Persisted, Sent, StoreRecords
  <1>5. Others({p}) /\ Same(p) /\ pane'[p].state = s
    BY <1>1, <1>2 DEF Others, Same, PaneRecords
  <1>6. user => Becomes(c, "joining", p, None)
    BY <1>2 DEF JoinsAs, Becomes, NoCall
  <1>7. ~user => Ends(c)
    BY DEF JoinsAs, Ends
  <1> QED
    BY <1>4, <1>5, <1>6, <1>7

LEMMA ValidatedEffect ==
    ASSUME IInv, NEW c \in Calls, Validated(c)
    PROVE  Commits(c) \/ GivesUp(c)
  <1> DEFINE p == call[c].pane
             kept == Committed(p)
  <1>1. /\ call[c].pc = "validating" /\ p \in Panes /\ pane[p].post \in Posts
        /\ rows' = rows
    BY PaneOfCall DEF Validated
  <1>2. CASE /\ clicks' = [clicks EXCEPT ![pane[p].post] = @ + 1] /\ Overtakes(pane[p].post)
             /\ \/ me /\ JoinsAs(c, p, me, pane, kept)
                \/ ~me /\ store' = kept /\ Step(c, "checking") /\ UNCHANGED pane
    <2>1. /\ kept \in StoreRecords /\ kept.msg = pane[p].post
          /\ kept.machine \in Sent => kept.machine = pane[p].state
      <3>1. [store EXCEPT !.msg = pane[p].post, !.fresh = TRUE] \in StoreRecords
            /\ [store EXCEPT !.msg = pane[p].post, !.fresh = TRUE].msg = pane[p].post
        BY <1>1 DEF IInv, TypeOK, StoreRecords
      <3>2. pane[p].state \in States /\ pane[p].isNew \in BOOLEAN
        BY <1>1 DEF IInv, TypeOK, PaneRecords
      <3>3. kept \in StoreRecords /\ kept.msg = pane[p].post
        BY <3>1, <3>2, PersistedTyped DEF Committed
      <3>4. kept.machine = IF pane[p].state \in Sent THEN pane[p].state ELSE "other"
        BY <3>1 DEF Committed, Persisted, StoreRecords
      <3> QED
        BY <3>3, <3>4 DEF Sent
    <2> HIDE DEF kept, p
    <2>2. CASE me /\ JoinsAs(c, p, me, pane, kept)
      <3>1. /\ Others({p}) /\ Same(p) /\ store'.msg = pane[p].post /\ store'.machine = "other"
            /\ pane'[p].state = "JOINING_GROUP" /\ Becomes(c, "joining", p, None)
        BY <1>1, <2>1, <2>2, JoinsAsEffect
      <3>2. \E s \in {"joining", "checking"}, a \in Posts \union {None} :
              /\ Becomes(c, s, p, a)
              /\ s = "joining" => store'.machine = "other" /\ pane'[p].state = "JOINING_GROUP"
              /\ s = "checking" => /\ pane' = pane
                                   /\ store'.machine \in Sent => store'.machine = pane[p].state
        BY <3>1
      <3> QED
        BY <1>1, <1>2, <3>1, <3>2 DEF Commits, p
    <2>3. CASE ~me /\ store' = kept /\ Step(c, "checking") /\ UNCHANGED pane
      <3>1. Becomes(c, "checking", p, call[c].arg) /\ call[c].arg \in Posts \union {None}
        BY <2>3, StepBecomes DEF p, IInv, TypeOK, CallRecords
      <3>2. Others({p}) /\ Same(p)
        BY <2>3 DEF Others, Same
      <3>3. \E s \in {"joining", "checking"}, a \in Posts \union {None} :
              /\ Becomes(c, s, p, a)
              /\ s = "joining" => store'.machine = "other" /\ pane'[p].state = "JOINING_GROUP"
              /\ s = "checking" => /\ pane' = pane
                                   /\ store'.machine \in Sent => store'.machine = pane[p].state
        BY <2>1, <2>3, <3>1
      <3> QED
        BY <1>1, <1>2, <2>1, <2>3, <3>2, <3>3 DEF Commits, p
    <2> QED
      BY <1>2, <2>2, <2>3 DEF p, kept
  <1>3. CASE Enter(p, "COMPOSING") /\ Ends(c) /\ UNCHANGED <<clicks, excused, overtaken>>
    <2>1. Quietly(c) /\ pane'[p].state = "COMPOSING" /\ store'.machine = "other"
      BY <1>1, <1>3, EnterQuietly
    <2> QED
      BY <1>1, <1>3, <2>1 DEF GivesUp, Running
  <1> QED
    BY <1>2, <1>3 DEF Validated

\* How a call past the commit goes on to its next await.
LEMMA GoesOn ==
    ASSUME IInv, NEW c \in Calls, call[c].pc \in Unsure, Quietly(c), Unsent,
           call[c].pc = "checking" => store'.machine = "other",
           NEW s \in Unsure, NEW a \in Posts \union {None}, Becomes(c, s, call[c].pane, a),
           call[c].pane = None => s = "opening", s = "opening" => a = store.msg /\ a # None
    PROVE  Goes(c)
  BY DEF Goes

LEMMA CallEffect ==
    ASSUME IInv, NEW c \in Calls,
           CheckEmail(c) \/ Register(c) \/ FetchMe(c) \/ JoinGroup(c) \/ CreateChat(c)
    PROVE  Goes(c) \/ GivesUp(c) \/ Drops(c)
  <1> DEFINE p == call[c].pane
  <1>0. /\ call[c].pc \in Unsure /\ call[c].pc # "opening" /\ Running(c) /\ Unsent
        /\ call[c].arg \in Posts \union {None} /\ p \in Panes \union {None}
    BY DEF CheckEmail, Register, FetchMe, JoinGroup, CreateChat, Unsure, Running, Unsent,
           IInv, TypeOK, CallRecords
  <1>1. call[c].pc # "creating" => p \in Panes /\ p # None
    BY <1>0, PaneOfCall, ReplyAssumption DEF Unsure
  <1>2. ASSUME Quietly(c), Ends(c), call[c].pc = "checking" => store'.machine = "other"
        PROVE  GivesUp(c)
    BY <1>0, <1>2 DEF GivesUp, Unsure, Unsent
  <1>3. ASSUME NEW s \in {"ERROR", "same"}, Fails(c, s), call[c].pc # "checking"
        PROVE  GivesUp(c)
    BY <1>2, <1>3, FailsEffect
  <1>4. ASSUME NEW s \in Unsure, s # "opening", Step(c, s), Quietly(c), p # None,
               call[c].pc = "checking" => store'.machine = "other"
        PROVE  Goes(c)
    BY <1>0, <1>4, StepBecomes, GoesOn
  <1>5. CASE CheckEmail(c)
    <2>1. \/ Enter(p, "AUTHENTICATING") /\ Step(c, "registering")
          \/ Enter(p, "COMPOSING") /\ Ends(c)
      BY <1>5 DEF CheckEmail
    <2>2. p \in Panes /\ p # None
      BY <1>1, <1>5 DEF CheckEmail
    <2>3. Quietly(c) /\ store'.machine = "other"
      BY <2>1, <2>2, EnterQuietly
    <2> QED
      BY <1>2, <1>4, <2>1, <2>2, <2>3 DEF Unsure
  <1>6. CASE Register(c)
    <2>1. p \in Panes /\ p # None /\ call[c].pc # "checking"
      BY <1>1, <1>6 DEF Register
    <2>2. CASE /\ pane' = [pane EXCEPT ![p].isNew = TRUE, ![p].state = "JOINING_GROUP"]
               /\ store' = Saved(store, "JOINING_GROUP", TRUE)
               /\ Step(c, "fetchingme")
      <3>1. pane \in [Panes -> PaneRecords] /\ store \in StoreRecords
        BY DEF IInv, TypeOK
      <3>2. store'.msg = store.msg /\ store'.fresh = store.fresh /\ store'.machine = "other"
        BY <2>2, <3>1 DEF Saved, Persisted, Sent, StoreRecords
      <3>3. Others({p}) /\ Same(p) /\ pane'[p].state = "JOINING_GROUP"
        <4>1. pane[p] \in PaneRecords
          BY <2>1, <3>1
        <4> DEFINE r == [pane[p] EXCEPT !.isNew = TRUE, !.state = "JOINING_GROUP"]
        <4>2. pane' = [pane EXCEPT ![p] = r]
          BY <2>1, <2>2, <3>1
        <4>3. r.post = pane[p].post /\ r.open = pane[p].open /\ r.state = "JOINING_GROUP"
          BY <4>1 DEF PaneRecords
        <4> HIDE DEF r
        <4> QED
          BY <2>1, <3>1, <4>2, <4>3 DEF Others, Same
      <3>4. Quietly(c)
        BY <2>1, <3>2, <3>3 DEF Quietly, Processing
      <3> QED
        BY <1>4, <2>1, <2>2, <3>2, <3>4 DEF Unsure
    <2>3. CASE Stay /\ Ends(c)
      BY <1>2, <2>1, <2>3, StayQuietly
    <2>4. CASE Fails(c, "same")
      BY <1>3, <2>1, <2>4
    <2> QED
      BY <1>6, <2>2, <2>3, <2>4 DEF Register
  <1>7. CASE FetchMe(c)
    <2>1. p \in Panes /\ p # None /\ call[c].pc # "checking" /\ store \in StoreRecords
      BY <1>1, <1>7 DEF FetchMe, IInv, TypeOK
    <2>2. CASE JoinsAs(c, p, TRUE, pane, store)
      <3>1. /\ Others({p}) /\ Same(p) /\ pane'[p].state = "JOINING_GROUP"
            /\ store'.msg = store.msg /\ store'.fresh = store.fresh /\ store'.machine = "other"
            /\ Becomes(c, "joining", p, None)
        BY <2>1, <2>2, JoinsAsEffect
      <3>2. Quietly(c)
        BY <2>1, <3>1 DEF Quietly, Processing
      <3> QED
        BY <1>0, <2>1, <3>1, <3>2, GoesOn DEF Unsure
    <2>3. CASE Fails(c, "same")
      BY <1>3, <2>1, <2>3
    <2> QED
      BY <1>7, <2>2, <2>3 DEF FetchMe
  <1>8. CASE JoinGroup(c)
    <2>1. p \in Panes /\ p # None /\ call[c].pc # "checking"
      BY <1>1, <1>8 DEF JoinGroup
    <2>2. CASE Enter(p, "CREATING_CHAT") /\ Step(c, "creating")
      <3>1. Quietly(c)
        BY <2>1, <2>2, EnterQuietly
      <3> QED
        BY <1>4, <2>1, <2>2, <3>1 DEF Unsure
    <2>3. CASE Fails(c, "ERROR")
      BY <1>3, <2>1, <2>3
    <2> QED
      BY <1>8, <2>2, <2>3 DEF JoinGroup
  <1>9. CASE CreateChat(c)
    <2>1. call[c].pc = "creating"
      BY <1>9 DEF CreateChat
    <2>2. CASE /\ Sendable /\ Stay
               /\ call' = [call EXCEPT ![c].pc = "opening", ![c].arg = store.msg]
      <3>1. Becomes(c, "opening", p, store.msg)
        <4>1. call \in [Calls -> CallRecords] /\ call[c] \in CallRecords
          BY DEF IInv, TypeOK
        <4> DEFINE r == [call[c] EXCEPT !.pc = "opening", !.arg = store.msg]
        <4>2. call' = [call EXCEPT ![c] = r]
          BY <2>2, <4>1
        <4>3. r.pc = "opening" /\ r.pane = p /\ r.arg = store.msg
          BY <4>1 DEF CallRecords
        <4> HIDE DEF r
        <4> QED
          BY <4>1, <4>2, <4>3 DEF Becomes
      <3>2. store.msg # None /\ store.msg \in Posts \union {None}
        BY <2>2 DEF Sendable, IInv, TypeOK, StoreRecords
      <3> QED
        BY <1>0, <2>1, <2>2, <3>1, <3>2, StayQuietly, GoesOn DEF Unsure
    <2>5. CASE /\ p = None /\ store.msg \notin known
               /\ store' = Forgotten(store.msg) /\ Ends(c) /\ UNCHANGED pane
      <3>1. store'.msg = None
        BY <2>5 DEF Forgotten, IInv, TypeOK, StoreRecords
      <3> QED
        BY <1>0, <2>1, <2>5, <3>1 DEF Drops
    <2>3. CASE NothingSent(p) /\ Ends(c)
      BY <1>0, <1>2, <2>1, <2>3, StayQuietly, EnterQuietly DEF NothingSent
    <2>4. CASE (IF p = None THEN Stay ELSE Enter(p, "COMPOSING")) /\ Ends(c)
      BY <1>0, <1>2, <2>1, <2>4, StayQuietly, EnterQuietly
    <2> QED
      BY <1>9, <2>2, <2>3, <2>4, <2>5 DEF CreateChat
  <1> QED
    BY <1>5, <1>6, <1>7, <1>8, <1>9

LEMMA FinishEffect ==
    ASSUME IInv, NEW c \in Calls, Finish(c)
    PROVE  /\ Ends(c) /\ store'.msg = None /\ Others({call[c].pane})
           /\ call[c].pane # None => Same(call[c].pane) /\ pane'[call[c].pane].state \in Sent
  <1> DEFINE p == call[c].pane
             st == Forgotten(call[c].arg)
             s == IF pane[p].isNew THEN "SHOWING_WELCOME" ELSE "COMPLETED"
  <1>1. st \in StoreRecords /\ st.msg = None
    BY DEF Forgotten, IInv, TypeOK, StoreRecords
  <1>2. Ends(c)
    BY DEF Finish
  <1>3. CASE p = None /\ store' = st /\ pane' = pane
    BY <1>1, <1>2, <1>3 DEF Others
  <1>4. CASE p # None /\ pane' = Moved(p, s) /\ store' = Saved(st, s, pane[p].isNew)
    <2>1. p \in Panes /\ s \in States /\ s \in Sent /\ pane \in [Panes -> PaneRecords]
      BY <1>4, StateNames DEF IInv, TypeOK, CallRecords, Sent
    <2> HIDE DEF p, s, st
    <2>2. pane'[p].state = s
      <3>1. pane[p] \in PaneRecords /\ Moved(p, s)[p] = [pane[p] EXCEPT !.state = s, !.erred = @ \/ s = "ERROR"]
        BY <2>1 DEF Moved
      <3> QED
        BY <1>4, <3>1 DEF PaneRecords
    <2>3. Others({p}) /\ Same(p)
      BY <1>4, <2>1, MovedTyped DEF IInv, Others, Same
    <2>4. store'.msg = None
      BY <1>1, <1>4, <2>1, SavedTyped DEF PaneRecords
    <2> QED
      BY <1>2, <2>1, <2>2, <2>3, <2>4 DEF p
  <1> QED
    BY <1>3, <1>4 DEF Finish

LEMMA SendEffect ==
    ASSUME IInv, NEW c \in Calls, OpenChat(c) \/ Answer(c)
    PROVE  Delivers(c) \/ Finishes(c) \/ Resends(c) \/ GivesUp(c)
  <1>1. clicks' = clicks /\ overtaken' = overtaken /\ Running(c)
    BY DEF OpenChat, Answer, Running
  <1>2. CASE OpenChat(c)
    <2>1. call[c].pc = "opening" /\ excused' = excused
      BY <1>2 DEF OpenChat
    <2>2. CASE /\ ChatWith(c) \notin Banned
               /\ rows' = [rows EXCEPT ![call[c].arg] = Append(@, ChatWith(c))]
               /\ Step(c, "answered") /\ Stay
      BY <1>1, <2>1, <2>2, StepBecomes DEF Delivers, ChatWith, Stay
    <2>3. CASE ChatWith(c) \in Banned /\ Finish(c) /\ rows' = rows
      BY <1>1, <2>1, <2>3, FinishEffect DEF Finishes, ChatWith, Unsent
    <2>4. CASE Fails(c, "ERROR") /\ rows' = rows
      BY <1>1, <2>1, <2>4, FailsEffect DEF GivesUp
    <2> QED
      BY <1>2, <2>2, <2>3, <2>4 DEF OpenChat
  <1>3. CASE Answer(c)
    <2>1. call[c].pc = "answered" /\ rows' = rows
      BY <1>3 DEF Answer
    <2>2. CASE Finish(c) /\ excused' = excused
      BY <1>1, <2>1, <2>2, FinishEffect DEF Finishes, Unsent
    <2>3. CASE /\ Step(c, "opening") /\ Stay
               /\ excused' = [excused EXCEPT ![call[c].arg] = @ + 1]
      BY <1>1, <2>1, <2>3, StepBecomes DEF Resends, Stay
    <2>4. CASE /\ Fails(c, "ERROR")
               /\ excused' = [excused EXCEPT ![call[c].arg] = @ + 1]
      BY <1>1, <2>1, <2>4, FailsEffect DEF GivesUp
    <2> QED
      BY <1>3, <2>2, <2>3, <2>4 DEF Answer
  <1> QED
    BY <1>2, <1>3

LEMMA WakeEffect ==
    ASSUME IInv, NEW c \in Calls, WakePane(c)
    PROVE  Idles \/ \E p \in Panes : Wakes(p, c)
  <1>0. me \in BOOLEAN /\ store \in StoreRecords
    BY DEF IInv, TypeOK
  <1>1. CASE Stay /\ UNCHANGED <<call, excused>>
    BY <1>1 DEF WakePane, Stay, Idles, Unsent
  <1>2. ASSUME NEW p \in Waiting, JoinsAs(c, p, me, pane, store),
               excused' = [m \in Posts |-> IF Uses(p) # {} /\ m \in {pane[p].post, store.msg}
                                           THEN excused[m] + 1 ELSE excused[m]]
        PROVE  Wakes(p, c)
    <2>1. p \in Panes /\ ~Running(c) /\ UNCHANGED <<rows, clicks, overtaken>>
      BY <1>2 DEF Waiting, OpenPanes, WakePane
    <2>2. /\ Others({p}) /\ Same(p) /\ store'.msg = store.msg /\ store'.machine = "other"
          /\ me => pane'[p].state = "JOINING_GROUP" /\ Becomes(c, "joining", p, None)
          /\ ~me => pane'[p].state = "AUTHENTICATING" /\ Ends(c)
      BY <1>0, <1>2, <2>1, JoinsAsEffect
    <2>3. Ends(c) => call' = call
      BY <2>1 DEF Ends, Running, IInv, TypeOK, CallsInOrder
    <2> QED
      BY <1>0, <1>2, <2>1, <2>2, <2>3 DEF Wakes
  <1> QED
    BY <1>1, <1>2 DEF WakePane, Waiting, OpenPanes

LEMMA WorldEffect ==
    ASSUME IInv, World
    PROVE  Idles \/ \E c \in Calls : Remounts(c) \/ Reloads(c)
  <1>1. ASSUME NEW how, Login(how)
        PROVE  Idles
    BY <1>1 DEF Login, Idles, Unsent
  <1>2. CASE SessionEnds
    BY <1>2 DEF SessionEnds, Idles, Unsent
  <1>3. CASE Age
    BY <1>3 DEF Age, Idles, Unsent, IInv, TypeOK, StoreRecords
  <1>4. ASSUME NEW c \in Calls, Remount(c)
        PROVE  Remounts(c)
    <2>1. /\ OpenPanes \in SUBSET Panes /\ pane' = Unmounted(OpenPanes) /\ store' = Flushed(OpenPanes)
          /\ ~Running(c) /\ UNCHANGED <<rows, clicks, overtaken>> /\ Mounts(c, me, call, known, store)
      BY <1>4 DEF Remount, OpenPanes
    <2>2. Shut(OpenPanes) /\ SameStore
      BY <2>1, UnmountedShut, FlushedSame
    <2>3. call \in [Calls -> CallRecords] /\ excused \in [Posts -> Nat]
      BY DEF IInv, TypeOK
    <2>4. CASE Sendable
      <3>1. store.msg # None
        BY <2>4 DEF Sendable
      <3>2. Becomes(c, "creating", None, store.msg)
        BY <2>1, <2>3, <2>4 DEF Mounts, Sendable, Becomes
      <3>3. LET again == \E d \in Calls : Past(d)
            IN  excused' = [m \in Posts |-> IF m = store.msg /\ again THEN excused[m] + 1 ELSE excused[m]]
        BY <1>4, <2>4 DEF Remount
      <3> QED
        BY <2>1, <2>2, <3>1, <3>2, <3>3 DEF Remounts
    <2>5. CASE ~Sendable
      <3>1. call' = call
        BY <2>1, <2>5 DEF Mounts, Sendable
      <3>2. excused' = excused
        BY <1>4, <2>3, <2>5 DEF Remount
      <3> QED
        BY <2>1, <2>2, <3>1, <3>2 DEF Remounts
    <2> QED
      BY <2>4, <2>5
  <1>5. ASSUME NEW c \in Calls, NEW user \in BOOLEAN, Reload(c, user)
        PROVE  Reloads(c)
    <2> DEFINE none == [d \in Calls |-> NoCall]
    <2>1. /\ pane' = [p \in Panes |-> NewPane(None)] /\ UNCHANGED <<store, rows, clicks, overtaken>>
          /\ Mounts(c, user, none, {}, store)
          /\ excused' = [m \in Posts |-> excused[m] + Cardinality(Unheard(m))]
      BY <1>5 DEF Reload, Unheard
    <2>2. \A q \in Panes : ~pane'[q].open /\ pane'[q].state = "IDLE"
      BY <2>1 DEF NewPane
    <2>3. CASE call' = none
      BY <2>1, <2>2, <2>3 DEF Reloads
    <2>4. CASE /\ store.msg # None
               /\ call' = [none EXCEPT ![c] = [pc |-> "creating", pane |-> None, arg |-> store.msg]]
      BY <2>1, <2>2, <2>4 DEF Reloads
    <2> QED
      BY <2>1, <2>3, <2>4 DEF Mounts
  <1> QED
    BY <1>1, <1>2, <1>3, <1>4, <1>5 DEF World

LEMMA Effects ==
    ASSUME IInv, [Next]_vars
    PROVE  \/ Idles
           \/ \E p \in Panes : \/ Edits(p) \/ Welcomed(p) \/ Closes({p})
                               \/ \E m \in Posts : Opens(p, m)
                               \/ \E c \in Calls : Submits(p, c) \/ Wakes(p, c)
           \/ \E c \in Calls : \/ Commits(c) \/ Goes(c) \/ GivesUp(c) \/ Drops(c)
                               \/ Delivers(c) \/ Finishes(c) \/ Resends(c)
                               \/ Remounts(c) \/ Reloads(c)
  <1>1. ASSUME NEW p \in Panes, User(p) \/ Timers(p)
        PROVE  \/ Edits(p) \/ Welcomed(p) \/ Closes({p})
               \/ \E m \in Posts : Opens(p, m)
               \/ \E c \in Calls : Submits(p, c)
    BY <1>1, UserEffect
  <1>2. ASSUME NEW c \in Calls, Continue(c)
        PROVE  \/ Commits(c) \/ Goes(c) \/ GivesUp(c) \/ Drops(c)
               \/ Delivers(c) \/ Finishes(c) \/ Resends(c)
               \/ Idles \/ \E p \in Panes : Wakes(p, c)
    BY <1>2, ValidatedEffect, CallEffect, SendEffect, WakeEffect DEF Continue
  <1>3. CASE World
    BY <1>3, WorldEffect
  <1>4. CASE UNCHANGED vars
    BY <1>4 DEF vars, Idles, Unsent
  <1> QED
    BY <1>1, <1>2, <1>3, <1>4 DEF Next

-------------------------------------------------------------------------------
(* What is sent goes to the right poster *)

\* A running call has a composer of Panes or none, and the composer is in use.
LEMMA CallUses ==
    ASSUME IInv, NEW c \in Calls, Running(c)
    PROVE  call[c].pane = None \/ (call[c].pane \in Panes /\ Uses(call[c].pane) # {})
  BY DEF IInv, TypeOK, CallRecords, Uses

LEMMA AboutKept ==
    ASSUME IInv, NEW c \in Calls, Running(c), call'[c] = call[c],
           \A q \in Panes : Uses(q) # {} => pane'[q].post = pane[q].post
    PROVE  Running(c)' /\ About(c)' = About(c)
  BY CallUses DEF Running, About

\* A call that is left alone stays as it is about, and as settled.
LEMMA CallKept ==
    ASSUME IInv, \A q \in Panes : Uses(q) # {} => pane'[q].post = pane[q].post
    PROVE  \A d \in Calls : call'[d] = call[d] =>
              /\ Past(d)' = Past(d) /\ Settled(d)' = Settled(d) /\ Running(d)' = Running(d)
              /\ Running(d) => About(d)' = About(d)
              /\ Past(d) \/ Settled(d) => Running(d)
  <1> TAKE d \in Calls
  <1> HAVE call'[d] = call[d]
  <1>1. Running(d) => About(d)' = About(d)
    BY AboutKept
  <1> QED
    BY <1>1 DEF Past, Settled, Running

\* A step of one call moves no composer to another post, and no other call.
LEMMA CallFrame ==
    ASSUME IInv, NEW c \in Calls,
           \/ Commits(c) \/ Goes(c) \/ GivesUp(c) \/ Drops(c)
           \/ Delivers(c) \/ Finishes(c) \/ Resends(c)
    PROVE  /\ Running(c) /\ (call'[c].pc # "idle" => call'[c].pane = call[c].pane)
           /\ \A q \in Panes : pane'[q].post = pane[q].post /\ pane'[q].open = pane[q].open
           /\ \A q \in Panes \ {call[c].pane} : pane'[q] = pane[q]
           /\ \A d \in Calls \ {c} : call'[d] = call[d]
  <1>1. Running(c)
    BY DEF Commits, Goes, GivesUp, Drops, Delivers, Finishes, Resends, Running, Unsure
  <1>2. \A q \in Panes \ {call[c].pane} : pane'[q] = pane[q]
    BY DEF Commits, Goes, GivesUp, Drops, Delivers, Finishes, Resends, Quietly, Others
  <1>3. \A q \in Panes : pane'[q].post = pane[q].post /\ pane'[q].open = pane[q].open
    <2>1. call[c].pane \in Panes => Same(call[c].pane)
      BY ReplyAssumption DEF Commits, Goes, GivesUp, Drops, Delivers, Finishes, Resends, Quietly, Same
    <2> QED
      BY <1>2, <2>1 DEF Same
  <1>4. \A d \in Calls \ {c} : call'[d] = call[d]
    BY DEF Commits, Goes, GivesUp, Drops, Delivers, Finishes, Resends, Becomes, Ends, IInv, TypeOK
  <1>5. call'[c].pc # "idle" => call'[c].pane = call[c].pane
    <2>1. CASE GivesUp(c) \/ Finishes(c) \/ Drops(c)
      BY <2>1 DEF GivesUp, Finishes, Drops, Ends, NoCall, IInv, TypeOK
    <2>2. CASE Commits(c) \/ Goes(c) \/ Delivers(c) \/ Resends(c)
      BY <2>2 DEF Commits, Goes, Delivers, Resends, Becomes
    <2> QED
      BY <2>1, <2>2
  <1> QED
    BY <1>1, <1>2, <1>3, <1>4, <1>5

\* A commit has taken note of everything that its reply does not fit.
LEMMA FitsCommit ==
    ASSUME IInv, NEW c \in Calls, Commits(c)
    PROVE  /\ \A d \in Calls : Settled(d) => Fits(About(d))'
           /\ \A q \in Waiting \union Welcoming : Fits(pane[q].post)'
           /\ Fits(About(c))' /\ overtaken \subseteq overtaken'
  <1>1. PICK m : m = pane[call[c].pane].post
    OBVIOUS
  <1>2. /\ store'.msg = m /\ Overtakes(m) /\ call[c].pane \in Panes
        /\ \A q \in Panes : pane'[q].post = pane[q].post
    BY <1>1, CallFrame, PaneOfCall DEF Commits
  <1>3. About(c)' = m
    <2>1. call'[c].pane = call[c].pane
      BY DEF Commits, Becomes
    <2> QED
      BY <1>1, <1>2, <2>1, ReplyAssumption DEF About
  <1> DEFINE behind == {About(d) : d \in {d \in Calls : Settled(d)}}
                          \union {pane[q].post : q \in Waiting \union Welcoming}
  <1>4. overtaken' = overtaken \union ((behind \ {m}) \X {m})
    BY <1>2 DEF Overtakes
  <1>5. ASSUME NEW n \in behind
        PROVE  n = m \/ <<n, m>> \in overtaken'
    <2> HIDE DEF behind
    <2> QED
      BY <1>4, <1>5
  <1>6. ASSUME NEW d \in Calls, Settled(d)
        PROVE  Fits(About(d))'
    <2>1. About(d)' = About(d)
      <3>1. CASE d = c
        BY <1>1, <1>2, <1>3, <3>1, ReplyAssumption DEF About
      <3>2. CASE d # c
        BY <1>2, <1>6, <3>2, CallFrame, CallKept
      <3> QED
        BY <3>1, <3>2
    <2>2. About(d) \in behind
      BY <1>6
    <2> HIDE DEF behind
    <2>3. About(d) = m \/ <<About(d), m>> \in overtaken'
      BY <1>5, <2>2
    <2> QED
      BY <1>2, <2>1, <2>3 DEF Fits
  <1>7. ASSUME NEW q \in Waiting \union Welcoming
        PROVE  Fits(pane[q].post)'
    <2>1. pane[q].post \in behind /\ pane'[q].post = pane[q].post
      BY <1>2 DEF Waiting, Welcoming, OpenPanes
    <2> HIDE DEF behind
    <2>2. pane[q].post = m \/ <<pane[q].post, m>> \in overtaken'
      BY <1>5, <2>1
    <2> QED
      BY <1>2, <2>1, <2>2 DEF Fits
  <1> HIDE DEF behind
  <1>8. Fits(About(c))' /\ overtaken \subseteq overtaken'
    BY <1>2, <1>3, <1>4 DEF Fits
  <1> QED
    BY <1>6, <1>7, <1>8

\* A step that commits nothing keeps these invariants when it does for what it touches.
LEMMA SendKeeps ==
    ASSUME IInv, SendInv, overtaken' = overtaken, store'.msg \in {store.msg, None},
           NEW C \in SUBSET Calls, \A d \in Calls \ C : call'[d] = call[d],
           \A q \in Panes : Uses(q) # {} => pane'[q].post = pane[q].post, OneOpen',
           \A d \in C : Settled(d)' => Fits(About(d))',
           \A d \in C : call'[d].pc \in {"opening", "answered"} =>
              call'[d].arg = About(d)' \/ <<About(d)', call'[d].arg>> \in overtaken,
           \A q \in Panes : q \in Waiting' \union Welcoming' =>
              \/ q \in Waiting \union Welcoming /\ pane'[q].post = pane[q].post
              \/ Fits(pane[q].post)'
    PROVE  SendInv'
  <1>1. OwnReply'
    <2> SUFFICES ASSUME NEW d \in Calls, Settled(d)', d \notin C
                 PROVE  Fits(About(d))'
      BY DEF OwnReply
    <2>1. Settled(d) /\ About(d)' = About(d)
      BY CallKept
    <2>2. Fits(About(d))
      BY <2>1 DEF SendInv, OwnReply
    <2> QED
      BY <2>1, <2>2 DEF Fits
  <1>2. OwnArg'
    <2> SUFFICES ASSUME NEW d \in Calls, d \notin C, call'[d].pc \in {"opening", "answered"}
                 PROVE  call'[d].arg = About(d)' \/ <<About(d)', call'[d].arg>> \in overtaken
      BY DEF OwnArg
    <2>1. call'[d] = call[d] /\ About(d)' = About(d)
      BY CallKept DEF Running
    <2> QED
      BY <2>1 DEF SendInv, OwnArg
  <1>3. WaitsFit'
    <2> SUFFICES ASSUME NEW q \in Panes, q \in Waiting' \union Welcoming',
                        q \in Waiting \union Welcoming, pane'[q].post = pane[q].post
                 PROVE  Fits(pane[q].post)'
      BY DEF WaitsFit, Waiting, Welcoming, OpenPanes
    <2>1. Fits(pane[q].post)
      BY DEF SendInv, WaitsFit
    <2> QED
      BY <2>1 DEF Fits
  <1> QED
    BY <1>1, <1>2, <1>3 DEF SendInv

\* Steps of the composers that leave the calls alone.
LEMMA ComposerSends ==
    ASSUME IInv, SendInv, call' = call, overtaken' = overtaken, store'.msg \in {store.msg, None},
           OneOpen', \A q \in Panes : Uses(q) # {} => pane'[q].post = pane[q].post,
           \A q \in Panes : q \in Waiting' \union Welcoming' =>
              \/ q \in Waiting \union Welcoming /\ pane'[q].post = pane[q].post
              \/ Fits(pane[q].post)'
    PROVE  SendInv'
  BY SendKeeps, {} \in SUBSET Calls

LEMMA CommitSends ==
    ASSUME IInv, SendInv, NEW c \in Calls, Commits(c)
    PROVE  SendInv'
  <1>1. /\ \A q \in Panes : pane'[q].post = pane[q].post /\ pane'[q].open = pane[q].open
        /\ \A q \in Panes \ {call[c].pane} : pane'[q] = pane[q]
        /\ \A d \in Calls \ {c} : call'[d] = call[d]
    BY CallFrame
  <1>2. OneOpen'
    BY <1>1 DEF SendInv, OneOpen, OpenPanes
  <1>3. OwnReply'
    <2> SUFFICES ASSUME NEW d \in Calls, Settled(d)', d # c
                 PROVE  Fits(About(d))'
      BY FitsCommit DEF OwnReply
    <2>1. Settled(d)
      BY <1>1, CallKept
    <2> QED
      BY <2>1, FitsCommit
  <1>4. OwnArg'
    <2> SUFFICES ASSUME NEW d \in Calls, call'[d].pc \in {"opening", "answered"}
                 PROVE  call'[d].arg = About(d)' \/ <<About(d)', call'[d].arg>> \in overtaken'
      BY DEF OwnArg
    <2>1. d # c
      BY DEF Commits, Becomes
    <2>2. call'[d] = call[d] /\ About(d)' = About(d)
      BY <1>1, <2>1, CallKept DEF Running
    <2> QED
      BY <2>2, FitsCommit DEF SendInv, OwnArg
  <1>5. WaitsFit'
    <2> SUFFICES ASSUME NEW q \in Panes, q \in Waiting' \union Welcoming'
                 PROVE  Fits(pane[q].post)'
      BY DEF WaitsFit, Waiting, Welcoming, OpenPanes
    <2>1. q \in Waiting \union Welcoming
      BY <1>1 DEF Commits, Waiting, Welcoming, OpenPanes, Others
    <2> QED
      BY <2>1, FitsCommit
  <1> QED
    BY <1>2, <1>3, <1>4, <1>5 DEF SendInv

\* The other steps of one call.
LEMMA CallSends ==
    ASSUME IInv, SendInv, NEW c \in Calls,
           Goes(c) \/ GivesUp(c) \/ Drops(c) \/ Delivers(c) \/ Finishes(c) \/ Resends(c)
    PROVE  SendInv'
  <1>1. /\ Running(c) /\ (call'[c].pc # "idle" => call'[c].pane = call[c].pane)
        /\ \A q \in Panes : pane'[q].post = pane[q].post /\ pane'[q].open = pane[q].open
        /\ \A q \in Panes \ {call[c].pane} : pane'[q] = pane[q]
        /\ \A d \in Calls \ {c} : call'[d] = call[d]
    BY CallFrame
  <1>2. OneOpen'
    BY <1>1 DEF SendInv, OneOpen, OpenPanes
  <1>3. overtaken' = overtaken /\ store'.msg \in {store.msg, None}
    BY DEF Goes, GivesUp, Drops, Delivers, Finishes, Resends, Quietly, Unsent
  <1>4. PICK p : p = call[c].pane
    OBVIOUS
  <1>5. ASSUME Past(c), p # None
        PROVE  p \in Panes /\ Fits(pane[p].post) /\ Fits(pane[p].post)'
    <2>1. p \in Panes /\ About(c) = pane[p].post
      BY <1>1, <1>4, <1>5, CallUses DEF About
    <2>2. Fits(pane[p].post)
      BY <1>4, <1>5, <2>1 DEF SendInv, OwnReply, Settled
    <2>3. pane'[p].post = pane[p].post
      BY <1>1, <2>1
    <2> QED
      BY <1>3, <2>1, <2>2, <2>3 DEF Fits
  <1>6. CASE Goes(c)
    <2>1. PICK s \in Unsure, a \in Posts \union {None} :
             /\ Becomes(c, s, p, a)
             /\ p = None => s = "opening"
             /\ s = "opening" => a = store.msg /\ a # None
      BY <1>4, <1>6 DEF Goes
    <2>2. call'[c].pc = s /\ call'[c].pane = p /\ call'[c].arg = a
      BY <2>1 DEF Becomes
    <2>3. Past(c) /\ store'.msg = store.msg
      BY <1>6 DEF Goes, Unsure, Past, Quietly
    <2>4. About(c)' = IF p = None THEN store.msg ELSE pane'[p].post
      BY <2>1, <2>2 DEF About
    <2>5. Fits(About(c))'
      BY <1>5, <2>3, <2>4 DEF Fits
    <2>6. s # "answered"
      BY DEF Unsure
    <2>7. s = "opening" => a = About(c)' \/ <<About(c)', a>> \in overtaken
      <3>1. CASE p = None
        BY <2>1, <2>4, <3>1
      <3>2. CASE p # None
        BY <1>1, <1>5, <2>1, <2>3, <2>4, <3>2 DEF Fits
      <3> QED
        BY <3>1, <3>2
    <2>8. ASSUME NEW q \in Panes, q \in Waiting' \union Welcoming'
          PROVE  q \in Waiting \union Welcoming \/ Fits(pane[q].post)'
      BY <1>1, <1>4, <1>5, <1>6, <2>3, <2>8 DEF Goes, Quietly, Waiting, Welcoming, OpenPanes
    <2> QED
      BY <1>1, <1>2, <1>3, <2>2, <2>5, <2>6, <2>7, <2>8, SendKeeps, {c} \in SUBSET Calls
  <1>7. CASE Delivers(c) \/ Resends(c)
    <2>1. Past(c) /\ pane' = pane /\ store' = store
      BY <1>7 DEF Delivers, Resends, Past
    <2>2. call'[c].pane = p /\ call'[c].arg = call[c].arg
      BY <1>4, <1>7 DEF Delivers, Resends, Becomes
    <2>3. About(c)' = About(c) /\ Settled(c) /\ call[c].pc \in {"opening", "answered"}
      BY <1>4, <1>7, <2>1, <2>2 DEF About, Settled, Delivers, Resends
    <2>4. Fits(About(c))'
      BY <1>3, <2>1, <2>3 DEF Fits, SendInv, OwnReply
    <2>5. call'[c].arg = About(c)' \/ <<About(c)', call'[c].arg>> \in overtaken
      BY <2>2, <2>3 DEF SendInv, OwnArg
    <2>6. Waiting' = Waiting /\ Welcoming' = Welcoming
      BY <2>1 DEF Waiting, Welcoming, OpenPanes
    <2> QED
      BY <1>1, <1>2, <1>3, <2>4, <2>5, <2>6, SendKeeps, {c} \in SUBSET Calls
  <1>8. CASE GivesUp(c) \/ Drops(c) \/ Finishes(c)
    <2>1. call'[c] = NoCall
      BY <1>8 DEF GivesUp, Drops, Finishes, Ends, IInv, TypeOK
    <2>2. ~Settled(c)' /\ call'[c].pc \notin {"opening", "answered"}
      BY <2>1 DEF Settled, Past, NoCall
    <2>3. ASSUME NEW q \in Panes, q \in Waiting' \union Welcoming'
          PROVE  q \in Waiting \union Welcoming \/ Fits(pane[q].post)'
      <3>1. CASE Drops(c) \/ Finishes(c)
        BY <3>1 DEF Drops, Finishes, Fits
      <3>2. CASE GivesUp(c)
        <4>1. CASE pane' = pane
          BY <2>3, <4>1 DEF Waiting, Welcoming, OpenPanes
        <4>2. CASE q # p
          BY <1>1, <1>4, <2>3, <4>2 DEF Waiting, Welcoming, OpenPanes
        <4>3. CASE pane' # pane /\ q = p
          <5>1. pane'[p].state \in Processing \union {"COMPOSING", "ERROR"} /\ p # None
            BY <1>4, <3>2, <4>3 DEF GivesUp, Quietly
          <5>2. pane'[p].state = "AUTHENTICATING"
            BY <2>3, <4>3, <5>1 DEF Waiting, Welcoming, OpenPanes, Processing
          <5>3. Past(c)
            BY <1>4, <3>2, <5>2 DEF GivesUp, Past, Running
          <5> QED
            BY <1>5, <4>3, <5>1, <5>3
        <4> QED
          BY <4>1, <4>2, <4>3
      <3> QED
        BY <1>8, <3>1, <3>2
    <2> QED
      BY <1>1, <1>2, <1>3, <2>2, <2>3, SendKeeps, {c} \in SUBSET Calls
  <1> QED
    BY <1>6, <1>7, <1>8

LEMMA SendStep ==
    ASSUME IInv, SendInv, [Next]_vars
    PROVE  SendInv'
  <1>1. CASE Idles
    BY <1>1, ComposerSends DEF Idles, SendInv, OneOpen, OpenPanes, Waiting, Welcoming, Unsent
  <1>2. ASSUME NEW p \in Panes, Edits(p) \/ Welcomed(p)
        PROVE  SendInv'
    <2>1. /\ \A q \in Panes : pane'[q].post = pane[q].post /\ pane'[q].open = pane[q].open
          /\ call' = call /\ overtaken' = overtaken /\ store'.msg \in {store.msg, None}
      BY <1>2 DEF Edits, Welcomed, Others, Same, Unsent
    <2>2. \A q \in Panes : q \in Waiting' \union Welcoming' => q \in Waiting \union Welcoming
      BY <1>2 DEF Edits, Welcomed, Others, Same, Waiting, Welcoming, OpenPanes
    <2>3. OneOpen'
      BY <2>1 DEF SendInv, OneOpen, OpenPanes
    <2> QED
      BY <2>1, <2>2, <2>3, ComposerSends
  <1>4. ASSUME NEW p \in Panes, Closes({p})
        PROVE  SendInv'
    <2>1. \A q \in Panes : pane'[q].open => pane'[q] = pane[q] /\ q # p
      BY <1>4 DEF Closes, Shut, Others
    <2>2. \A q \in Panes : Uses(q) # {} => pane'[q].post = pane[q].post
      BY <1>4 DEF Closes, Shut, Others
    <2>3. OneOpen'
      BY <2>1 DEF SendInv, OneOpen, OpenPanes
    <2>4. \A q \in Panes : q \in Waiting' \union Welcoming' =>
             q \in Waiting \union Welcoming /\ pane'[q].post = pane[q].post
      BY <2>1 DEF Waiting, Welcoming, OpenPanes
    <2> QED
      BY <1>4, <2>2, <2>3, <2>4, ComposerSends DEF Closes, SameStore, Unsent
  <1>5. ASSUME NEW p \in Panes, NEW m \in Posts, Opens(p, m)
        PROVE  SendInv'
    <2>1. \A q \in Panes : pane'[q].open => q = p
      BY <1>5 DEF Opens, Others, OpenPanes
    <2>2. \A q \in Panes : Uses(q) # {} => pane'[q].post = pane[q].post
      BY <1>5 DEF Opens, Others
    <2>3. store'.msg \in {store.msg, None} /\ call' = call /\ overtaken' = overtaken
      BY <1>5 DEF Opens, SameStore, Unsent
    <2>4. OneOpen'
      BY <2>1 DEF OneOpen, OpenPanes
    <2>5. \A q \in Panes : q \in Waiting' \union Welcoming' => Fits(pane[q].post)'
      BY <1>5, <2>1 DEF Opens, Waiting, Welcoming, OpenPanes, Fits
    <2> QED
      BY <2>2, <2>3, <2>4, <2>5, ComposerSends
  <1>6. ASSUME NEW p \in Panes, NEW c \in Calls, Submits(p, c)
        PROVE  SendInv'
    <2>1. /\ \A q \in Panes : pane'[q].post = pane[q].post /\ pane'[q].open = pane[q].open
          /\ store' = store /\ overtaken' = overtaken
          /\ \A d \in Calls \ {c} : call'[d] = call[d]
      BY <1>6 DEF Submits, Others, Same, Becomes, Unsent
    <2>2. OneOpen'
      BY <2>1 DEF SendInv, OneOpen, OpenPanes
    <2>3. ~Settled(c)' /\ call'[c].pc \notin {"opening", "answered"}
      BY <1>6 DEF Submits, Becomes, Settled, Past
    <2>4. \A q \in Panes : q \in Waiting' \union Welcoming' => q \in Waiting \union Welcoming
      BY <1>6, <2>1 DEF Submits, Others, Waiting, Welcoming, OpenPanes
    <2> QED
      BY <2>1, <2>2, <2>3, <2>4, SendKeeps, {c} \in SUBSET Calls
  <1>7. ASSUME NEW p \in Panes, NEW c \in Calls, Wakes(p, c)
        PROVE  SendInv'
    <2>1. /\ \A q \in Panes : pane'[q].post = pane[q].post /\ pane'[q].open = pane[q].open
          /\ store'.msg = store.msg /\ overtaken' = overtaken
      BY <1>7 DEF Wakes, Others, Same
    <2>2. OneOpen'
      BY <2>1 DEF SendInv, OneOpen, OpenPanes
    <2>3. Fits(pane[p].post) /\ Fits(pane[p].post)'
      <3>1. Fits(pane[p].post)
        BY <1>7 DEF Wakes, SendInv, WaitsFit
      <3> QED
        BY <2>1, <3>1 DEF Fits
    <2>4. \A q \in Panes : q \in Waiting' \union Welcoming' => q \in Waiting \union Welcoming
      BY <1>7, <2>1 DEF Wakes, Others, Waiting, Welcoming, OpenPanes
    <2>5. CASE call' = call
      BY <2>1, <2>2, <2>4, <2>5, ComposerSends
    <2>6. CASE Becomes(c, "joining", p, None)
      <3>1. /\ \A d \in Calls \ {c} : call'[d] = call[d]
            /\ call'[c].pc \notin {"opening", "answered"}
        BY <2>6 DEF Becomes
      <3>2. About(c)' = pane[p].post
        BY <2>1, <2>6, ReplyAssumption DEF Becomes, About
      <3>3. Fits(About(c))'
        BY <2>1, <2>3, <3>2 DEF Fits
      <3> QED
        BY <2>1, <2>2, <2>4, <3>1, <3>3, SendKeeps, {c} \in SUBSET Calls
    <2> QED
      BY <1>7, <2>5, <2>6 DEF Wakes
  <1>8. ASSUME NEW c \in Calls, Commits(c)
        PROVE  SendInv'
    BY <1>8, CommitSends
  <1>9. ASSUME NEW c \in Calls,
               Goes(c) \/ GivesUp(c) \/ Drops(c) \/ Delivers(c) \/ Finishes(c) \/ Resends(c)
        PROVE  SendInv'
    BY <1>9, CallSends
  <1>13. ASSUME NEW c \in Calls, Remounts(c)
         PROVE  SendInv'
    <2>1. /\ \A q \in Panes : ~pane'[q].open
          /\ \A q \in Panes : Uses(q) # {} => pane'[q].post = pane[q].post
          /\ store'.msg = store.msg /\ overtaken' = overtaken
      BY <1>13 DEF Remounts, Shut, Others, OpenPanes, SameStore
    <2>2. OneOpen' /\ \A q \in Panes : q \notin Waiting' \union Welcoming'
      BY <2>1 DEF OneOpen, OpenPanes, Waiting, Welcoming
    <2>3. CASE call' = call
      BY <2>1, <2>2, <2>3, ComposerSends
    <2>4. CASE Becomes(c, "creating", None, store.msg)
      <3>1. /\ \A d \in Calls \ {c} : call'[d] = call[d]
            /\ ~Settled(c)' /\ call'[c].pc \notin {"opening", "answered"}
        BY <2>4 DEF Becomes, Settled
      <3> QED
        BY <2>1, <2>2, <3>1, SendKeeps, {c} \in SUBSET Calls
    <2> QED
      BY <1>13, <2>3, <2>4 DEF Remounts
  <1>14. ASSUME NEW c \in Calls, Reloads(c)
         PROVE  SendInv'
    <2>1. \A q \in Panes : ~pane'[q].open
      BY <1>14 DEF Reloads
    <2>2. \A d \in Calls : call'[d].pc = "idle" \/ (call'[d].pc = "creating" /\ call'[d].pane = None)
      BY <1>14 DEF Reloads, NoCall
    <2>3. OneOpen' /\ WaitsFit'
      BY <2>1 DEF OneOpen, WaitsFit, Waiting, Welcoming, OpenPanes
    <2>4. OwnArg' /\ OwnReply'
      BY <2>2 DEF OwnArg, OwnReply, Settled, Past
    <2> QED
      BY <2>3, <2>4 DEF SendInv
  <1> QED
    BY <1>1, <1>2, <1>4, <1>5, <1>6, <1>7, <1>8, <1>9, <1>13, <1>14, Effects

\* Only Delivers reaches the server, and it writes to the poster of its own composer's post.
LEMMA OnlyDelivers ==
    ASSUME IInv, [Next]_vars
    PROVE  rows' = rows \/ \E c \in Calls : Delivers(c)
  BY Effects DEF Idles, Edits, Welcomed, Closes, Opens, Submits, Wakes, Commits, Goes, GivesUp,
                 Drops, Finishes, Resends, Remounts, Reloads, Unsent

LEMMA Delivered ==
    ASSUME IInv, NEW c \in Calls, Delivers(c)
    PROVE  /\ call[c].arg \in Posts /\ About(c) \in Posts /\ overtaken' = overtaken
           /\ \A n \in Posts : rows[n] \in Seq(Posts)
           /\ \A n \in Posts \ {call[c].arg} : rows'[n] = rows[n]
           /\ rows'[call[c].arg] = Append(rows[call[c].arg], About(c))
  <1>1. /\ Running(c) /\ call[c].arg # None /\ call[c].arg \in Posts \union {None}
        /\ rows \in [Posts -> Seq(Posts)]
    BY DEF Delivers, Running, IInv, TypeOK, CallsInOrder, CallRecords
  <1>2. About(c) \in Posts
    BY <1>1, PaneOfCall DEF About
  <1> QED
    BY <1>1, <1>2 DEF Delivers

LEMMA PosterStep ==
    ASSUME IInv, SendInv, RightPoster, [Next]_vars
    PROVE  RightPoster'
  <1>0. overtaken \subseteq overtaken'
    BY Effects, FitsCommit DEF Idles, Edits, Welcomed, Closes, Opens, Submits, Wakes, Goes,
       GivesUp, Drops, Delivers, Finishes, Resends, Remounts, Reloads, Unsent
  <1>1. CASE rows' = rows
    BY <1>0, <1>1 DEF RightPoster
  <1>2. ASSUME NEW c \in Calls, Delivers(c)
        PROVE  RightPoster'
    <2> SUFFICES ASSUME NEW m \in Posts, NEW i \in DOMAIN rows'[m]
                 PROVE  rows'[m][i] = m \/ <<rows'[m][i], m>> \in overtaken'
      BY DEF RightPoster
    <2>1. CASE m = call[c].arg
      <3>1. PICK n : n = About(c)
        OBVIOUS
      <3>2. rows'[m] = Append(rows[m], n) /\ rows[m] \in Seq(Posts) /\ n \in Posts
        BY <1>2, <2>1, <3>1, Delivered
      <3>3. n = m \/ <<n, m>> \in overtaken
        BY <1>2, <2>1, <3>1 DEF SendInv, OwnArg, Delivers
      <3>4. i \in 1..Len(rows[m]) \/ i = Len(rows[m]) + 1
        BY <3>2
      <3>5. CASE i \in 1..Len(rows[m])
        <4>1. rows'[m][i] = rows[m][i] /\ i \in DOMAIN rows[m]
          BY <3>2, <3>5
        <4> QED
          BY <1>0, <4>1 DEF RightPoster
      <3>6. CASE i = Len(rows[m]) + 1
        <4>1. rows'[m][i] = n
          BY <3>2, <3>6
        <4> QED
          BY <1>0, <3>3, <4>1
      <3> QED
        BY <3>4, <3>5, <3>6
    <2>2. CASE m # call[c].arg
      <3>1. rows'[m] = rows[m]
        BY <1>2, <2>2, Delivered
      <3> QED
        BY <1>0, <3>1 DEF RightPoster
    <2> QED
      BY <2>1, <2>2
  <1> QED
    BY <1>1, <1>2, OnlyDelivers

LEMMA SendInit ==
    ASSUME Init
    PROVE  SendInv /\ RightPoster
  <1>1. /\ \A p \in Panes : ~pane[p].open
        /\ \A c \in Calls : ~Settled(c) /\ call[c].pc = "idle"
        /\ \A m \in Posts : rows[m] = <<>>
    BY DEF Init, NewPane, NoCall, Past, Settled
  <1>2. SendInv
    BY <1>1 DEF SendInv, OneOpen, OwnReply, OwnArg, WaitsFit, Waiting, Welcoming, OpenPanes
  <1>3. RightPoster
    BY <1>1 DEF RightPoster
  <1> QED
    BY <1>2, <1>3

LEMMA SendsKept == Spec => [](IInv /\ SendInv /\ RightPoster)
  <1>1. Init => SendInv /\ RightPoster
    BY SendInit
  <1>2. IInv /\ SendInv /\ RightPoster /\ [Next]_vars => SendInv' /\ RightPoster'
    BY SendStep, PosterStep
  <1> QED
    BY Inductive, <1>1, <1>2, PTL DEF Spec

\* However many calls, closed composers, logins, remounts and page loads there are, and
\* whatever fails: a reply is written to the poster of the post it answers, unless it was
\* committed while a reply to the post of that other poster was being sent.
THEOREM Posters == Spec => []RightPoster
  BY SendsKept, PTL

-------------------------------------------------------------------------------
(* A composer that says so has sent *)

\* What stands behind the word of a composer: the answer a call has had, and the welcome that
\* the store remembers for a reply it holds.
Told(m) == Reached(m) \/ Mixed(m)
Heard == \A c \in Calls : call[c].pc = "answered" => Told(About(c))
Remembered == store.machine \in Sent /\ store.msg # None => Told(store.msg)
AckInv == Heard /\ Remembered /\ AcknowledgedWasSent

\* No row is taken back, and no pair forgotten.
LEMMA ToldStays ==
    ASSUME IInv, [Next]_vars, NEW m \in Posts, Told(m)
    PROVE  Told(m)'
  <1>1. CASE Mixed(m)
    <2>1. overtaken \subseteq overtaken'
      BY Effects, FitsCommit DEF Idles, Edits, Welcomed, Closes, Opens, Submits, Wakes, Goes,
         GivesUp, Drops, Delivers, Finishes, Resends, Remounts, Reloads, Unsent
    <2> QED
      BY <1>1, <2>1 DEF Told, Mixed
  <1>2. CASE m \in Banned
    BY <1>2 DEF Told, Reached
  <1>3. ASSUME NEW i \in DOMAIN rows[m], rows[m][i] = m
        PROVE  Reached(m)'
    <2>1. CASE rows' = rows
      BY <1>3, <2>1 DEF Reached
    <2>2. ASSUME NEW c \in Calls, Delivers(c)
          PROVE  Reached(m)'
      <3>1. PICK n \in Posts : rows'[m] = rows[m] \/ rows'[m] = Append(rows[m], n)
        BY <2>2, Delivered
      <3>2. rows[m] \in Seq(Posts)
        BY DEF IInv, TypeOK
      <3>3. i \in DOMAIN rows'[m] /\ rows'[m][i] = m
        BY <1>3, <3>1, <3>2
      <3> QED
        BY <3>3 DEF Reached
    <2> QED
      BY <2>1, <2>2, OnlyDelivers
  <1> QED
    BY <1>1, <1>2, <1>3 DEF Told, Reached

LEMMA HeardStep ==
    ASSUME IInv, SendInv, Heard, [Next]_vars
    PROVE  Heard'
  <1> SUFFICES ASSUME NEW d \in Calls, call'[d].pc = "answered"
               PROVE  Told(About(d))'
    BY DEF Heard
  <1>1. CASE call'[d] = call[d] /\ About(d)' = About(d)
    <2>1. PICK m : m = About(d)
      OBVIOUS
    <2>2. Told(m) /\ m \in Posts
      <3>1. Running(d) /\ call[d].arg # None /\ call[d] \in CallRecords
        BY <1>1 DEF Running, IInv, TypeOK, CallsInOrder
      <3> QED
        BY <1>1, <2>1, <3>1, PaneOfCall DEF Heard, About, CallRecords
    <2>3. Told(m)'
      BY <2>2, ToldStays
    <2> QED
      BY <1>1, <2>1, <2>3 DEF Told, Reached, Mixed
  <1>2. CASE Delivers(d)
    <2>1. PICK m : m = About(d)
      OBVIOUS
    <2>2. PICK n : n = call[d].arg
      OBVIOUS
    <2>3. /\ m \in Posts /\ n \in Posts /\ overtaken' = overtaken /\ rows[n] \in Seq(Posts)
          /\ rows'[n] = Append(rows[n], m)
      BY <1>2, <2>1, <2>2, Delivered
    <2>4. About(d)' = m
      <3>1. /\ call'[d].pane = call[d].pane /\ call'[d].arg = call[d].arg /\ pane' = pane
        BY <1>2 DEF Delivers, Becomes
      <3> QED
        BY <2>1, <3>1 DEF About
    <2>5. CASE n = m
      <3>1. Len(rows[m]) + 1 \in DOMAIN rows'[m] /\ rows'[m][Len(rows[m]) + 1] = m
        BY <2>3, <2>5
      <3> QED
        BY <2>4, <3>1 DEF Told, Reached
    <2>6. CASE <<m, n>> \in overtaken
      BY <2>3, <2>4, <2>6 DEF Told, Mixed
    <2> QED
      BY <1>2, <2>1, <2>2, <2>5, <2>6 DEF Delivers, SendInv, OwnArg
  <1>3. (call'[d] = call[d] /\ About(d)' = About(d)) \/ Delivers(d)
    <2>1. ASSUME call'[d] = call[d], \A q \in Panes : Uses(q) # {} => pane'[q].post = pane[q].post
          PROVE  call'[d] = call[d] /\ About(d)' = About(d)
      BY <2>1, CallKept DEF Running
    <2>2. ASSUME NEW c \in Calls,
                 \/ Commits(c) \/ Goes(c) \/ GivesUp(c) \/ Drops(c)
                 \/ Delivers(c) \/ Finishes(c) \/ Resends(c)
          PROVE  (call'[d] = call[d] /\ About(d)' = About(d)) \/ Delivers(d)
      <3>1. CASE d # c
        BY <2>1, <2>2, <3>1, CallFrame
      <3>2. CASE d = c
        <4>1. GivesUp(c) \/ Drops(c) \/ Finishes(c) => call'[c] = NoCall
          BY DEF GivesUp, Drops, Finishes, Ends, IInv, TypeOK
        <4>2. Commits(c) \/ Goes(c) \/ Resends(c) => call'[c].pc # "answered"
          BY DEF Commits, Goes, Resends, Becomes, Unsure
        <4> QED
          BY <2>2, <3>2, <4>1, <4>2 DEF NoCall
      <3> QED
        BY <3>1, <3>2
    <2>3. ASSUME NEW p \in Panes, Edits(p) \/ Welcomed(p) \/ Closes({p}) \/ \E m \in Posts : Opens(p, m)
          PROVE  call'[d] = call[d] /\ About(d)' = About(d)
      <3>1. call' = call /\ \A q \in Panes : Uses(q) # {} => pane'[q].post = pane[q].post
        BY <2>3 DEF Edits, Welcomed, Closes, Opens, Shut, Others, Same
      <3> QED
        BY <2>1, <3>1
    <2>4. ASSUME NEW p \in Panes, NEW c \in Calls, Submits(p, c) \/ Wakes(p, c)
          PROVE  call'[d] = call[d] /\ About(d)' = About(d)
      <3>1. \A q \in Panes : pane'[q].post = pane[q].post
        BY <2>4 DEF Submits, Wakes, Others, Same
      <3>2. call'[d] = call[d]
        BY <2>4 DEF Submits, Wakes, Becomes
      <3> QED
        BY <2>1, <3>1, <3>2
    <2>5. ASSUME NEW c \in Calls, Remounts(c)
          PROVE  call'[d] = call[d] /\ About(d)' = About(d)
      <3>1. \A q \in Panes : Uses(q) # {} => pane'[q].post = pane[q].post
        BY <2>5 DEF Remounts, Shut, Others
      <3>2. call'[d] = call[d]
        BY <2>5 DEF Remounts, Becomes
      <3> QED
        BY <2>1, <3>1, <3>2
    <2>6. ASSUME NEW c \in Calls, Reloads(c)
          PROVE  FALSE
      <3>1. call'[d] = NoCall \/ call'[d].pc = "creating"
        BY <2>6 DEF Reloads
      <3> QED
        BY <3>1 DEF NoCall
    <2>7. CASE Idles
      BY <2>1, <2>7 DEF Idles
    <2> QED
      BY <2>2, <2>3, <2>4, <2>5, <2>6, <2>7, Effects
  <1> QED
    BY <1>1, <1>2, <1>3

\* The step's own composer apart, what a composer says has been said before.
LEMMA SaidStep ==
    ASSUME IInv, SendInv, AckInv, [Next]_vars
    PROVE  AcknowledgedWasSent'
  <1> SUFFICES ASSUME NEW p \in Panes, pane'[p].state \in Sent
               PROVE  Told(pane[p].post)'
    BY DEF AcknowledgedWasSent, Told
  <1>0. ASSUME NEW m \in Posts, Told(m), pane'[p].post = m
        PROVE  Told(pane[p].post)'
    <2>1. Told(m)'
      BY <1>0, ToldStays
    <2> QED
      BY <1>0, <2>1 DEF Told, Reached, Mixed
  <1>1. CASE pane[p].state \in Sent /\ pane'[p].post = pane[p].post
    <2>1. PICK m : m = pane[p].post
      OBVIOUS
    <2>2. m \in Posts /\ Told(m)
      BY <1>1, <2>1 DEF AckInv, AcknowledgedWasSent, Told, IInv, TypeOK, Sent, PaneRecords
    <2> QED
      BY <1>0, <1>1, <2>1, <2>2
  <1>2. ASSUME NEW c \in Calls, Finishes(c), call[c].pane = p
        PROVE  Told(pane[p].post)'
    <2>1. PICK m : m = About(c)
      OBVIOUS
    <2>2. p # None /\ pane'[p].post = m /\ m \in Posts
      <3>1. p # None
        BY ReplyAssumption
      <3>2. pane[p].post \in Posts
        BY <1>2, <3>1, PaneOfCall
      <3> QED
        BY <1>2, <2>1, <3>1, <3>2 DEF Finishes, Same, About
    <2>3. Told(m)
      BY <1>2, <2>1 DEF Finishes, AckInv, Heard, Told, Reached
    <2> QED
      BY <1>0, <2>2, <2>3
  <1>3. ASSUME NEW m \in Posts, Opens(p, m)
        PROVE  Told(pane[p].post)'
    <2>1. pane'[p].state = "SHOWING_WELCOME"
      BY <1>3 DEF Opens, Sent
    <2>2. store.msg = m /\ store.machine = "SHOWING_WELCOME" /\ pane'[p].post = m /\ m # None
      BY <1>3, <2>1, ReplyAssumption DEF Opens
    <2>3. Told(m)
      BY <2>2 DEF AckInv, Remembered, Sent
    <2> QED
      BY <1>0, <2>2, <2>3
  <1>4. \/ pane[p].state \in Sent /\ pane'[p].post = pane[p].post
        \/ \E c \in Calls : Finishes(c) /\ call[c].pane = p
        \/ \E m \in Posts : Opens(p, m)
    <2>1. ASSUME pane' = pane
          PROVE  pane[p].state \in Sent /\ pane'[p].post = pane[p].post
      BY <2>1
    <2>2. ASSUME NEW q \in Panes, Edits(q) \/ Welcomed(q) \/ Closes({q})
          PROVE  pane[p].state \in Sent /\ pane'[p].post = pane[p].post
      BY <2>2 DEF Edits, Welcomed, Closes, Shut, Others, Same, Sent
    <2>3. ASSUME NEW q \in Panes, NEW m \in Posts, Opens(q, m)
          PROVE  (pane[p].state \in Sent /\ pane'[p].post = pane[p].post) \/ Opens(p, m)
      BY <2>3 DEF Opens, Others
    <2>4. ASSUME NEW q \in Panes, NEW c \in Calls, Submits(q, c) \/ Wakes(q, c)
          PROVE  pane[p].state \in Sent /\ pane'[p].post = pane[p].post
      BY <2>4 DEF Submits, Wakes, Others, Sent
    <2>5. ASSUME NEW c \in Calls, Quietly(c)
          PROVE  pane[p].state \in Sent /\ pane'[p].post = pane[p].post
      BY <2>5 DEF Quietly, Others, Sent, Processing
    <2>6. ASSUME NEW c \in Calls, Commits(c)
          PROVE  pane[p].state \in Sent /\ pane'[p].post = pane[p].post
      BY <2>6 DEF Commits, Others, Sent
    <2>7. ASSUME NEW c \in Calls, Finishes(c)
          PROVE  \/ pane[p].state \in Sent /\ pane'[p].post = pane[p].post
                 \/ call[c].pane = p
      BY <2>7 DEF Finishes, Others
    <2>8. ASSUME NEW c \in Calls, Remounts(c) \/ Reloads(c)
          PROVE  pane[p].state \in Sent /\ pane'[p].post = pane[p].post
      BY <2>8 DEF Remounts, Reloads, Shut, Others, Sent, OpenPanes
    <2> QED
      BY <2>1, <2>2, <2>3, <2>4, <2>5, <2>6, <2>7, <2>8, Effects
         DEF Idles, Goes, GivesUp, Drops, Delivers, Resends
  <1> QED
    BY <1>1, <1>2, <1>3, <1>4

LEMMA RememberedStep ==
    ASSUME IInv, IInv', SendInv, AckInv, [Next]_vars
    PROVE  Remembered'
  <1> SUFFICES ASSUME store'.machine \in Sent, store'.msg # None
               PROVE  Told(store.msg)'
    BY DEF Remembered
  <1>0. PICK m : m = store'.msg
    OBVIOUS
  <1>1. m \in Posts
    BY <1>0 DEF IInv, TypeOK, StoreRecords
  <1>2. ASSUME Told(m)
        PROVE  Told(store.msg)'
    <2>1. Told(m)'
      BY <1>1, <1>2, ToldStays
    <2> QED
      BY <1>0, <2>1 DEF Told, Reached, Mixed
  <1>3. CASE store.machine \in Sent /\ store.msg = m
    <2>1. Told(m)
      BY <1>0, <1>3 DEF AckInv, Remembered
    <2> QED
      BY <1>2, <2>1
  <1>4. ASSUME NEW c \in Calls, Commits(c)
        PROVE  Told(store.msg)'
    <2>1. /\ call[c].pane \in Panes /\ pane[call[c].pane].state \in Sent
          /\ pane[call[c].pane].post = m
      BY <1>0, <1>4, PaneOfCall DEF Commits, Sent
    <2>2. Told(m)
      BY <2>1 DEF AckInv, AcknowledgedWasSent, Told
    <2> QED
      BY <1>2, <2>2
  <1>5. (store.machine \in Sent /\ store.msg = m) \/ \E c \in Calls : Commits(c)
    <2>1. ASSUME NEW p \in Panes, Edits(p) \/ Welcomed(p) \/ Closes({p}) \/ \E n \in Posts : Opens(p, n)
          PROVE  store.machine \in Sent /\ store.msg = m
      BY <1>0, <2>1 DEF Edits, Welcomed, Closes, Opens, SameStore, Sent
    <2>2. ASSUME NEW p \in Panes, NEW c \in Calls, Submits(p, c) \/ Wakes(p, c)
          PROVE  store.machine \in Sent /\ store.msg = m
      BY <1>0, <2>2 DEF Submits, Wakes, Sent
    <2>3. ASSUME NEW c \in Calls, Quietly(c)
          PROVE  store.machine \in Sent /\ store.msg = m
      BY <1>0, <2>3 DEF Quietly, Sent
    <2>4. ASSUME NEW c \in Calls,
                 Finishes(c) \/ Drops(c) \/ Remounts(c) \/ Reloads(c) \/ Delivers(c) \/ Resends(c)
          PROVE  store.machine \in Sent /\ store.msg = m
      BY <1>0, <2>4 DEF Finishes, Drops, Remounts, Reloads, Delivers, Resends, SameStore
    <2> QED
      BY <1>0, <2>1, <2>2, <2>3, <2>4, Effects DEF Idles, Goes, GivesUp
  <1> QED
    BY <1>3, <1>4, <1>5

LEMMA AckKept == Spec => [](IInv /\ SendInv /\ AckInv)
  <1>1. Init => AckInv
    BY DEF Init, AckInv, Heard, Remembered, AcknowledgedWasSent, NoCall, NewPane, Cleared, Sent
  <1>2. IInv /\ IInv' /\ SendInv /\ AckInv /\ [Next]_vars => AckInv'
    BY HeardStep, SaidStep, RememberedStep DEF AckInv
  <1> QED
    BY SendsKept, <1>1, <1>2, PTL DEF Spec

\* A composer that shows the welcome or has completed has got the reply to its poster, unless a
\* ban keeps it away or a reply to another post was on its way at the same time: also when it
\* resumes a reply from the store, and when another call of its, older or newer, still runs.
THEOREM Acknowledged == Spec => []AcknowledgedWasSent
  <1>1. AckInv => AcknowledgedWasSent
    BY DEF AckInv
  <1> QED
    BY AckKept, <1>1, PTL

-------------------------------------------------------------------------------
(* A committed reply is kept until it has gone *)

\* The store lets go of a reply without taking another in four places only.
LEMMA LetGo ==
    ASSUME IInv, SendInv, AckInv, [Next]_vars,
           NEW m \in Posts, store.msg = m, store'.msg = None
    PROVE  Reached(m) \/ ~store.fresh \/ Mixed(m) \/ Unaddressed(m)
  <1>0. m # None
    BY ReplyAssumption
  <1>1. ASSUME NEW n \in Posts, Fits(n), Told(n)
        PROVE  Told(m)
    BY <1>0, <1>1 DEF Fits, Told, Mixed
  <1>2. ASSUME NEW p \in Panes, Welcomed(p)
        PROVE  Told(m)
    <2>1. /\ Fits(pane[p].post) /\ pane[p].post \in Posts
      BY <1>2 DEF Welcomed, SendInv, WaitsFit, Welcoming, OpenPanes, IInv, TypeOK, PaneRecords
    <2>2. Told(pane[p].post)
      BY <1>2 DEF Welcomed, AckInv, AcknowledgedWasSent, Told, Sent
    <2> QED
      BY <1>1, <2>1, <2>2
  <1>3. ASSUME NEW p \in Panes, NEW n \in Posts, Opens(p, n)
        PROVE  Told(m) \/ ~store.fresh
    BY <1>0, <1>3 DEF Opens, SameStore, AckInv, Remembered, Sent
  <1>4. ASSUME NEW c \in Calls, Finishes(c)
        PROVE  Told(m)
    <2>1. Fits(About(c)) /\ Told(About(c))
      BY <1>4 DEF Finishes, SendInv, OwnReply, Settled, Past, AckInv, Heard, Told, Reached
    <2>2. About(c) \in Posts
      <3>1. Running(c) /\ call[c].arg # None /\ call[c] \in CallRecords
        BY <1>4 DEF Finishes, Running, IInv, TypeOK, CallsInOrder
      <3> QED
        BY <3>1, PaneOfCall DEF About, CallRecords
    <2> QED
      BY <1>1, <2>1, <2>2
  <1>5. ASSUME NEW c \in Calls, Drops(c)
        PROVE  Unaddressed(m)
    BY <1>5 DEF Drops, Unaddressed
  <1>6. \/ store'.msg = store.msg
        \/ \E p \in Panes : Welcomed(p) \/ \E n \in Posts : Opens(p, n)
        \/ \E c \in Calls : Finishes(c) \/ Drops(c)
    <2>1. ASSUME NEW c \in Calls, Commits(c)
          PROVE  FALSE
      BY <2>1, PaneOfCall, ReplyAssumption DEF Commits
    <2>2. ASSUME NEW p \in Panes, NEW c \in Calls, Submits(p, c) \/ Wakes(p, c)
          PROVE  store'.msg = store.msg
      BY <2>2 DEF Submits, Wakes
    <2> QED
      BY <2>1, <2>2, Effects
         DEF Idles, Edits, Closes, SameStore, Goes, GivesUp, Quietly, Delivers, Resends, Remounts, Reloads
  <1> QED
    BY <1>0, <1>2, <1>3, <1>4, <1>5, <1>6 DEF Told

\* A committed reply leaves the store only when its poster has it (or a ban keeps it away), when
\* another reply takes its place, when it is more than a day old, when a reply to another post
\* was on its way at the same time, or when the layout has nobody to send it to: no end of a
\* call, timer, closed welcome or resumed draft drops a reply that has not gone.
THEOREM Kept == Spec => CommittedKept
  <1>1. IInv /\ SendInv /\ AckInv /\ [Next]_vars =>
           [\A m \in Posts : store.msg = m /\ store'.msg # m =>
               Reached(m) \/ store'.msg # None \/ ~store.fresh \/ Mixed(m) \/ Unaddressed(m)]_vars
    BY LetGo
  <1> QED
    BY AckKept, <1>1, PTL DEF CommittedKept, Spec

-------------------------------------------------------------------------------
(* No reply is sent more often than the code can help *)

\* The calls that may still send the reply to m: those about m, those that would find it in the
\* store, and the one that has it in hand; and the open composer that would set one off if the
\* user logged in.
Owed(m) ==
    {c \in Calls : /\ Past(c) /\ ~(call[c].pc = "answered" /\ call[c].arg = m)
                   /\ \/ m \in {About(c), store.msg}
                      \/ call[c].pc = "opening" /\ call[c].arg = m}
Awaiting(m) == \E p \in Waiting : Uses(p) = {} /\ m \in {pane[p].post, store.msg}
Turn(m) == IF Awaiting(m) THEN 1 ELSE 0

\* Every row, call that may send and composer that waits has a press of Send or an excuse of its
\* own; and so has the reply the store holds, which a page load would send, but for answers that
\* are still to come.
Paid(m) ==
    /\ Sends(m) + Cardinality(Owed(m)) + Turn(m) <= clicks[m] + excused[m]
    /\ store.msg = m => Sends(m) + 1 <= clicks[m] + excused[m] + Cardinality(Unheard(m))
AllPaid == \A m \in Posts : Paid(m)

LEMMA Counting ==
    ASSUME NEW S \in SUBSET Calls, NEW T \in SUBSET Calls
    PROVE  /\ Cardinality(S) \in Nat /\ Cardinality(T) \in Nat
           /\ S \subseteq T => Cardinality(S) <= Cardinality(T)
           /\ \A c \in Calls : S \subseteq T \union {c} => Cardinality(S) <= Cardinality(T) + 1
           /\ \A c \in T : S \subseteq T \ {c} => Cardinality(S) + 1 <= Cardinality(T)
           /\ S = {} => Cardinality(S) = 0
           /\ Cardinality(S \union T) <= Cardinality(S) + Cardinality(T)
  <1>1. IsFiniteSet(S) /\ IsFiniteSet(T)
    BY ReplyAssumption, FS_Subset
  <1>2. Cardinality(S) \in Nat /\ Cardinality(T) \in Nat
    BY <1>1, FS_CardinalityType
  <1>3. S \subseteq T => Cardinality(S) <= Cardinality(T)
    BY <1>1, FS_Subset
  <1>4. ASSUME NEW c \in Calls, S \subseteq T \union {c}
        PROVE  Cardinality(S) <= Cardinality(T) + 1
    <2>1. /\ IsFiniteSet(T \union {c})
          /\ Cardinality(T \union {c}) = IF c \in T THEN Cardinality(T) ELSE Cardinality(T) + 1
      BY <1>1, FS_AddElement
    <2>2. Cardinality(S) <= Cardinality(T \union {c})
      BY <1>4, <2>1, FS_Subset
    <2> QED
      BY <1>2, <2>1, <2>2
  <1>5. ASSUME NEW c \in T, S \subseteq T \ {c}
        PROVE  Cardinality(S) + 1 <= Cardinality(T)
    <2>1. IsFiniteSet(T \ {c}) /\ Cardinality(T \ {c}) = Cardinality(T) - 1
      BY <1>1, FS_RemoveElement
    <2>2. Cardinality(S) <= Cardinality(T \ {c})
      BY <1>5, <2>1, FS_Subset
    <2> QED
      BY <1>2, <2>1, <2>2
  <1>6. S = {} => Cardinality(S) = 0
    BY FS_EmptySet
  <1>7. Cardinality(S \union T) <= Cardinality(S) + Cardinality(T)
    <2>1. Cardinality(S \union T) = Cardinality(S) + Cardinality(T) - Cardinality(S \cap T)
      BY <1>1, FS_Union
    <2>2. Cardinality(S \cap T) \in Nat
      <3>1. IsFiniteSet(S \cap T)
        BY <1>1, FS_Intersection
      <3> QED
        BY <3>1, FS_CardinalityType
    <2> QED
      BY <1>2, <2>1, <2>2
  <1> QED
    BY <1>2, <1>3, <1>4, <1>5, <1>6, <1>7

LEMMA Numbers ==
    ASSUME IInv, NEW m \in Posts
    PROVE  /\ Sends(m) \in Nat /\ clicks[m] \in Nat /\ excused[m] \in Nat
           /\ Cardinality(Owed(m)) \in Nat /\ Cardinality(Unheard(m)) \in Nat
           /\ Turn(m) \in {0, 1} /\ Owed(m) \in SUBSET Calls /\ Unheard(m) \in SUBSET Calls
  <1>1. Owed(m) \in SUBSET Calls /\ Unheard(m) \in SUBSET Calls
    BY DEF Owed, Unheard
  <1>2. Cardinality(Owed(m)) \in Nat /\ Cardinality(Unheard(m)) \in Nat
    BY <1>1, Counting
  <1>3. Sends(m) \in Nat /\ clicks[m] \in Nat /\ excused[m] \in Nat
    BY DEF IInv, TypeOK, Sends
  <1> QED
    BY <1>1, <1>2, <1>3 DEF Turn

LEMMA NextNumbers ==
    ASSUME IInv', NEW m \in Posts
    PROVE  /\ Sends(m)' \in Nat /\ clicks'[m] \in Nat /\ excused'[m] \in Nat
           /\ Cardinality(Owed(m)') \in Nat /\ Cardinality(Unheard(m)') \in Nat
           /\ Turn(m)' \in {0, 1} /\ Owed(m)' \in SUBSET Calls /\ Unheard(m)' \in SUBSET Calls
  <1>1. Owed(m)' \in SUBSET Calls /\ Unheard(m)' \in SUBSET Calls
    BY DEF Owed, Unheard
  <1>2. Cardinality(Owed(m)') \in Nat /\ Cardinality(Unheard(m)') \in Nat
    BY <1>1, Counting
  <1>3. Sends(m)' \in Nat /\ clicks'[m] \in Nat /\ excused'[m] \in Nat
    BY DEF IInv, TypeOK, Sends
  <1> QED
    BY <1>1, <1>2, <1>3 DEF Turn

\* A step that sends nothing, charges nothing, and leaves no more to send.
LEMMA Balance ==
    ASSUME IInv, IInv', NEW m \in Posts, Paid(m), rows'[m] = rows[m],
           clicks'[m] = clicks[m], excused'[m] = excused[m],
           Owed(m)' \subseteq Owed(m), Awaiting(m)' => Awaiting(m),
           store'.msg = m => store.msg = m /\ Unheard(m) \subseteq Unheard(m)'
    PROVE  Paid(m)'
  <1>1. Sends(m)' = Sends(m) /\ Turn(m)' <= Turn(m)
    BY DEF Sends, Turn
  <1>2. Cardinality(Owed(m)') <= Cardinality(Owed(m))
        /\ (store'.msg = m => Cardinality(Unheard(m)) <= Cardinality(Unheard(m)'))
    BY Numbers, NextNumbers, Counting
  <1> QED
    BY <1>1, <1>2, Numbers, NextNumbers DEF Paid

\* A step that charges n clicks or excuses, at least one, and leaves n more to send.
LEMMA Charge ==
    ASSUME IInv, IInv', NEW m \in Posts, NEW n \in Nat \ {0}, Paid(m), rows'[m] = rows[m],
           clicks'[m] + excused'[m] = clicks[m] + excused[m] + n,
           Cardinality(Owed(m)') + Turn(m)' <= Cardinality(Owed(m)) + Turn(m) + n
    PROVE  Paid(m)'
  <1>1. Sends(m)' = Sends(m)
    BY DEF Sends
  <1>2. Sends(m)' + 1 <= clicks'[m] + excused'[m]
    BY <1>1, Numbers, NextNumbers DEF Paid
  <1> QED
    BY <1>1, <1>2, Numbers, NextNumbers DEF Paid

\* What a call owes, a step that leaves the call and its composer's post alone and puts no other
\* reply in the store does not change.
LEMMA OwedFrame ==
    ASSUME IInv, NEW m \in Posts, NEW C \in SUBSET Calls,
           \A d \in Calls \ C : call'[d] = call[d],
           \A q \in Panes : Uses(q) # {} => pane'[q].post = pane[q].post,
           store'.msg = m => store.msg = m
    PROVE  /\ Owed(m)' \subseteq Owed(m) \union C
           /\ Unheard(m) \subseteq Unheard(m)' \union C
  <1>1. ASSUME NEW d \in Calls \ C, d \in Owed(m)'
        PROVE  d \in Owed(m)
    <2>1. /\ Past(d)' /\ ~(call'[d].pc = "answered" /\ call'[d].arg = m)
          /\ m \in {About(d)', store'.msg} \/ (call'[d].pc = "opening" /\ call'[d].arg = m)
      BY <1>1 DEF Owed
    <2>2. call'[d] = call[d] /\ d \in Calls
      BY <1>1
    <2>3. Past(d) /\ About(d)' = About(d)
      BY <2>1, <2>2, CallKept
    <2> QED
      BY <2>1, <2>2, <2>3 DEF Owed
  <1>2. Owed(m)' \subseteq Owed(m) \union C
    BY <1>1 DEF Owed
  <1>3. Unheard(m) \subseteq Unheard(m)' \union C
    BY DEF Unheard
  <1> QED
    BY <1>2, <1>3

LEMMA ComposerPaid ==
    ASSUME IInv, IInv', NEW m \in Posts, Paid(m),
           Idles \/ \E p \in Panes : \/ Edits(p) \/ Welcomed(p) \/ Closes({p})
                                     \/ \E n \in Posts : Opens(p, n)
    PROVE  Paid(m)'
  <1>0. m # None
    BY ReplyAssumption
  <1>1. call' = call /\ rows' = rows /\ clicks' = clicks /\ excused' = excused
        /\ store'.msg \in {store.msg, None}
    BY DEF Idles, Edits, Welcomed, Closes, Opens, SameStore, Unsent
  <1>2. \A q \in Panes : Uses(q) # {} => pane'[q].post = pane[q].post
    BY DEF Idles, Edits, Welcomed, Closes, Opens, Shut, Same, Others
  <1>3. Owed(m)' \subseteq Owed(m) \union {} /\ Unheard(m) \subseteq Unheard(m)' \union {}
    BY <1>0, <1>1, <1>2, OwedFrame
  <1>4. ASSUME NEW q \in Waiting'
        PROVE  q \in Waiting /\ pane'[q].post = pane[q].post
    <2>1. q \in Panes /\ pane'[q].open /\ pane'[q].state = "AUTHENTICATING"
      BY DEF Waiting, OpenPanes
    <2>2. ASSUME NEW p \in Panes, Edits(p) \/ Welcomed(p) \/ Closes({p})
          PROVE  q \in Waiting /\ pane'[q].post = pane[q].post
      BY <2>1, <2>2 DEF Edits, Welcomed, Closes, Shut, Same, Others, Waiting, OpenPanes
    <2>3. ASSUME NEW p \in Panes, NEW n \in Posts, Opens(p, n)
          PROVE  FALSE
      BY <2>1, <2>3 DEF Opens, Others, OpenPanes
    <2> QED
      BY <2>1, <2>2, <2>3 DEF Idles, Waiting, OpenPanes
  <1>5. Awaiting(m)' => Awaiting(m)
    BY <1>0, <1>1, <1>4 DEF Awaiting, Uses, Running
  <1> QED
    BY <1>0, <1>1, <1>3, <1>5, Balance

LEMMA SubmitsPaid ==
    ASSUME IInv, IInv', NEW m \in Posts, Paid(m), NEW p \in Panes, NEW c \in Calls, Submits(p, c)
    PROVE  Paid(m)'
  <1>1. /\ \A d \in Calls \ {c} : call'[d] = call[d]
        /\ \A q \in Panes : pane'[q].post = pane[q].post
        /\ call'[c].pc = "validating" /\ call'[c].pane = p /\ call[c].pc = "idle"
        /\ store' = store
    BY DEF Submits, Becomes, Others, Same, Running
  <1>2. Owed(m)' \subseteq Owed(m) \union {c} /\ Unheard(m) \subseteq Unheard(m)' \union {c}
    BY <1>1, OwedFrame
  <1>3. c \notin Owed(m)' /\ c \notin Unheard(m)
    BY <1>1 DEF Owed, Unheard, Past
  <1>4. Awaiting(m)' => Awaiting(m)
    <2>1. ASSUME NEW q \in Waiting', Uses(q)' = {}
          PROVE  q \in Waiting /\ pane'[q] = pane[q] /\ Uses(q) = {}
      <3>1. q \in Panes /\ q # p
        BY DEF Submits, Waiting, OpenPanes
      <3>2. Uses(q) \subseteq Uses(q)'
        BY <1>1 DEF Uses, Running
      <3> QED
        BY <2>1, <3>1, <3>2 DEF Submits, Others, Waiting, OpenPanes
    <2> QED
      BY <1>1, <2>1 DEF Awaiting
  <1> QED
    BY <1>1, <1>2, <1>3, <1>4, Balance DEF Submits, Unsent

LEMMA WakesPaid ==
    ASSUME IInv, IInv', OneOpen, NEW m \in Posts, Paid(m),
           NEW p \in Panes, NEW c \in Calls, Wakes(p, c)
    PROVE  Paid(m)'
  <1>1. /\ \A q \in Panes : pane'[q].post = pane[q].post
        /\ \A q \in Panes : pane'[q].open => q = p
        /\ p \in Waiting /\ store'.msg = store.msg
        /\ rows'[m] = rows[m] /\ clicks'[m] = clicks[m]
    BY DEF Wakes, Others, Same, OneOpen, OpenPanes, Waiting
  <1> DEFINE mine == m \in {pane[p].post, store.msg}
  <1>2. /\ excused'[m] \in {excused[m], excused[m] + 1} /\ excused[m] \in Nat
        /\ ~mine \/ Uses(p) = {} => excused'[m] = excused[m]
        /\ mine /\ Uses(p) # {} => excused'[m] = excused[m] + 1
    BY DEF Wakes, IInv, TypeOK
  <1>3. CASE pane'[p].state = "AUTHENTICATING" /\ call' = call
    <2>1. Owed(m)' \subseteq Owed(m) \union {} /\ Unheard(m) \subseteq Unheard(m)' \union {}
      BY <1>1, <1>3, OwedFrame
    <2>2. Awaiting(m)' => Awaiting(m)
      BY <1>1, <1>3 DEF Awaiting, Waiting, OpenPanes, Uses, Running
    <2>3. Turn(m)' <= Turn(m)
      BY <2>2 DEF Turn
    <2>4. CASE excused'[m] = excused[m]
      BY <1>1, <2>1, <2>2, <2>4, Balance
    <2>5. CASE excused'[m] = excused[m] + 1
      <3>1. Cardinality(Owed(m)') <= Cardinality(Owed(m))
        BY <2>1, Numbers, NextNumbers, Counting
      <3>2. clicks'[m] + excused'[m] = clicks[m] + excused[m] + 1
        BY <1>1, <2>5, Numbers
      <3> QED
        BY <1>1, <2>3, <3>1, <3>2, Charge, Numbers, NextNumbers
    <2> QED
      BY <1>2, <2>4, <2>5
  <1>4. CASE pane'[p].state = "JOINING_GROUP" /\ Becomes(c, "joining", p, None)
    <2>1. /\ {c} \in SUBSET Calls /\ \A d \in Calls \ {c} : call'[d] = call[d]
          /\ \A q \in Panes : Uses(q) # {} => pane'[q].post = pane[q].post
      BY <1>1, <1>4 DEF Becomes
    <2>2. Owed(m)' \subseteq Owed(m) \union {c} /\ Unheard(m) \subseteq Unheard(m)' \union {c}
      BY <1>1, <2>1, OwedFrame
    <2>3. c \notin Unheard(m)
      BY DEF Wakes, Unheard, Running
    <2>4. ~Awaiting(m)' /\ Turn(m)' = 0
      BY <1>1, <1>4 DEF Awaiting, Waiting, OpenPanes, Turn
    <2>5. CASE ~mine
      <3>1. About(c)' = pane[p].post
        BY <1>1, <1>4, ReplyAssumption DEF About, Becomes, Wakes, Waiting, OpenPanes
      <3>2. c \notin Owed(m)'
        BY <1>1, <1>4, <2>5, <3>1 DEF Owed, Becomes
      <3> QED
        BY <1>1, <1>2, <2>2, <2>3, <2>4, <2>5, <3>2, Balance
    <2>6. CASE mine /\ Uses(p) = {}
      <3>1. Turn(m) = 1
        BY <1>1, <2>6 DEF Turn, Awaiting
      <3>2. Cardinality(Owed(m)') <= Cardinality(Owed(m)) + 1
        BY <2>2, Numbers, NextNumbers, Counting
      <3>3. Cardinality(Unheard(m)) <= Cardinality(Unheard(m)')
        BY <2>2, <2>3, Numbers, NextNumbers, Counting
      <3>4. Sends(m)' = Sends(m) /\ excused'[m] = excused[m]
        BY <1>1, <1>2, <2>6 DEF Sends
      <3> QED
        BY <1>1, <2>4, <3>1, <3>2, <3>3, <3>4, Numbers, NextNumbers DEF Paid
    <2>7. CASE mine /\ Uses(p) # {}
      <3>1. Cardinality(Owed(m)') <= Cardinality(Owed(m)) + 1
        BY <2>2, Numbers, NextNumbers, Counting
      <3>2. clicks'[m] + excused'[m] = clicks[m] + excused[m] + 1
        BY <1>1, <1>2, <2>7, Numbers
      <3> QED
        BY <1>1, <2>4, <3>1, <3>2, Charge, Numbers, NextNumbers
    <2> QED
      BY <2>5, <2>6, <2>7
  <1> QED
    BY <1>3, <1>4 DEF Wakes

\* A step of a call: of the other calls and composers nothing changes.
LEMMA CallsPaid ==
    ASSUME IInv, NEW m \in Posts, NEW c \in Calls, store'.msg = m => store.msg = m,
           \/ Commits(c) \/ Goes(c) \/ GivesUp(c) \/ Drops(c)
           \/ Delivers(c) \/ Finishes(c) \/ Resends(c)
    PROVE  /\ Owed(m)' \subseteq Owed(m) \union {c} /\ Unheard(m) \subseteq Unheard(m)' \union {c}
           /\ Running(c)' \/ ~(call[c].pane \in Waiting') => (Awaiting(m)' => Awaiting(m))
           /\ m \notin {About(c), store.msg} => (Awaiting(m)' => Awaiting(m))
  <1>1. /\ Running(c)
        /\ \A q \in Panes : pane'[q].post = pane[q].post /\ pane'[q].open = pane[q].open
        /\ \A q \in Panes \ {call[c].pane} : pane'[q] = pane[q]
        /\ \A d \in Calls \ {c} : call'[d] = call[d]
        /\ Running(c)' => call'[c].pane = call[c].pane
    BY CallFrame DEF Running
  <1>2. Owed(m)' \subseteq Owed(m) \union {c} /\ Unheard(m) \subseteq Unheard(m)' \union {c}
    <2>1. {c} \in SUBSET Calls /\ \A q \in Panes : Uses(q) # {} => pane'[q].post = pane[q].post
      BY <1>1
    <2>2. \A d \in Calls \ {c} : call'[d] = call[d]
      BY <1>1
    <2> QED
      BY <2>1, <2>2, OwedFrame
  <1>3. ASSUME Awaiting(m)', Running(c)' \/ ~(call[c].pane \in Waiting') \/ m \notin {About(c), store.msg}
        PROVE  Awaiting(m)
    <2>1. PICK q \in Waiting' : Uses(q)' = {} /\ m \in {pane'[q].post, store'.msg}
      BY <1>3 DEF Awaiting
    <2>2. q \in Panes /\ m \in {pane[q].post, store.msg}
      BY <1>1, <2>1 DEF Waiting, OpenPanes
    <2>3. q # call[c].pane
      <3>1. CASE Running(c)'
        BY <1>1, <2>1, <3>1 DEF Uses
      <3>2. CASE ~(call[c].pane \in Waiting')
        BY <2>1, <3>2
      <3>3. CASE m \notin {About(c), store.msg}
        BY <2>2, <3>3, ReplyAssumption DEF About
      <3> QED
        BY <1>3, <3>1, <3>2, <3>3
    <2>4. pane'[q] = pane[q] /\ Uses(q) \subseteq Uses(q)'
      BY <1>1, <2>2, <2>3 DEF Uses, Running
    <2> QED
      BY <2>1, <2>2, <2>4 DEF Awaiting, Waiting, OpenPanes
  <1> QED
    BY <1>2, <1>3

\* The commit of a reply to m itself: the calls that were on their way with another one, and the
\* composer that waits with one, may from now on send it.
LEMMA CommitsOwn ==
    ASSUME IInv, IInv', NEW m \in Posts, Paid(m), NEW c \in Calls, Commits(c), About(c) = m
    PROVE  Paid(m)'
  <1> DEFINE may == {d \in Calls : Past(d) /\ About(d) # m}
             wait == \E q \in Waiting : Uses(q) = {} /\ pane[q].post # m
             more == Cardinality(may) + IF wait THEN 1 ELSE 0
  <1>1. /\ Running(c) /\ Running(c)' /\ call'[c].pane = call[c].pane
        /\ \A q \in Panes : pane'[q].post = pane[q].post /\ pane'[q].open = pane[q].open
        /\ \A q \in Panes \ {call[c].pane} : pane'[q] = pane[q]
        /\ \A d \in Calls \ {c} : call'[d] = call[d]
    BY CallFrame DEF Commits, Becomes, Running
  <1>2. /\ pane[call[c].pane].post = m /\ call[c].pane \in Panes /\ call[c].pc = "validating"
        /\ store'.msg = m /\ rows'[m] = rows[m] /\ clicks'[m] = clicks[m] + 1
        /\ excused'[m] = excused[m] + more
    <2>1. pane[call[c].pane].post = m /\ call[c].pane \in Panes /\ call[c].pc = "validating"
      BY PaneOfCall, ReplyAssumption DEF Commits, About
    <2>2. Overtakes(m) /\ clicks' = [clicks EXCEPT ![m] = @ + 1] /\ rows' = rows /\ store'.msg = m
      BY <2>1 DEF Commits
    <2>3. excused' = [excused EXCEPT ![m] = @ + Cardinality(may) + IF wait THEN 1 ELSE 0]
      BY <2>2 DEF Overtakes
    <2>4. Cardinality(may) \in Nat
      <3>1. may \in SUBSET Calls
        OBVIOUS
      <3> HIDE DEF may
      <3> QED
        BY <3>1, Counting
    <2>5. excused \in [Posts -> Nat] /\ clicks \in [Posts -> Nat]
      BY DEF IInv, TypeOK
    <2> HIDE DEF may, wait
    <2> QED
      BY <2>1, <2>2, <2>3, <2>4, <2>5
  <1>3. may \in SUBSET Calls /\ Owed(m) \in SUBSET Calls /\ Owed(m) \union may \in SUBSET Calls
    BY DEF Owed
  <1>4. Owed(m)' \subseteq (Owed(m) \union may) \union {c}
    <2>1. ASSUME NEW d \in Owed(m)', d # c
          PROVE  d \in Owed(m) \union may
      <3>1. d \in Calls /\ Past(d)' /\ ~(call'[d].pc = "answered" /\ call'[d].arg = m)
        BY DEF Owed
      <3>2. call'[d] = call[d]
        BY <1>1, <2>1, <3>1
      <3>3. Past(d) /\ ~(call[d].pc = "answered" /\ call[d].arg = m)
        BY <3>1, <3>2 DEF Past
      <3> QED
        BY <3>1, <3>3 DEF Owed
    <2> QED
      BY <2>1
  <1>5. Cardinality(may) \in Nat /\ Cardinality(Owed(m)') <= Cardinality(Owed(m)) + Cardinality(may) + 1
    <2> HIDE DEF may
    <2>1. Cardinality(Owed(m)') <= Cardinality(Owed(m) \union may) + 1
      BY <1>3, <1>4, NextNumbers, Counting
    <2>2. Cardinality(Owed(m) \union may) <= Cardinality(Owed(m)) + Cardinality(may)
      BY <1>3, Counting
    <2>3. Cardinality(may) \in Nat /\ Cardinality(Owed(m) \union may) \in Nat
      BY <1>3, Counting
    <2> QED
      BY <2>1, <2>2, <2>3, Numbers, NextNumbers
  <1>6. Awaiting(m)' => Awaiting(m) \/ wait
    <2>1. ASSUME NEW q \in Waiting', Uses(q)' = {}
          PROVE  q \in Waiting /\ Uses(q) = {}
      <3>1. q \in Panes /\ q # call[c].pane
        BY <1>1, <2>1 DEF Waiting, OpenPanes, Uses
      <3>2. pane'[q] = pane[q] /\ Uses(q) \subseteq Uses(q)'
        BY <1>1, <3>1 DEF Uses, Running
      <3> QED
        BY <2>1, <3>1, <3>2 DEF Waiting, OpenPanes
    <2> QED
      BY <2>1 DEF Awaiting
  <1>7. Turn(m)' <= Turn(m) + IF wait THEN 1 ELSE 0
    BY <1>6 DEF Turn
  <1> HIDE DEF may, wait
  <1>8. /\ more + 1 \in Nat \ {0}
        /\ clicks'[m] + excused'[m] = clicks[m] + excused[m] + (more + 1)
        /\ Cardinality(Owed(m)') + Turn(m)' <= Cardinality(Owed(m)) + Turn(m) + (more + 1)
    BY <1>2, <1>5, <1>7, Numbers, NextNumbers
  <1> HIDE DEF more
  <1> QED
    BY <1>2, <1>8, Charge

LEMMA CommitsPaid ==
    ASSUME IInv, IInv', NEW m \in Posts, Paid(m), NEW c \in Calls, Commits(c)
    PROVE  Paid(m)'
  <1>1. CASE About(c) = m
    BY <1>1, CommitsOwn
  <1>2. CASE About(c) # m
    <2> DEFINE n == pane[call[c].pane].post
    <2>1. n # m /\ store'.msg # m /\ call[c].pane \in Panes
      BY <1>2, PaneOfCall, ReplyAssumption DEF Commits, About
    <2>2. rows'[m] = rows[m] /\ clicks'[m] = clicks[m] /\ excused'[m] = excused[m]
      <3>1. Overtakes(n) /\ clicks' = [clicks EXCEPT ![n] = @ + 1] /\ rows' = rows
        BY DEF Commits
      <3> HIDE DEF n
      <3> QED
        BY <2>1, <3>1 DEF Overtakes, IInv, TypeOK
    <2>3. Running(c)' /\ call'[c].pane = call[c].pane /\ call'[c].pc \in {"joining", "checking"}
      BY DEF Commits, Becomes, Running
    <2>4. /\ Owed(m)' \subseteq Owed(m) \union {c} /\ (Awaiting(m)' => Awaiting(m))
      BY <2>1, <2>3, CallsPaid
    <2>5. c \notin Owed(m)'
      <3>1. About(c)' = n
        BY <2>1, <2>3, CallFrame, ReplyAssumption DEF About
      <3> QED
        BY <2>1, <2>3, <3>1 DEF Owed
    <2> QED
      BY <2>1, <2>2, <2>4, <2>5, Balance
  <1> QED
    BY <1>1, <1>2

LEMMA GoesPaid ==
    ASSUME IInv, IInv', NEW m \in Posts, Paid(m), NEW c \in Calls, Goes(c)
    PROVE  Paid(m)'
  <1>1. /\ Running(c)' /\ c \notin Unheard(m) /\ store'.msg = store.msg
        /\ Past(c) /\ call[c].pc # "answered" /\ call'[c].pane = call[c].pane
    BY DEF Goes, Becomes, Running, Unsure, Unheard, Quietly, Past
  <1>2. /\ Owed(m)' \subseteq Owed(m) \union {c} /\ Unheard(m) \subseteq Unheard(m)'
        /\ Awaiting(m)' => Awaiting(m)
    BY <1>1, CallsPaid
  <1>3. c \in Owed(m)' => c \in Owed(m)
    <2>1. call'[c].pc = "opening" => call'[c].arg = store.msg
      BY DEF Goes, Becomes
    <2>2. call'[c].pane = None => call'[c].pc = "opening"
      BY DEF Goes, Becomes
    <2>3. About(c)' \in {About(c), store.msg}
      <3>1. CASE call[c].pane = None
        BY <1>1, <2>1, <2>2, <3>1 DEF About
      <3>2. CASE call[c].pane # None
        BY <1>1, <3>2, CallFrame, CallUses DEF About
      <3> QED
        BY <3>1, <3>2
    <2> QED
      BY <1>1, <2>1, <2>3 DEF Owed
  <1> QED
    BY <1>1, <1>2, <1>3, Balance DEF Goes, Unsent

\* A call that is over, with the store emptied.
LEMMA FinishesPaid ==
    ASSUME IInv, IInv', NEW m \in Posts, Paid(m), NEW c \in Calls, Finishes(c) \/ Drops(c)
    PROVE  Paid(m)'
  <1>1. call'[c] = NoCall /\ store'.msg # m
    BY ReplyAssumption DEF Finishes, Drops, Ends, IInv, TypeOK
  <1>2. c \notin Owed(m)'
    BY <1>1 DEF Owed, NoCall, Past
  <1>3. ~(call[c].pane \in Waiting')
    BY ReplyAssumption DEF Finishes, Drops, Waiting, OpenPanes, Sent
  <1>4. Owed(m)' \subseteq Owed(m) /\ (Awaiting(m)' => Awaiting(m))
    BY <1>1, <1>2, <1>3, CallsPaid
  <1>5. rows' = rows /\ clicks' = clicks /\ excused' = excused
    BY DEF Finishes, Drops, Unsent
  <1> QED
    BY <1>1, <1>4, <1>5, Balance

LEMMA DeliversPaid ==
    ASSUME IInv, IInv', NEW m \in Posts, Paid(m), NEW c \in Calls, Delivers(c)
    PROVE  Paid(m)'
  <1>1. /\ call[c].pc = "opening" /\ call'[c].pc = "answered" /\ call'[c].arg = call[c].arg
        /\ call'[c].pane = call[c].pane /\ Running(c)' /\ store' = store /\ pane' = pane
        /\ clicks' = clicks /\ excused' = excused
        /\ rows' = [rows EXCEPT ![call[c].arg] = Append(@, About(c))]
    BY DEF Delivers, Becomes, Running
  <1>2. /\ Owed(m)' \subseteq Owed(m) \union {c} /\ Unheard(m) \subseteq Unheard(m)' \union {c}
        /\ Awaiting(m)' => Awaiting(m)
    BY <1>1, CallsPaid
  <1>3. CASE call[c].arg = m
    <2>1. c \in Owed(m) /\ c \notin Owed(m)' /\ c \notin Unheard(m) /\ c \in Unheard(m)'
      BY <1>1, <1>3 DEF Owed, Unheard, Past
    <2>2. /\ Cardinality(Owed(m)') + 1 <= Cardinality(Owed(m))
          /\ Cardinality(Unheard(m)) + 1 <= Cardinality(Unheard(m)')
          /\ Turn(m)' <= Turn(m)
      <3>1. Owed(m)' \subseteq Owed(m) \ {c} /\ Unheard(m) \subseteq Unheard(m)' \ {c}
        BY <1>2, <2>1
      <3>2. Turn(m)' <= Turn(m)
        BY <1>2 DEF Turn
      <3> QED
        BY <2>1, <3>1, <3>2, Numbers, NextNumbers, Counting
    <2>3. Sends(m)' = Sends(m) + 1
      <3>1. rows'[m] = Append(rows[m], About(c)) /\ rows[m] \in Seq(Posts)
        BY <1>1, <1>3 DEF IInv, TypeOK
      <3>2. rows'[m] \in Seq(Posts)
        BY DEF IInv, TypeOK
      <3> QED
        BY <3>1, <3>2 DEF Sends
    <2>4. store'.msg = store.msg /\ clicks'[m] = clicks[m] /\ excused'[m] = excused[m]
      BY <1>1
    <2> QED
      BY <2>2, <2>3, <2>4, Numbers, NextNumbers DEF Paid
  <1>4. CASE call[c].arg # m
    <2>1. c \in Owed(m)' => c \in Owed(m)
      BY <1>1, <1>4 DEF Owed, Past, About
    <2>2. c \notin Unheard(m) /\ rows'[m] = rows[m]
      BY <1>1, <1>4 DEF Unheard, IInv, TypeOK
    <2> QED
      BY <1>1, <1>2, <2>1, <2>2, Balance
  <1> QED
    BY <1>3, <1>4

LEMMA ResendsPaid ==
    ASSUME IInv, IInv', NEW m \in Posts, Paid(m), NEW c \in Calls, Resends(c)
    PROVE  Paid(m)'
  <1>1. /\ call[c].pc = "answered" /\ call'[c].pc = "opening" /\ call'[c].arg = call[c].arg
        /\ call'[c].pane = call[c].pane /\ Running(c)' /\ store' = store /\ pane' = pane
        /\ clicks' = clicks /\ rows' = rows
        /\ excused' = [excused EXCEPT ![call[c].arg] = @ + 1]
    BY DEF Resends, Becomes, Running
  <1>2. /\ Owed(m)' \subseteq Owed(m) \union {c} /\ Unheard(m) \subseteq Unheard(m)' \union {c}
        /\ Awaiting(m)' => Awaiting(m)
    BY <1>1, CallsPaid
  <1>3. CASE call[c].arg = m
    <2>1. Cardinality(Owed(m)') <= Cardinality(Owed(m)) + 1 /\ Turn(m)' <= Turn(m)
      <3>1. Turn(m)' <= Turn(m)
        BY <1>2 DEF Turn
      <3> QED
        BY <1>2, <3>1, Numbers, NextNumbers, Counting
    <2>2. excused'[m] = excused[m] + 1
      BY <1>1, <1>3 DEF IInv, TypeOK
    <2>3. clicks'[m] + excused'[m] = clicks[m] + excused[m] + 1
      BY <1>1, <2>2, Numbers
    <2> QED
      BY <1>1, <2>1, <2>3, Charge, Numbers, NextNumbers
  <1>4. CASE call[c].arg # m
    <2>1. c \in Owed(m)' => c \in Owed(m)
      BY <1>1, <1>4 DEF Owed, Past, About
    <2>2. c \notin Unheard(m) /\ excused'[m] = excused[m]
      BY <1>1, <1>4 DEF Unheard, IInv, TypeOK
    <2> QED
      BY <1>1, <1>2, <2>1, <2>2, Balance
  <1> QED
    BY <1>3, <1>4

LEMMA GivesUpPaid ==
    ASSUME IInv, IInv', NEW m \in Posts, Paid(m), NEW c \in Calls, GivesUp(c)
    PROVE  Paid(m)'
  <1>1. /\ call'[c] = NoCall /\ store'.msg = store.msg
        /\ rows'[m] = rows[m] /\ clicks'[m] = clicks[m]
        /\ excused \in [Posts -> Nat] /\ Running(c)
    BY DEF GivesUp, Quietly, Ends, IInv, TypeOK
  <1>2. /\ c \notin Owed(m)' /\ Owed(m)' \subseteq Owed(m)
        /\ Unheard(m) \subseteq Unheard(m)' \union {c}
    <2>1. c \notin Owed(m)'
      BY <1>1 DEF Owed, NoCall, Past
    <2> QED
      BY <1>1, <2>1, CallsPaid
  <1>3. CASE c \in Unheard(m)
    <2>1. excused'[m] = excused[m] + 1
      BY <1>1, <1>3 DEF GivesUp, Unheard
    <2>2. clicks'[m] + excused'[m] = clicks[m] + excused[m] + 1
      BY <1>1, <2>1, Numbers
    <2>3. Cardinality(Owed(m)') <= Cardinality(Owed(m))
      BY <1>2, Numbers, NextNumbers, Counting
    <2> QED
      BY <1>1, <2>2, <2>3, Charge, Numbers, NextNumbers
  <1>4. CASE c \in Owed(m)
    <2>1. c \notin Unheard(m) /\ excused'[m] = excused[m]
      BY <1>1, <1>4 DEF Owed, Unheard, GivesUp
    <2>2. Owed(m)' \subseteq Owed(m) \ {c} /\ Unheard(m) \subseteq Unheard(m)'
      BY <1>2, <2>1
    <2>3. /\ Cardinality(Owed(m)') + 1 <= Cardinality(Owed(m))
          /\ Cardinality(Unheard(m)) <= Cardinality(Unheard(m)')
      BY <1>4, <2>2, Numbers, NextNumbers, Counting
    <2>4. Sends(m)' = Sends(m)
      BY <1>1 DEF Sends
    <2> QED
      BY <1>1, <2>1, <2>3, <2>4, Numbers, NextNumbers DEF Paid
  <1>5. CASE c \notin Owed(m) /\ c \notin Unheard(m)
    <2>1. excused'[m] = excused[m]
      BY <1>1, <1>5 DEF GivesUp, Unheard
    <2>2. call[c].pc = "validating" \/ m \notin {About(c), store.msg}
      BY <1>1, <1>5 DEF Owed, Unheard, Past, Running
    <2>3. call[c].pc = "validating" => ~(call[c].pane \in Waiting')
      BY DEF GivesUp, Waiting, OpenPanes
    <2>4. Awaiting(m)' => Awaiting(m)
      BY <1>1, <2>2, <2>3, CallsPaid
    <2> QED
      BY <1>1, <1>2, <1>5, <2>1, <2>4, Balance
  <1> QED
    BY <1>3, <1>4, <1>5

LEMMA RemountsPaid ==
    ASSUME IInv, IInv', NEW m \in Posts, Paid(m), NEW c \in Calls, Remounts(c)
    PROVE  Paid(m)'
  <1>1. /\ \A q \in Panes : ~pane'[q].open
        /\ \A q \in Panes : Uses(q) # {} => pane'[q].post = pane[q].post
        /\ store'.msg = store.msg /\ rows'[m] = rows[m] /\ clicks'[m] = clicks[m]
        /\ excused \in [Posts -> Nat]
    BY DEF Remounts, Shut, Others, OpenPanes, SameStore, IInv, TypeOK
  <1>2. ~Awaiting(m)' /\ Turn(m)' = 0
    BY <1>1 DEF Awaiting, Waiting, OpenPanes, Turn
  <1>3. CASE call' = call /\ excused' = excused
    <2>1. Owed(m)' \subseteq Owed(m) \union {} /\ Unheard(m) \subseteq Unheard(m)' \union {}
      BY <1>1, <1>3, OwedFrame
    <2> QED
      BY <1>1, <1>2, <1>3, <2>1, Balance
  <1>4. CASE /\ Becomes(c, "creating", None, store.msg)
             /\ LET again == \E d \in Calls : Past(d)
                IN  excused' = [n \in Posts |-> IF n = store.msg /\ again THEN excused[n] + 1 ELSE excused[n]]
    <2>1. /\ {c} \in SUBSET Calls /\ \A d \in Calls \ {c} : call'[d] = call[d]
          /\ \A q \in Panes : Uses(q) # {} => pane'[q].post = pane[q].post
      BY <1>1, <1>4 DEF Becomes
    <2>2. Owed(m)' \subseteq Owed(m) \union {c} /\ Unheard(m) \subseteq Unheard(m)' \union {c}
      BY <1>1, <2>1, OwedFrame
    <2>3. c \notin Unheard(m)
      BY DEF Remounts, Unheard, Running
    <2>4. CASE store.msg # m
      <3>1. c \notin Owed(m)'
        BY <1>1, <1>4, <2>4 DEF Owed, About, Becomes
      <3>2. excused'[m] = excused[m]
        BY <1>4, <2>4
      <3> QED
        BY <1>1, <1>2, <2>2, <2>3, <2>4, <3>1, <3>2, Balance
    <2>5. CASE store.msg = m /\ \E d \in Calls : Past(d)
      <3>1. excused'[m] = excused[m] + 1
        BY <1>1, <1>4, <2>5
      <3>2. clicks'[m] + excused'[m] = clicks[m] + excused[m] + 1
        BY <1>1, <3>1, Numbers
      <3>3. Cardinality(Owed(m)') <= Cardinality(Owed(m)) + 1
        BY <2>2, Numbers, NextNumbers, Counting
      <3> QED
        BY <1>1, <1>2, <3>2, <3>3, Charge, Numbers, NextNumbers
    <2>6. CASE store.msg = m /\ ~ \E d \in Calls : Past(d)
      <3>1. excused'[m] = excused[m]
        BY <1>4, <2>6
      <3>2. Owed(m) = {} /\ Unheard(m) = {}
        BY <2>6 DEF Owed, Unheard, Past
      <3>3. Cardinality(Owed(m)') <= 1 /\ Cardinality(Unheard(m)) = 0
        <4>1. Owed(m)' \subseteq {} \union {c}
          BY <2>2, <3>2
        <4>2. Cardinality({}) = 0
          BY FS_EmptySet
        <4>3. {} \in SUBSET Calls /\ Owed(m)' \in SUBSET Calls
          BY NextNumbers
        <4>4. Cardinality(Owed(m)') <= Cardinality({}) + 1
          BY <4>1, <4>3, Counting
        <4> QED
          BY <3>2, <4>2, <4>4
      <3>4. Sends(m)' = Sends(m)
        BY <1>1 DEF Sends
      <3> QED
        BY <1>1, <1>2, <2>6, <3>1, <3>3, <3>4, Numbers, NextNumbers DEF Paid
    <2> QED
      BY <2>4, <2>5, <2>6
  <1> QED
    BY <1>3, <1>4 DEF Remounts

LEMMA ReloadsPaid ==
    ASSUME IInv, IInv', NEW m \in Posts, Paid(m), NEW c \in Calls, Reloads(c)
    PROVE  Paid(m)'
  <1>1. /\ ~Awaiting(m)' /\ store' = store
        /\ rows'[m] = rows[m] /\ clicks'[m] = clicks[m]
        /\ excused'[m] = excused[m] + Cardinality(Unheard(m))
    BY DEF Reloads, Awaiting, Waiting, OpenPanes
  <1>2. Owed(m)' \subseteq {c} /\ (store.msg # m => Owed(m)' = {})
    <2>1. \A d \in Calls : d # c => ~Past(d)'
      BY DEF Reloads, NoCall, Past
    <2>2. Past(c)' => call'[c].pc = "creating" /\ About(c)' = store.msg
      BY DEF Reloads, NoCall, Past, About
    <2> QED
      BY <1>1, <2>1, <2>2 DEF Owed
  <1>3. Cardinality(Owed(m)') <= 1 /\ (store.msg # m => Cardinality(Owed(m)') = 0)
    <2>1. Owed(m)' \subseteq {} \union {c} /\ Cardinality({}) = 0
      BY <1>2, FS_EmptySet
    <2>2. Cardinality(Owed(m)') <= Cardinality({}) + 1
      BY <2>1, NextNumbers, Counting
    <2> QED
      BY <1>2, <2>1, <2>2
  <1>4. Sends(m)' = Sends(m) /\ Turn(m)' = 0
    BY <1>1 DEF Sends, Turn
  <1> QED
    BY <1>1, <1>3, <1>4, Numbers, NextNumbers DEF Paid

LEMMA PaidKept == Spec => [](IInv /\ SendInv /\ AllPaid)
  <1>1. ASSUME IInv, Init
        PROVE  AllPaid
    <2> SUFFICES ASSUME NEW m \in Posts
                 PROVE  Paid(m)
      BY DEF AllPaid
    <2>1. Owed(m) = {} /\ ~Awaiting(m) /\ Sends(m) = 0
      BY <1>1 DEF Init, Owed, Awaiting, Waiting, OpenPanes, NewPane, NoCall, Past, Sends
    <2>2. Cardinality(Owed(m)) = 0 /\ Turn(m) = 0
      BY <2>1, FS_EmptySet DEF Turn
    <2>3. store.msg # m
      BY <1>1, ReplyAssumption DEF Init, Cleared
    <2> QED
      BY <1>1, <2>1, <2>2, <2>3, Numbers DEF Paid
  <1>2. ASSUME IInv, IInv', SendInv, AllPaid, [Next]_vars
        PROVE  AllPaid'
    <2> SUFFICES ASSUME NEW m \in Posts
                 PROVE  Paid(m)'
      BY DEF AllPaid
    <2>1. Paid(m)
      BY <1>2 DEF AllPaid
    <2>2. ASSUME Idles \/ \E p \in Panes : \/ Edits(p) \/ Welcomed(p) \/ Closes({p})
                                           \/ \E n \in Posts : Opens(p, n)
          PROVE  Paid(m)'
      BY <1>2, <2>1, <2>2, ComposerPaid
    <2>3. ASSUME NEW p \in Panes, NEW c \in Calls, Submits(p, c) \/ Wakes(p, c)
          PROVE  Paid(m)'
      BY <1>2, <2>1, <2>3, SubmitsPaid, WakesPaid DEF SendInv
    <2>4. ASSUME NEW c \in Calls,
                 \/ Commits(c) \/ Goes(c) \/ GivesUp(c) \/ Drops(c)
                 \/ Delivers(c) \/ Finishes(c) \/ Resends(c)
          PROVE  Paid(m)'
      BY <1>2, <2>1, <2>4, CommitsPaid, GoesPaid, GivesUpPaid, DeliversPaid, FinishesPaid,
         ResendsPaid
    <2>5. ASSUME NEW c \in Calls, Remounts(c) \/ Reloads(c)
          PROVE  Paid(m)'
      BY <1>2, <2>1, <2>5, RemountsPaid, ReloadsPaid
    <2> QED
      BY <1>2, <2>2, <2>3, <2>4, <2>5, Effects
  <1>3. IInv /\ Init => AllPaid
    BY <1>1
  <1>4. IInv /\ IInv' /\ SendInv /\ AllPaid /\ [Next]_vars => AllPaid'
    BY <1>2
  <1> QED
    BY SendsKept, <1>3, <1>4, PTL DEF Spec

\* No reply goes out more often than Send committed it, but for the answers that were lost, the
\* refreshes that failed, the pages left before the answer came, the logins and layouts that
\* started a call on top of a running one, and the calls about another post that were on their way
\* when it was committed, each of which accounts for one more: no interleaving of calls, timer,
\* closed composers, resumed drafts and logins sends a reply a second time of itself.
THEOREM AccountedFor == Spec => []RepliesAccountedFor
  <1>1. ASSUME IInv, AllPaid
        PROVE  RepliesAccountedFor
    <2> SUFFICES ASSUME NEW m \in Posts
                 PROVE  Sends(m) <= clicks[m] + excused[m]
      BY DEF RepliesAccountedFor
    <2> QED
      BY <1>1, Numbers DEF AllPaid, Paid
  <1>2. IInv /\ SendInv /\ AllPaid => RepliesAccountedFor
    BY <1>1
  <1> QED
    BY PaidKept, <1>2, PTL


===============================================================================

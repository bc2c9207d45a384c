------------------------------- MODULE ReplyFlow -------------------------------
(***************************************************************************)
(* Replying to a post on the member site: the composer's state machine     *)
(* (composables/useReplyStateMachine.js), the persisted reply it shares    *)
(* with every other composer (stores/reply.js), the send that reads that   *)
(* store (composables/useReplyToPost.js, components/ChatButton.vue), and   *)
(* the layout, which sends a stored reply of its own accord whenever it    *)
(* mounts (components/LayoutCommon.vue).                                   *)
(*                                                                         *)
(* Everything runs in one browser tab, but nearly every step is an await:  *)
(* a call is one submit() with the handlers it goes on to, or one send by  *)
(* the layout, and calls interleave with each other, with the user and     *)
(* with the thirty second timer.  Closing the composer, or the timer,      *)
(* stops no call.                                                          *)
(*                                                                         *)
(* Each post has a poster of its own, so a post also names its poster; the *)
(* text of a reply is named by the post it was typed for.                  *)
(***************************************************************************)
EXTENDS Integers, Sequences, FiniteSets

CONSTANTS
    Posts,      \* the posts, each by its own poster
    Panes,      \* composer instances
    Calls,      \* asynchronous calls that may be in flight at once
    None,
    Banned,     \* posts whose poster the server opens no chat to (a ban)
    Faults,     \* what may go wrong (a subset of FaultKinds)
    MaxFaults,  \* how many of them, in all
    MaxClicks,  \* replies committed per post
    MaxLoads    \* page loads and layout changes

FaultKinds == {"error", "auth", "reach", "form", "button", "lost", "refresh", "expire", "age",
               "fetch"}

ASSUME ReplyAssumption ==
    /\ Banned \subseteq Posts /\ None \notin Posts \union Panes /\ IsFiniteSet(Calls)
    /\ Faults \subseteq FaultKinds
    /\ {MaxFaults, MaxClicks, MaxLoads} \subseteq Nat

VARIABLES
    me,       \* is a user loaded? (authStore.user)
    login,    \* what a login still has to set off: the watchers, the remount
    store,    \* the persisted reply store
    pane,     \* the composers
    call,     \* the calls
    known,    \* the posts this page has fetched (messageStore.list)
    rows,     \* chat_messages on the server: reply -> the posters it was written to, in order
    clicks,   \* how often Send committed a reply to the post
    excused,  \* how often the code could not know that a reply had gone, or was going
    overtaken, \* <<n, m>>: a reply to m was committed while one to n was being sent
    faults, loads

vars == <<me, login, store, pane, call, known, rows, clicks, excused, overtaken, faults, loads>>

Editing == {"IDLE", "COMPOSING", "ERROR"}
Processing == {"VALIDATING", "AUTHENTICATING", "JOINING_GROUP", "CREATING_CHAT"}
Sent == {"SHOWING_WELCOME", "COMPLETED"}
States == Editing \union Processing \union Sent
Steps == {"idle", "validating", "checking", "registering", "fetchingme", "joining",
          "creating", "opening", "answered"}

Cleared == [msg |-> None, fresh |-> TRUE, machine |-> "other", isNew |-> FALSE,
            draft |-> None]
\* A composer that is past IDLE has text in it.
NewPane(m) == [post |-> m, open |-> m # None, state |-> "IDLE", dirty |-> FALSE,
               isNew |-> FALSE, erred |-> FALSE]
NoCall == [pc |-> "idle", pane |-> None, arg |-> None]

StoreRecords == [msg : Posts \union {None}, fresh : BOOLEAN, machine : Sent \union {"other"},
                 isNew : BOOLEAN, draft : Posts \union {None}]
PaneRecords == [post : Posts \union {None}, open : BOOLEAN, state : States, dirty : BOOLEAN,
                isNew : BOOLEAN, erred : BOOLEAN]
CallRecords == [pc : Steps, pane : Panes \union {None}, arg : Posts \union {None}]

\* A call that has a chat to open has a reply to send, and only the layout's own sends, which
\* begin at replyToPost(), have no composer.
CallsInOrder ==
    \A c \in Calls :
       /\ call[c].pc = "idle" => call[c] = NoCall
       /\ call[c].pc \in {"opening", "answered"} => call[c].arg # None
       /\ call[c].pane = None => call[c].pc \in {"idle", "creating", "opening", "answered"}
       /\ call[c].pane # None => pane[call[c].pane].post # None

\* Where every value lies: which steps a call can be at, with what in hand.
TypeOK ==
    /\ me \in BOOLEAN
    /\ login \in {"quiet", "woken", "onetap", "bump"}
    /\ store \in StoreRecords
    /\ pane \in [Panes -> PaneRecords]
    /\ call \in [Calls -> CallRecords]
    /\ CallsInOrder
    /\ \A p \in Panes : (pane[p].open \/ pane[p].dirty \/ pane[p].state # "IDLE") => pane[p].post # None
    /\ rows \in [Posts -> Seq(Posts)]
    /\ clicks \in [Posts -> Nat] /\ excused \in [Posts -> Nat]
    /\ known \in SUBSET Posts /\ overtaken \in SUBSET (Posts \X Posts)
    /\ faults \in 0..MaxFaults /\ loads \in 0..MaxLoads

Init ==
    /\ me \in BOOLEAN
    /\ login = "quiet" /\ store = Cleared
    /\ pane = [p \in Panes |-> NewPane(None)]
    /\ call = [c \in Calls |-> NoCall]
    /\ rows = [m \in Posts |-> <<>>]
    /\ clicks = [m \in Posts |-> 0] /\ excused = [m \in Posts |-> 0]
    /\ known = {} /\ overtaken = {}
    /\ faults = 0 /\ loads = 0

-------------------------------------------------------------------------------
(* State formulae *)

Running(c) == call[c].pc # "idle"
Uses(p) == {c \in Calls : Running(c) /\ call[c].pane = p}
OpenPanes == {p \in Panes : pane[p].open}
About(c) == IF call[c].pane = None THEN call[c].arg ELSE pane[call[c].pane].post
ChatWith(c) == About(c)
Past(c) == call[c].pc \notin {"idle", "validating"}
\* Past its commit, with a poster to write to: only the layout's button follows the store, and
\* only until the chat is opened.
Settled(c) == Past(c) /\ (call[c].pane # None \/ call[c].pc # "creating")
Waiting == {p \in OpenPanes : pane[p].state = "AUTHENTICATING"}
Welcoming == {p \in OpenPanes : pane[p].state = "SHOWING_WELCOME"}

\* Mutant: the reply to send is not looked for.
Sendable_Blind == me /\ store.fresh
\* replyToSend: somebody is logged in, and the store holds a reply less than a day old.
Sendable == me /\ store.msg # None /\ store.fresh

Fault(f) == f \in Faults /\ faults < MaxFaults /\ faults' = faults + 1

\* persistState().  Only these two states are told apart when a reply is resumed.
Persisted(st, s, new) ==
    [st EXCEPT !.machine = IF s \in Sent THEN s ELSE "other", !.isNew = new]

\* Mutant: falling back to editing wipes the store, as finishing does.
Saved_Wipes(st, s, new) ==
    CASE s = "VALIDATING" -> st
      [] s \in {"COMPOSING", "COMPLETED"} -> Cleared
      [] OTHER -> Persisted(st, s, new)

\* transitionTo(): every state but VALIDATING is persisted, and COMPLETED wipes the store.
Saved(st, s, new) ==
    CASE s = "VALIDATING" -> st
      [] s = "COMPLETED" -> Cleared
      [] OTHER -> Persisted(st, s, new)

Moved(p, s) == [pane EXCEPT ![p].state = s, ![p].erred = @ \/ s = "ERROR"]
Enter(p, s) == pane' = Moved(p, s) /\ store' = Saved(store, s, pane[p].isNew)
Stay == UNCHANGED <<pane, store>>
Step(c, s) == call' = [call EXCEPT ![c].pc = s]
Ends(c) == call' = [call EXCEPT ![c] = NoCall]

\* Mutant: the draft is kept where the committed reply is.
Drafted_Pending(p) ==
    IF pane[p].state \in Editing THEN [store EXCEPT !.msg = pane[p].post, !.fresh = TRUE] ELSE store

\* persistDraftNow(): only while the user is editing.
Drafted(p) ==
    IF pane[p].state \in Editing THEN [store EXCEPT !.draft = pane[p].post] ELSE store

\* Unmounting flushes a draft that still waits for its timer.  The calls run on.
Unmounted(P) ==
    [p \in Panes |-> IF p \notin P THEN pane[p]
                     ELSE IF Uses(p) = {} THEN NewPane(None)
                     ELSE [pane[p] EXCEPT !.open = FALSE, !.dirty = FALSE]]
Flushed(P) == IF \E p \in P : pane[p].dirty THEN Drafted(CHOOSE p \in P : TRUE) ELSE store

\* messageStore.fetch() of a post by a page that has those of `seen`: it swallows an error or
\* a 404, and resolves with whatever the page had of the post before.
Fetches(seen, m) ==
    \/ known' = seen \union {m} /\ UNCHANGED faults
    \/ known' = seen /\ Fault("fetch")

-------------------------------------------------------------------------------
(* The composer *)

\* initialize(), on mounting: resume the saved reply, or else the draft, of this post.
OpenPane(p, m) ==
    /\ OpenPanes = {} /\ Uses(p) = {}
    /\ LET resumed == IF store.machine \in Sent THEN store.machine ELSE "COMPOSING"
           at(s, new) == [NewPane(m) EXCEPT !.state = s, !.dirty = TRUE, !.isNew = new]
       IN  \/ /\ store.msg = m /\ (~store.fresh \/ resumed = "COMPLETED")
              /\ pane' = [pane EXCEPT ![p] = NewPane(m)] /\ store' = Cleared
           \/ /\ store.msg = m /\ store.fresh /\ resumed # "COMPLETED"
              /\ LET new == store.isNew \/ resumed = "SHOWING_WELCOME"
                 IN  pane' = [pane EXCEPT ![p] = at(resumed, new)] /\ store' = Saved(store, resumed, new)
           \/ /\ store.msg # m /\ store.draft = m
              /\ \/ /\ pane' = [pane EXCEPT ![p] = at("COMPOSING", FALSE)]
                    /\ store' = Saved(store, "COMPOSING", FALSE)
                 \/ \* The draft is more than a day old.
                    /\ pane' = [pane EXCEPT ![p] = NewPane(m)]
                    /\ store' = [store EXCEPT !.draft = None]
           \/ /\ m \notin {store.msg, store.draft}
              /\ pane' = [pane EXCEPT ![p] = NewPane(m)] /\ store' = store
    /\ Fetches(known, m)
    /\ UNCHANGED <<me, login, call, rows, clicks, excused, overtaken, loads>>

\* Typing: the input handler calls startTyping(), the watcher arms the draft timer.
Type(p) ==
    /\ pane[p].open /\ pane[p].state \in Editing /\ ~pane[p].dirty
    /\ LET s == IF pane[p].state = "IDLE" THEN "COMPOSING" ELSE pane[p].state
       IN  /\ pane' = [pane EXCEPT ![p].dirty = TRUE, ![p].state = s]
           /\ store' = IF s = pane[p].state THEN store ELSE Saved(store, s, pane[p].isNew)
    /\ UNCHANGED <<me, login, call, known, rows, clicks, excused, overtaken, faults, loads>>

PersistDraft(p) ==
    /\ pane[p].dirty
    /\ store' = Drafted(p)
    /\ pane' = [pane EXCEPT ![p].dirty = FALSE]
    /\ UNCHANGED <<me, login, call, known, rows, clicks, excused, overtaken, faults, loads>>

Close(p) ==
    /\ pane[p].open
    /\ store' = Flushed({p}) /\ pane' = Unmounted({p})
    /\ UNCHANGED <<me, login, call, known, rows, clicks, excused, overtaken, faults, loads>>

\* retry(): offered as long as an error is shown, whatever the state has become since.
Retry(p) ==
    /\ pane[p].open /\ pane[p].erred
    /\ pane' = [pane EXCEPT ![p].state = "COMPOSING", ![p].erred = FALSE]
    /\ store' = Saved(store, "COMPOSING", pane[p].isNew)
    /\ UNCHANGED <<me, login, call, known, rows, clicks, excused, overtaken, faults, loads>>

CloseWelcome(p) ==
    /\ pane[p].open /\ pane[p].state = "SHOWING_WELCOME"
    /\ Enter(p, "COMPLETED")
    /\ UNCHANGED <<me, login, call, known, rows, clicks, excused, overtaken, faults, loads>>

\* The thirty second timer that every processing state arms.
TimesOut(p) ==
    /\ pane[p].state \in Processing
    /\ Enter(p, "COMPOSING")
    /\ UNCHANGED <<me, login, call, known, rows, clicks, excused, overtaken, faults, loads>>

-------------------------------------------------------------------------------
(* Sending.  A call writes the pane's state whatever that has become since. *)

\* What a handler's catch block makes of an error: the reach gate, an expired session, the rest.
Fails(c, other) ==
    /\ \/ /\ Fault("reach")
          /\ IF call[c].pane = None THEN Stay ELSE Enter(call[c].pane, "ERROR")
       \/ /\ Fault("auth")
          /\ IF call[c].pane = None THEN Stay ELSE Enter(call[c].pane, "AUTHENTICATING")
       \/ /\ Fault("error")
          /\ IF call[c].pane = None \/ other = "same" THEN Stay ELSE Enter(call[c].pane, other)
    /\ Ends(c)

\* handleJoinGroup() begins by checking that somebody is logged in.
JoinsAs(c, p, user, panes, st) ==
    LET s == IF user THEN "JOINING_GROUP" ELSE "AUTHENTICATING"
    IN  /\ pane' = [panes EXCEPT ![p].state = s]
        /\ store' = Saved(st, s, panes[p].isNew)
        /\ call' = [call EXCEPT ![c] = IF user THEN [NoCall EXCEPT !.pc = "joining", !.pane = p]
                                       ELSE NoCall]

\* submit(): the Send button is disabled unless the state can send.
Submit(p, c) ==
    /\ pane[p].open /\ pane[p].state \in Editing \ {"IDLE"} /\ ~Running(c)
    /\ clicks[pane[p].post] < MaxClicks
    /\ Enter(p, "VALIDATING")
    /\ call' = [call EXCEPT ![c] = [NoCall EXCEPT !.pc = "validating", !.pane = p]]
    /\ UNCHANGED <<me, login, known, rows, clicks, excused, overtaken, faults, loads>>

\* Mutant: a reply that is already waiting is not replaced.
Committed_First(p) ==
    LET st == IF store.msg = None THEN [store EXCEPT !.msg = pane[p].post, !.fresh = TRUE] ELSE store
    IN  Persisted(st, pane[p].state, pane[p].isNew)

\* saveReplyToStore(): the store has room for one reply.
Committed(p) ==
    Persisted([store EXCEPT !.msg = pane[p].post, !.fresh = TRUE], pane[p].state, pane[p].isNew)

\* The calls and the composers that a reply to m overtakes as it is committed have committed a
\* reply to another post, and go on to read, or to clear, a store that now holds this one.
Overtakes(m) ==
    LET behind == {About(d) : d \in {d \in Calls : Settled(d)}}
                    \union {pane[q].post : q \in Waiting \union Welcoming}
        may == {d \in Calls : Past(d) /\ About(d) # m}
        wait == \E q \in Waiting : Uses(q) = {} /\ pane[q].post # m
    IN  /\ overtaken' = overtaken \union ((behind \ {m}) \X {m})
        /\ excused' = [excused EXCEPT ![m] = @ + Cardinality(may) + IF wait THEN 1 ELSE 0]

\* Once the form is valid, the reply is committed; then join, or look at the e-mail address.
Validated(c) ==
    /\ call[c].pc = "validating"
    /\ LET p == call[c].pane
           kept == Committed(p)
       IN  \/ /\ clicks' = [clicks EXCEPT ![pane[p].post] = @ + 1] /\ Overtakes(pane[p].post)
              /\ \/ me /\ JoinsAs(c, p, me, pane, kept)
                 \/ ~me /\ store' = kept /\ Step(c, "checking") /\ UNCHANGED pane
              /\ UNCHANGED faults
           \/ /\ Enter(p, "COMPOSING") /\ Ends(c)
              /\ UNCHANGED <<clicks, excused, overtaken, faults>>
           \/ /\ Fault("form")
              /\ Enter(p, "COMPOSING") /\ Ends(c) /\ UNCHANGED <<clicks, excused, overtaken>>
    /\ UNCHANGED <<me, login, known, rows, loads>>

CheckEmail(c) ==
    /\ call[c].pc = "checking"
    /\ \/ Enter(call[c].pane, "AUTHENTICATING") /\ Step(c, "registering")
       \/ Enter(call[c].pane, "COMPOSING") /\ Ends(c)
    /\ UNCHANGED <<me, login, known, rows, clicks, excused, overtaken, faults, loads>>

\* handleAuthentication(): a new account goes on to fetchMe(), a known address must log in.
Register(c) ==
    /\ call[c].pc = "registering"
    /\ LET p == call[c].pane
       IN  \/ /\ pane' = [pane EXCEPT ![p].isNew = TRUE, ![p].state = "JOINING_GROUP"]
              /\ store' = Saved(store, "JOINING_GROUP", TRUE)
              /\ Step(c, "fetchingme") /\ UNCHANGED faults
           \/ Stay /\ Ends(c) /\ UNCHANGED faults
           \/ Fails(c, "same")
    /\ UNCHANGED <<me, login, known, rows, clicks, excused, overtaken, loads>>

FetchMe(c) ==
    /\ call[c].pc = "fetchingme"
    /\ \/ /\ me' = TRUE
          /\ login' = IF me THEN login ELSE "woken"
          /\ JoinsAs(c, call[c].pane, TRUE, pane, store) /\ UNCHANGED faults
       \/ Fails(c, "same") /\ UNCHANGED <<me, login>>
    /\ UNCHANGED <<known, rows, clicks, excused, overtaken, loads>>

\* The rest of handleJoinGroup(): fetch the post, without which it goes no further, and join a
\* community of its if need be.
JoinGroup(c) ==
    /\ call[c].pc = "joining"
    /\ \/ /\ Enter(call[c].pane, "CREATING_CHAT") /\ Step(c, "creating")
          /\ known' = known \union {About(c)} /\ UNCHANGED faults
       \/ Fails(c, "ERROR") /\ UNCHANGED known
    /\ UNCHANGED <<me, login, rows, clicks, excused, overtaken, loads>>

\* Mutant: a send that had nothing to send counts as sent.
NothingSent_Done(p) == IF p = None THEN Stay ELSE Enter(p, "COMPLETED")
\* replyToPost() returned null.
NothingSent(p) == IF p = None THEN Stay ELSE Enter(p, "ERROR")

\* Mutant: only the draft is forgotten.
Forgotten_Draft(m) == [store EXCEPT !.draft = IF @ = m THEN None ELSE @]
\* The store forgets whatever reply it holds, and the draft if it was for the post replied to.
Forgotten(m) ==
    [store EXCEPT !.msg = None, !.fresh = TRUE, !.draft = IF @ = m THEN None ELSE @]

\* replyToPost(): what goes out is what the store holds by now, to the button's own user.  The
\* layout's button has no user when the page has not got the post: openChat() then does nothing,
\* and the reply is forgotten as if it had gone.
CreateChat(c) ==
    /\ call[c].pc = "creating"
    /\ LET p == call[c].pane
       IN  \/ /\ Sendable /\ (p = None => store.msg \in known)
              /\ call' = [call EXCEPT ![c].pc = "opening", ![c].arg = store.msg]
              /\ Stay /\ UNCHANGED faults
           \/ /\ Sendable /\ p = None /\ store.msg \notin known
              /\ store' = Forgotten(store.msg) /\ Ends(c) /\ UNCHANGED <<pane, faults>>
           \/ ~Sendable /\ NothingSent(p) /\ Ends(c) /\ UNCHANGED faults
           \/ /\ Fault("button")
              /\ IF p = None THEN Stay ELSE Enter(p, "COMPOSING")
              /\ Ends(c)
    /\ UNCHANGED <<me, login, known, rows, clicks, excused, overtaken, loads>>

\* After openChat(): the store forgets the reply, and only then does the machine move on.
Finish(c) ==
    /\ LET p == call[c].pane
           st == Forgotten(call[c].arg)
           s == IF pane[p].isNew THEN "SHOWING_WELCOME" ELSE "COMPLETED"
       IN  \/ p = None /\ store' = st /\ UNCHANGED pane
           \/ p # None /\ pane' = Moved(p, s) /\ store' = Saved(st, s, pane[p].isNew)
    /\ Ends(c)

\* openChat(): open the chat, then post the message to it.  A ban is swallowed, and looks
\* like a send.
OpenChat(c) ==
    /\ call[c].pc = "opening"
    /\ \/ /\ ChatWith(c) \notin Banned
          /\ rows' = [rows EXCEPT ![call[c].arg] = Append(@, ChatWith(c))]
          /\ Step(c, "answered") /\ Stay /\ UNCHANGED faults
       \/ ChatWith(c) \in Banned /\ Finish(c) /\ UNCHANGED <<rows, faults>>
       \/ Fails(c, "ERROR") /\ UNCHANGED rows
    /\ UNCHANGED <<me, login, known, clicks, excused, overtaken, loads>>

\* The message is on the server.  Its answer may be lost, and then useFetchRetry() posts it
\* again; and an error of the fetchMessages() that follows fails a reply that has gone.
Answer(c) ==
    /\ call[c].pc = "answered"
    /\ \/ Finish(c) /\ UNCHANGED <<excused, faults>>
       \/ /\ \/ Fault("lost") /\ Step(c, "opening") /\ Stay
             \/ "refresh" \in Faults /\ Fails(c, "ERROR")
          /\ excused' = [excused EXCEPT ![call[c].arg] = @ + 1]
    /\ UNCHANGED <<me, login, known, rows, clicks, overtaken, loads>>

-------------------------------------------------------------------------------
(* Logging in and out, the layout, time *)

\* A login by the form, or by Google One Tap, which afterwards remounts the whole layout.
Login(how) ==
    /\ ~me /\ login = "quiet"
    /\ me' = TRUE /\ login' = how
    /\ UNCHANGED <<store, pane, call, known, rows, clicks, excused, overtaken, faults, loads>>

\* ChatReplyPane's watcher on `me`: an open composer that waits for a login goes on.
WakePane(c) ==
    /\ login \in {"woken", "onetap"} /\ ~Running(c)
    /\ login' = IF login = "onetap" THEN "bump" ELSE "quiet"
    /\ \/ Waiting = {} /\ Stay /\ UNCHANGED <<call, excused>>
       \/ \E p \in Waiting :
            /\ JoinsAs(c, p, me, pane, store)
            /\ excused' = [m \in Posts |-> IF Uses(p) # {} /\ m \in {pane[p].post, store.msg}
                                           THEN excused[m] + 1 ELSE excused[m]]
    /\ UNCHANGED <<me, known, rows, clicks, overtaken, faults, loads>>

SessionEnds ==
    /\ me /\ Fault("expire")
    /\ me' = FALSE /\ login' = "quiet"
    /\ UNCHANGED <<store, pane, call, known, rows, clicks, excused, overtaken, loads>>

\* LayoutCommon's onMounted(): the post is fetched, and a stored reply to it is sent without
\* being asked for again.
Mounts(c, user, calls, seen, st) ==
    IF user /\ st.msg # None /\ st.fresh
    THEN /\ call' = [calls EXCEPT ![c] = [pc |-> "creating", pane |-> None, arg |-> st.msg]]
         /\ Fetches(seen, st.msg)
    ELSE call' = calls /\ known' = seen /\ UNCHANGED faults

\* Another layout, or the same one remounted: composers close, calls run on.
Remount(c) ==
    /\ ~Running(c) /\ loads < MaxLoads
    /\ login \in {"quiet", "bump"}
    /\ login' = "quiet" /\ loads' = loads + 1
    /\ store' = Flushed(OpenPanes) /\ pane' = Unmounted(OpenPanes)
    /\ Mounts(c, me, call, known, store)
    /\ LET again == \E d \in Calls : Past(d)
       IN  excused' = [m \in Posts |-> IF m = store.msg /\ Sendable /\ again
                                       THEN excused[m] + 1 ELSE excused[m]]
    /\ UNCHANGED <<me, rows, clicks, overtaken>>

\* A page load: what is in memory is gone, what the stores persist is not.
Reload(c, user) ==
    /\ loads < MaxLoads /\ loads' = loads + 1
    /\ user => me
    /\ me' = user /\ login' = "quiet"
    /\ pane' = [p \in Panes |-> NewPane(None)]
    /\ Mounts(c, user, [d \in Calls |-> NoCall], {}, store)
    /\ excused' = [m \in Posts |-> excused[m]
                        + Cardinality({d \in Calls : call[d].pc = "answered" /\ call[d].arg = m})]
    /\ UNCHANGED <<store, rows, clicks, overtaken>>

\* Twenty-four hours pass.
Age ==
    /\ store.msg # None /\ store.fresh /\ Fault("age")
    /\ store' = [store EXCEPT !.fresh = FALSE]
    /\ UNCHANGED <<me, login, pane, call, known, rows, clicks, excused, overtaken, loads>>

-------------------------------------------------------------------------------
User(p) ==
    \/ \E m \in Posts : OpenPane(p, m)
    \/ Type(p) \/ Close(p) \/ Retry(p) \/ CloseWelcome(p)
    \/ \E c \in Calls : Submit(p, c)

Timers(p) == PersistDraft(p) \/ TimesOut(p)

Continue(c) ==
    \/ Validated(c) \/ CheckEmail(c) \/ Register(c) \/ FetchMe(c) \/ JoinGroup(c)
    \/ CreateChat(c) \/ OpenChat(c) \/ Answer(c) \/ WakePane(c)

World ==
    \/ \E how \in {"woken", "onetap"} : Login(how)
    \/ SessionEnds \/ Age
    \/ \E c \in Calls : Remount(c) \/ \E user \in BOOLEAN : Reload(c, user)

Next ==
    \/ \E p \in Panes : User(p) \/ Timers(p)
    \/ \E c \in Calls : Continue(c)
    \/ World

Spec == Init /\ [][Next]_vars

-------------------------------------------------------------------------------
(* Properties *)

\* The rows that carry the reply to m, whoever they went to.
Sends(m) == Len(rows[m])

\* The poster of m has the reply, or would have it but for a ban.
Reached(m) == m \in Banned \/ \E i \in DOMAIN rows[m] : rows[m][i] = m

\* Only what the user pressed Send for is ever sent: a draft never is (stores/reply.js:44).
NeverUnasked == \A m \in Posts : Sends(m) > 0 => clicks[m] > 0

\* Replies to m and to another post have been on their way at once.
Mixed(m) == \E n \in Posts : {<<n, m>>, <<m, n>>} \cap overtaken # {}

\* A reply to m goes to its own poster, and to the poster of n only if it was committed while a
\* reply to n was being sent: the text comes from the shared store, the recipient from the
\* composer's button.
RightPoster ==
    \A m \in Posts : \A i \in DOMAIN rows[m] : rows[m][i] = m \/ <<rows[m][i], m>> \in overtaken

\* A reply goes out more often than Send committed it only when an answer was lost, the
\* refresh after the send failed, the page was left in between, a login or the layout
\* started a second call on top of one still running, or calls about another post were on
\* their way when it was committed, at most once for each of them.
RepliesAccountedFor == \A m \in Posts : Sends(m) <= clicks[m] + excused[m]

\* A composer that says the reply has gone is right, but for a ban, which it hides on purpose,
\* and for a reply to another post that overtook its own.
AcknowledgedWasSent ==
    \A p \in Panes : pane[p].state \in Sent => Reached(pane[p].post) \/ Mixed(pane[p].post)

\* The layout is about to send a reply on a page that has not got the post.
Unaddressed(m) == m \notin known /\ \E c \in Calls : call[c].pane = None /\ call[c].pc = "creating"

\* A committed reply leaves the store only when it has gone, was replaced by another, is
\* more than a day old, was mixed up with another, or when the layout does not know whom to
\* send it to: no timer, error, closed composer, welcome or resumed draft drops it.
CommittedKept ==
    [][\A m \in Posts : store.msg = m /\ store'.msg # m =>
        Reached(m) \/ store'.msg # None \/ ~store.fresh \/ Mixed(m) \/ Unaddressed(m)]_vars

\* One press of Send sends one reply.
SentOncePerClick == \A m \in Posts : Sends(m) <= clicks[m]
===============================================================================

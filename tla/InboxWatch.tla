----------------------------- MODULE InboxWatch -----------------------------
(***************************************************************************)
(* How a change of the mailbox reaches the teammates that wait for one:    *)
(* persist_team_state_and_publish_mailbox and watch_inbox                  *)
(* (core/src/agent/team_runtime.rs).                                       *)
(*                                                                         *)
(* The version lives twice: under the lock of the team state, and in a     *)
(* watch channel that publish_mailbox_version brings up to date in three   *)
(* steps.  The channel has no receivers but those of the watches under     *)
(* way, and what is sent while there is none is not stored.  A watch       *)
(* returns a version that its caller passes to the next one as             *)
(* after_version.                                                          *)
(*                                                                         *)
(* Change number v of the mailbox makes version v (Mailbox.tla shows that  *)
(* every change raises it).  A peek shows the changes made so far.         *)
(* Left out: clear_state, which starts the versions again, nudges that     *)
(* expire in a peek, and unread_only, which hides what was shown before.   *)
(***************************************************************************)
EXTENDS Naturals, FiniteSets

CONSTANTS
  Poster,        \* calls that change the mailbox
  Watcher,       \* teammates that call watch_inbox in a row
  Interruptible, \* those of either whose call may be interrupted
  MaxChanges,    \* bound: changes of the mailbox
  MaxWatches     \* bound: calls of watch_inbox of one teammate

ASSUME WatchConstantsOK ==
  /\ Poster \cap Watcher = {} /\ Interruptible \subseteq Poster \cup Watcher
  /\ MaxChanges \in Nat
  /\ MaxWatches \in Nat

Process == Poster \cup Watcher

VARIABLES
  mailboxVersion,  \* TeamState.mailbox_version
  published,       \* the value of mailbox_version_tx
  pc,              \* where every process is
  carried,         \* the version a process read in order to publish it
  receivers,       \* the watchers that have subscribed to it
  unseen,          \* those of them that have not seen the last value sent
  after,           \* after_version, the cursor each teammate has
  news,            \* the version that made a watch return
  shown,           \* the changes made before the last peek of each teammate
  watches,         \* calls so far
  missed,          \* history: the last change whose publication was over, or given up,
                   \* before the teammate subscribed, or its cursor
  hindered         \* history: receivers to which a change is not announced since, because
                   \* a call was interrupted or an older version came after a later one

watchVars == <<mailboxVersion, published, pc, carried, receivers, unseen, after, news, shown,
               watches, missed, hindered>>
channel == <<published, receivers, unseen>>
reader == <<after, news, shown, watches>>
history == <<missed, hindered>>

WatchInit ==
  /\ mailboxVersion = 0
  /\ published = 0
  /\ pc = [p \in Process |-> "idle"]
  /\ carried = [p \in Process |-> 0]
  /\ receivers = {} /\ unseen = {}
  /\ after = [w \in Watcher |-> 0]
  /\ news = [w \in Watcher |-> 0]
  /\ shown = [w \in Watcher |-> 0]
  /\ watches = [w \in Watcher |-> 0]
  /\ missed = [w \in Watcher |-> 0] /\ hindered = {}

At(p, place) == pc[p] = place
Goto(p, place) == pc' = [pc EXCEPT ![p] = place]

\* Some call is about to publish a version later than v.
Announces(v) ==
  \E p \in Process :
    \/ At(p, "readVersion") /\ mailboxVersion > v
    \/ pc[p] \in {"compare", "send"} /\ carried[p] > v

-----------------------------------------------------------------------------
(* Publishing, after a change or a peek was saved *)

Change(p) ==
  /\ At(p, "idle") /\ mailboxVersion < MaxChanges
  /\ mailboxVersion' = mailboxVersion + 1
  /\ Goto(p, "readVersion")
  /\ UNCHANGED <<channel, carried, reader, history>>

\* Fault: the version is read before the change is made, not after.
ReadBefore(p) ==
  /\ At(p, "readVersion")
  /\ carried' = [carried EXCEPT ![p] = mailboxVersion - 1]
  /\ Goto(p, "compare")
  /\ UNCHANGED <<mailboxVersion, channel, reader, history>>

ReadVersion(p) ==
  /\ At(p, "readVersion")
  /\ carried' = [carried EXCEPT ![p] = mailboxVersion]
  /\ Goto(p, "compare")
  /\ UNCHANGED <<mailboxVersion, channel, reader, history>>

Published(p) == IF p \in Watcher THEN "return" ELSE "idle"

ComparePublished(p) ==
  /\ At(p, "compare")
  /\ Goto(p, IF published # carried[p] THEN "send" ELSE Published(p))
  /\ UNCHANGED <<mailboxVersion, channel, carried, reader, history>>

\* send stores the value and marks every receiver; without a receiver it fails, and the
\* channel keeps the old value.
SendVersion(p) ==
  /\ At(p, "send")
  /\ IF receivers # {}
     THEN /\ published' = carried[p] /\ unseen' = receivers
          /\ hindered' = hindered \cup
               {w \in receivers : published > after[w] /\ carried[p] <= after[w]}
     ELSE UNCHANGED <<published, unseen, hindered>>
  /\ Goto(p, Published(p))
  /\ UNCHANGED <<mailboxVersion, receivers, carried, reader, missed>>

\* The receiver of a watch lives as long as the call.
DropReceiver(p) ==
  /\ receivers' = receivers \ {p} /\ unseen' = unseen \ {p}
  /\ UNCHANGED published

\* The call is interrupted while the state is saved, before anything is published.
AbandonSave(p) ==
  /\ At(p, "readVersion")
  /\ Goto(p, "idle")
  /\ DropReceiver(p)
  /\ hindered' = {w \in receivers' : w \in hindered \/ mailboxVersion > after[w]}
  /\ UNCHANGED <<mailboxVersion, carried, reader, missed>>

-----------------------------------------------------------------------------
(* watch_inbox *)

StartWatch(w) ==
  /\ At(w, "idle") /\ watches[w] < MaxWatches
  /\ watches' = [watches EXCEPT ![w] = @ + 1]
  /\ IF mailboxVersion > after[w]
     THEN Goto(w, "peek") /\ news' = [news EXCEPT ![w] = mailboxVersion]
     ELSE Goto(w, "subscribe") /\ UNCHANGED news
  /\ UNCHANGED <<mailboxVersion, channel, carried, after, shown, history>>

\* A new receiver has seen the present value.
Subscribe(w) ==
  /\ At(w, "subscribe")
  /\ receivers' = receivers \cup {w} /\ unseen' = unseen \ {w}
  /\ missed' = [missed EXCEPT ![w] = IF published > after[w] \/ Announces(after[w])
                                    THEN after[w] ELSE mailboxVersion]
  /\ hindered' = hindered \ {w}
  /\ Goto(w, "checkPublished")
  /\ UNCHANGED <<mailboxVersion, published, carried, reader>>

\* Fault: the channel is not looked at between subscribing and waiting.
WaitUnchecked(w) ==
  /\ At(w, "checkPublished")
  /\ Goto(w, "wait")
  /\ UNCHANGED <<mailboxVersion, channel, carried, reader, history>>

CheckPublished(w) ==
  /\ At(w, "checkPublished")
  /\ IF published > after[w]
     THEN Goto(w, "peek") /\ news' = [news EXCEPT ![w] = published]
     ELSE Goto(w, "wait") /\ UNCHANGED news
  /\ UNCHANGED <<mailboxVersion, channel, carried, after, shown, watches, history>>

Woken(w) ==
  /\ At(w, "wait") /\ w \in unseen
  /\ unseen' = unseen \ {w}
  /\ IF published > after[w]
     THEN Goto(w, "peek") /\ news' = [news EXCEPT ![w] = published]
     ELSE UNCHANGED <<pc, news>>
  /\ UNCHANGED <<mailboxVersion, published, receivers, carried, after, shown, watches, history>>

\* A watch that runs out of time reads the version and shows nothing.
TimesOut(w) ==
  /\ At(w, "wait")
  /\ after' = [after EXCEPT ![w] = mailboxVersion]
  /\ Goto(w, "idle")
  /\ DropReceiver(w)
  /\ UNCHANGED <<mailboxVersion, carried, news, shown, watches, history>>

\* The turn of a teammate is interrupted while it waits.
AbandonWait(w) ==
  /\ At(w, "wait")
  /\ Goto(w, "idle")
  /\ DropReceiver(w)
  /\ UNCHANGED <<mailboxVersion, carried, reader, history>>

\* Fault: what was shown is what the channel announced, not the state under the lock.
PeekAnnounced(w) ==
  /\ At(w, "peek")
  /\ shown' = [shown EXCEPT ![w] = published]
  /\ Goto(w, "readVersion")
  /\ UNCHANGED <<mailboxVersion, channel, carried, after, news, watches, history>>

PeekInbox(w) ==
  /\ At(w, "peek")
  /\ shown' = [shown EXCEPT ![w] = mailboxVersion]
  /\ Goto(w, "readVersion")
  /\ UNCHANGED <<mailboxVersion, channel, carried, after, news, watches, history>>

\* The version is read again, after the peek was saved and published.
ReturnVersion(w) ==
  /\ At(w, "return")
  /\ after' = [after EXCEPT ![w] = mailboxVersion]
  /\ Goto(w, "idle")
  /\ DropReceiver(w)
  /\ UNCHANGED <<mailboxVersion, carried, news, shown, watches, history>>

-----------------------------------------------------------------------------
Publishing(p) == ReadVersion(p) \/ ComparePublished(p) \/ SendVersion(p)
Watching(w) ==
  Subscribe(w) \/ CheckPublished(w) \/ Woken(w) \/ PeekInbox(w) \/ ReturnVersion(w)

WatchNext ==
  \/ \E p \in Poster : Change(p)
  \/ \E p \in Interruptible : AbandonSave(p)
  \/ \E w \in Interruptible \cap Watcher : AbandonWait(w)
  \/ \E p \in Process : Publishing(p)
  \/ \E w \in Watcher : StartWatch(w) \/ Watching(w) \/ TimesOut(w)

WatchSpec == WatchInit /\ [][WatchNext]_watchVars

\* A call goes on until it returns, and may be interrupted only where it waits.  Nobody
\* has to change the mailbox or to watch it, and no watch has to run out of time.
Fairness ==
  /\ \A p \in Process : WF_watchVars(Publishing(p))
  /\ \A w \in Watcher : WF_watchVars(Watching(w))
FairSpec == WatchSpec /\ Fairness

-----------------------------------------------------------------------------
(* What teammates rely on *)

Place ==
  {"idle", "readVersion", "compare", "send", "subscribe", "checkPublished", "wait", "peek",
   "return"}
WatchTypeOK ==
  /\ mailboxVersion \in Nat /\ published \in 0..mailboxVersion
  /\ pc \in [Process -> Place]
  /\ carried \in [Process -> 0..mailboxVersion]
  /\ receivers \subseteq Watcher /\ unseen \subseteq receivers
  /\ after \in [Watcher -> Nat] /\ news \in [Watcher -> Nat]
  /\ shown \in [Watcher -> Nat] /\ watches \in [Watcher -> Nat]
  /\ missed \in [Watcher -> Nat] /\ hindered \subseteq Watcher

\* When the news of a version makes a watch return, the messages returned include every
\* change up to that version, however many versions were published since, and in which
\* order.
NewsIsShown ==
  /\ WatchTypeOK
  /\ \A w \in Watcher :
       pc[w] \in {"readVersion", "compare", "send", "return"} => news[w] <= shown[w]

\* What a teammate that waits is told of.  A change it has not seen is on its way to it:
\* its receiver was marked with a version it does not have, or some call is about to
\* publish one.  The exceptions are named: the change was published, or given up, before
\* the teammate subscribed (after its first look, when nobody was there to receive it and
\* the channel had nothing to show to its second look), or the channel was set back, or an
\* interrupted call left the change unpublished.
WaitersAreWoken ==
  \A w \in Watcher :
    At(w, "wait") /\ mailboxVersion > missed[w] =>
      \/ w \in unseen /\ published > after[w]
      \/ Announces(after[w])
      \/ w \in hindered

\* Such a change wakes the teammate in the end, without the help of the timeout, unless an
\* interrupted call or versions sent in the wrong order hinder it.
ChangeWakesWatcher ==
  \A w \in Watcher :
    At(w, "wait") /\ mailboxVersion > missed[w] ~> ~At(w, "wait") \/ w \in hindered
=============================================================================

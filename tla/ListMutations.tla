--------------------------- MODULE ListMutations ---------------------------
(***************************************************************************)
(* Every writer of the allowlist (prefs.whitelist in storage.sync): the    *)
(* worker's ADD_TO_WHITELIST handler and migratePerSiteDisableToAllowlist, *)
(* serialised by enqueueListMutation (lib/list-mutation-queue.js); the     *)
(* Settings page's addEntry and removeEntry, serialised among themselves   *)
(* by withSyncMutation (options/sync-mutation.js); and the popup's pause   *)
(* button, which writes from the preferences it has rendered.              *)
(*                                                                         *)
(* The list is stored whole: each edit reads it, awaits, and writes it.    *)
(***************************************************************************)
EXTENDS Naturals, Sequences, SequencesExt

CONSTANTS
    Entry,       \* list entries: bare domains, none covering another
    Users,       \* who edits: "page", "migration", "options", "popup"
    Faulty,      \* storage calls that may fail: "read", "write"
    Cap,         \* IMPORT_LIST_CAPS.whitelist
    MaxEdits,    \* bound: edits asked for
    MaxFaults    \* bound: failed storage calls

VARIABLES
    list,     \* prefs.whitelist, a sequence without duplicates
    legacy,   \* sites with a ::disabled entry in prefs.blacklist
    queue,    \* the worker's queue of tasks
    options,  \* the Settings page's queue of tasks
    rendered, \* the list Settings shows, whose row numbers removeEntry is given
    popup,    \* the list the popup renders from
    edits,    \* edits asked for so far
    told,     \* entries the page was told were added (ok: true)
    unguarded, \* history: edits under way that no queue keeps apart, or an edit
               \* asked from, or made to, a list that is not the stored one
    faults

vars == <<list, legacy, queue, options, rendered, popup, edits, told, unguarded,
          faults>>

-----------------------------------------------------------------------------
\* A task reads the list it will write from and then writes.
Task(edit) == [edit |-> edit, pc |-> "reading", row |-> 0, seen |-> <<>>,
               seenLegacy |-> {}]

Lists == {s \in SeqOf(Entry, 2) : IsInjective(s)}

Init ==
    /\ list \in Lists
    /\ legacy \in IF "migration" \in Users THEN {{}} \cup {{e} : e \in Entry} ELSE {{}}
    /\ queue = <<>> /\ options = <<>>
    /\ rendered = list /\ popup = list
    /\ edits = 0 /\ told = {} /\ unguarded = FALSE /\ faults = 0

WorkerIdle == queue = <<>>
OptionsIdle == options = <<>>

\* An edit is asked for; once all have settled the history starts afresh.
NewEdit(unsafe) ==
    /\ edits < MaxEdits /\ edits' = edits + 1
    /\ unguarded' = (unsafe \/ (unguarded /\ ~(WorkerIdle /\ OptionsIdle)))

\* A storage call may fail.
Fails(call) == call \in Faulty /\ faults < MaxFaults /\ faults' = faults + 1

-----------------------------------------------------------------------------
(* The worker: enqueueListMutation and the tasks it runs.                  *)

EveryTask(i) == TRUE

PoisonedChain(i) == i = 1 /\ faults = 0

\* Each task runs once every earlier one has settled.
Runs(i) == i = 1

Enqueue(edit) == queue' = Append(queue, Task(edit))

\* ADD_TO_WHITELIST from a tab.
AddToWhitelist(e) ==
    /\ "page" \in Users /\ NewEdit(~OptionsIdle)
    /\ Enqueue([id |-> edits, kind |-> "add", entry |-> e])
    /\ UNCHANGED <<list, legacy, options, rendered, popup, told, faults>>

\* runOneTimeMigrations: migratePerSiteDisableToAllowlist.
StartMigration ==
    /\ "migration" \in Users /\ NewEdit(~OptionsIdle)
    /\ Enqueue([id |-> edits, kind |-> "migrate"])
    /\ UNCHANGED <<list, legacy, options, rendered, popup, told, faults>>

ReadAs(i, l, m) ==
    queue' = [queue EXCEPT ![i].pc = "writing", ![i].seen = l, ![i].seenLegacy = m]

\* getPrefs, and the migration's own read, answer a failure with empty lists.
TaskRead(i) ==
    /\ Runs(i) /\ queue[i].pc = "reading"
    /\ \/ ReadAs(i, list, legacy) /\ UNCHANGED <<unguarded, faults>>
       \/ Fails("read") /\ ReadAs(i, <<>>, {}) /\ unguarded' = TRUE
    /\ UNCHANGED <<list, legacy, options, rendered, popup, edits, told>>

Finish(i) == queue' = RemoveAt(queue, i)

\* The entry goes at the end of the list as read, unless it is there; a failed
\* write (setPrefs resolves false) gets the same reply.
AddWrite(i) ==
    /\ Runs(i) /\ queue[i].pc = "writing" /\ queue[i].edit.kind = "add"
    /\ LET e == queue[i].edit.entry
           seen == queue[i].seen
       IN /\ \/ e \in ToSet(seen) /\ UNCHANGED <<list, faults>>
             \/ e \notin ToSet(seen) /\ list' = Append(seen, e) /\ UNCHANGED faults
             \/ e \notin ToSet(seen) /\ Fails("write") /\ UNCHANGED list
          /\ told' = told \cup {e}
    /\ Finish(i)
    /\ UNCHANGED <<unguarded, legacy, options, rendered, popup, edits>>

\* The markers found become entries, those covered already dropped.
MigrateWrite(i) ==
    /\ Runs(i) /\ queue[i].pc = "writing" /\ queue[i].edit.kind = "migrate"
    /\ LET marked == queue[i].seenLegacy
           fresh == marked \ ToSet(queue[i].seen)
       IN \/ marked = {} /\ UNCHANGED <<list, legacy, faults>>
          \/ /\ marked # {}
             /\ list' = queue[i].seen \o SetToSeq(fresh) /\ legacy' = {}
             /\ UNCHANGED faults
          \/ marked # {} /\ Fails("write") /\ UNCHANGED <<list, legacy>>
    /\ Finish(i)
    /\ UNCHANGED <<unguarded, options, rendered, popup, edits, told>>

WorkerStep ==
    \E i \in DOMAIN queue : TaskRead(i) \/ AddWrite(i) \/ MigrateWrite(i)

-----------------------------------------------------------------------------
(* The Settings page.                                                      *)

\* A click on Add.
AddEntry(e) ==
    /\ "options" \in Users /\ NewEdit(~WorkerIdle)
    /\ options' = Append(options, Task([id |-> edits, kind |-> "add", entry |-> e]))
    /\ UNCHANGED <<list, legacy, queue, rendered, popup, told, faults>>

\* A click on the cross of row i: the row, not the entry, is what is kept.
RemoveEntry(i) ==
    /\ "options" \in Users
    /\ NewEdit(~WorkerIdle \/ ~OptionsIdle \/ rendered # list)
    /\ options' = Append(options,
                    [Task([id |-> edits, kind |-> "remove", entry |-> rendered[i]])
                        EXCEPT !.row = i])
    /\ UNCHANGED <<list, legacy, queue, rendered, popup, told, faults>>

\* withSyncMutation: a failed read abandons the edit.
OptionsRead ==
    /\ options # <<>> /\ Head(options).pc = "reading"
    /\ \/ options' = [options EXCEPT ![1].pc = "writing", ![1].seen = list]
          /\ UNCHANGED faults
       \/ Fails("read") /\ options' = Tail(options)
    /\ UNCHANGED <<unguarded, list, legacy, queue, rendered, popup, edits, told>>

NoChecks(task) == task.row <= Len(task.seen)

\* mutateFn returns undefined: a duplicate, a full list, a row past the end.
Proceeds(task) ==
    IF task.edit.kind = "add"
    THEN task.edit.entry \notin ToSet(task.seen) /\ Len(task.seen) < Cap
    ELSE task.row <= Len(task.seen)

\* removeEntry drops the row, whatever is on it.
WithRowRemoved(task) == RemoveAt(task.seen, task.row)

Result(task) ==
    IF task.edit.kind = "add" THEN Append(task.seen, task.edit.entry)
    ELSE WithRowRemoved(task)

\* The write, and the rendering of what was written.
OptionsWrite ==
    /\ options # <<>> /\ Head(options).pc = "writing"
    /\ LET task == Head(options) IN
         \/ ~Proceeds(task) /\ UNCHANGED <<list, rendered, faults>>
         \/ /\ Proceeds(task)
            /\ list' = Result(task) /\ rendered' = Result(task)
            /\ UNCHANGED faults
         \/ Proceeds(task) /\ Fails("write") /\ UNCHANGED <<list, rendered>>
    /\ options' = Tail(options)
    /\ UNCHANGED <<unguarded, legacy, queue, popup, edits, told>>

\* The page is opened again.
ReopenSettings ==
    /\ "options" \in Users /\ OptionsIdle /\ rendered # list
    /\ rendered' = list
    /\ UNCHANGED <<unguarded, list, legacy, queue, options, popup, edits, told,
                   faults>>

OptionsStep == OptionsRead \/ OptionsWrite

-----------------------------------------------------------------------------
(* The popup.                                                              *)

\* setDomainAllowlisted on the rendered list: paused becomes not paused.  The filter
\* drops the site's entry, of which no list holds two.
Place(l, e) == CHOOSE i \in DOMAIN l : l[i] = e
Toggled(l, e) == IF e \in ToSet(l) THEN RemoveAt(l, Place(l, e)) ELSE Append(l, e)

\* The pause button for the site of the tab.
PauseSite(e) ==
    /\ "popup" \in Users
    /\ NewEdit(~WorkerIdle \/ ~OptionsIdle \/ popup # list)
    /\ popup' = Toggled(popup, e)
    /\ \/ list' = popup' /\ UNCHANGED faults
       \/ Fails("write") /\ UNCHANGED list
    /\ UNCHANGED <<legacy, queue, options, rendered, told>>

\* storage.onChanged, and every opening of the popup: render anew.
RenderPopup ==
    /\ popup # list
    /\ popup' = list
    /\ UNCHANGED <<unguarded, list, legacy, queue, options, rendered, edits, told,
                   faults>>

-----------------------------------------------------------------------------
Next ==
    \/ \E e \in Entry : AddToWhitelist(e) \/ AddEntry(e) \/ PauseSite(e)
    \/ \E i \in DOMAIN rendered : RemoveEntry(i)
    \/ StartMigration \/ ReopenSettings \/ RenderPopup
    \/ WorkerStep \/ OptionsStep

Spec == Init /\ [][Next]_vars

\* Storage answers, and promise chains run on.
FairSpec == Spec /\ WF_vars(WorkerStep) /\ WF_vars(OptionsStep)

-----------------------------------------------------------------------------
(* Properties.                                                             *)

EditsOf(tasks) == {tasks[i].edit : i \in DOMAIN tasks}

Edit == [id : Nat, kind : {"add", "remove"}, entry : Entry]
        \cup [id : Nat, kind : {"migrate"}]

TaskType == [edit : Edit, pc : {"reading", "writing"}, row : Nat, seen : Seq(Entry),
             seenLegacy : SUBSET Entry]

\* Type correctness: in particular no list ever holds an entry twice, which a
\* single removal could not then remove.
TypeOK ==
    /\ list \in Seq(Entry) /\ IsInjective(list)
    /\ legacy \subseteq Entry
    /\ queue \in Seq(TaskType) /\ options \in Seq(TaskType)
    /\ rendered \in Seq(Entry) /\ popup \in Seq(Entry)
    /\ edits \in Nat /\ faults \in Nat /\ told \subseteq Entry
    /\ unguarded \in BOOLEAN

Atomic == INSTANCE AtomicLists WITH
            list <- ToSet(list), asked <- EditsOf(queue) \cup EditsOf(options)

\* Each queue makes the edits of its context atomic: every change of the list is
\* one edit, asked for before, applied to the list as it is (list-mutation-queue.js,
\* sync-mutation.js), or a pause toggled; and a row that is clicked away is the
\* entry shown there.  What no queue orders, and an edit of a list that was not or
\* is not the stored one, is the exception.
EditsAreAtomic ==
    Atomic!Init /\ [][unguarded \/ unguarded' \/ Atomic!Next]_(Atomic!vars)

\* Nothing but a removal makes an entry go: an entry is lost only in a step that
\* settles a removal of it, or to the popup's pause button.
NothingLost ==
    [][\A e \in ToSet(list) \ ToSet(list') :
          \/ options # <<>> /\ Head(options).edit.kind = "remove"
             /\ Head(options).edit.entry = e
          \/ edits' # edits /\ popup' = Toggled(popup, e)]_vars

\* A page told ok: true finds its entry in the list (setPrefs: callers that must
\* not report false success gate on its result).
ToldMeansStored ==
    [][\A e \in told' \ told : e \in ToSet(list')]_vars

\* Every edit asked of the worker settles, failed ones before it or not: a failing
\* task does not poison the chain.
EditsSettle == \A n \in 0..(MaxEdits - 1) :
    (\E i \in DOMAIN queue : queue[i].edit.id = n)
        ~> ~(\E i \in DOMAIN queue : queue[i].edit.id = n)
=============================================================================

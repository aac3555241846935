------------------------ MODULE ConsentRecordProofs -------------------------
(***************************************************************************)
(* ConsentRecord for any number of restarts, presses of the button and     *)
(* failing calls, whichever calls may fail: the record is well typed, and, *)
(* provided that no older release left a version without its acceptance    *)
(* (PartialLegacy, see ConsentPartial.cfg), an accepted gate never closes  *)
(* and the onboarding page is opened once and again only after a failed    *)
(* call.                                                                   *)
(***************************************************************************)
EXTENDS ConsentRecord, TLAPS

WholeRecords == {Nothing, Old, Current}

\* Every record, stored or held by the migration, is whole or missing.
RecordsInv ==
    /\ local \in WholeRecords /\ legacy \in {Nothing, Old}
    /\ migration \in
        [pc : {"start", "checking", "deciding", "removing", "done"},
         sync : {Nothing, Old}, seen : WholeRecords]

\* What the migration is about to copy is an acceptance; what it found here, and
\* what it leaves when it is about to remove the synced record, is one too.
MigrationInv ==
    /\ migration.pc \in {"checking", "deciding", "removing"} => migration.sync = Old
    /\ migration.seen # Nothing => local.done
    /\ migration.pc = "removing" => local.done

\* GateNeverCloses alone is not inductive: removing the synced record is harmless
\* only because of what the migration has made sure of before.
Inv == TypeOK /\ RecordsInv /\ MigrationInv /\ GateNeverCloses

\* The records where one left by an older release may lack its acceptance.
OldRecords == {Nothing, Old, Record(FALSE, 1)}
AnyRecord == OldRecords \cup {Current}

RecordsTyped ==
    /\ local \in AnyRecord /\ legacy \in OldRecords
    /\ migration \in
        [pc : {"start", "checking", "deciding", "removing", "done"},
         sync : OldRecords, seen : AnyRecord]

TypesInv == TypeOK /\ RecordsTyped

-----------------------------------------------------------------------------
\* A whole record that is not missing is an acceptance.
LEMMA WholeIsDone ==
    /\ \A r \in WholeRecords : r # Nothing <=> r.done
    /\ \A r \in WholeRecords : LocalHasConsent(r) <=> r # Nothing
    /\ Nothing.done = FALSE /\ Old.done /\ Current.done
  BY DEF WholeRecords, LocalHasConsent, Nothing, Old, Current, Record

LEMMA InitInv == ASSUME PartialLegacy = FALSE, Init PROVE Inv
  BY DEF Init, Inv, TypeOK, RecordsInv, MigrationInv, GateNeverCloses, WholeRecords,
         NoMigration, Nothing, Old, Current, Record

\* A step that leaves the records and the migration alone disturbs only the types.
LEMMA RestStays ==
    ASSUME Inv, UNCHANGED <<local, legacy, migration, accepted>>
    PROVE  RecordsInv' /\ MigrationInv' /\ GateNeverCloses'
  BY DEF Inv, RecordsInv, MigrationInv, GateNeverCloses

\* The types hold whatever the migration does.
LEMMA TypesNext == TypesInv /\ [Next]_vars => TypesInv'
<1> SUFFICES ASSUME TypesInv, [Next]_vars PROVE TypesInv'
  OBVIOUS
<1> USE DEF TypeOK, TypesInv
<1> DEFINE Controls ==
        /\ wake \in {"start", "open", "clear", "done"}
        /\ install \in {"start", "accepted", "done"}
        /\ opened \in BOOLEAN /\ flag \in BOOLEAN /\ tabs \in Nat
<1>0. RecordsTyped'
  <2> USE DEF RecordsTyped, AnyRecord, OldRecords
  <2>1. CASE MigrationReadsSync
    <3>1. PICK r \in {legacy, Nothing} : migration' =
              [migration EXCEPT !.pc = IF r = Nothing THEN "done" ELSE "checking",
                                !.sync = r]
      BY <2>1 DEF MigrationReadsSync
    <3>2. UNCHANGED <<local, legacy>>
      BY <2>1 DEF MigrationReadsSync, stored
    <3> QED BY <3>1, <3>2
  <2>2. CASE MigrationReadsLocal
    <3>1. PICK r \in {local, Nothing} :
              migration' = [migration EXCEPT !.pc = "deciding", !.seen = r]
      BY <2>2 DEF MigrationReadsLocal
    <3>2. UNCHANGED <<local, legacy>>
      BY <2>2 DEF MigrationReadsLocal, stored
    <3> QED BY <3>1, <3>2
  <2>3. CASE MigrationCopies
    BY <2>3 DEF MigrationCopies
  <2>4. CASE MigrationKeeps \/ MigrationRemoves
    BY <2>4 DEF MigrationKeeps, MigrationRemoves, stored
  <2>5. CASE ImplicitAccept \/ Submit
    BY <2>5 DEF ImplicitAccept, Submit
  <2>6. CASE Restart
    BY <2>6 DEF Restart, NoMigration, stored
  <2>7. CASE InstallOpens \/ WakeChecks \/ WakeOpens \/ WakeClears \/ UNCHANGED vars
    BY <2>7 DEF InstallOpens, WakeChecks, WakeOpens, WakeClears, vars, stored
  <2>8. ASSUME NEW c \in DOMAIN opener,
               OpenerChecks(c) \/ OpenerMarks(c) \/ OpenerCreates(c)
        PROVE  RecordsTyped'
    BY <2>8 DEF OpenerChecks, OpenerMarks, OpenerCreates, stored
  <2> QED
    BY <2>1, <2>2, <2>3, <2>4, <2>5, <2>6, <2>7, <2>8
       DEF Next, WorkerStep, MigrationStep
<1> SUFFICES TypeOK'
  BY <1>0
<1>1. /\ local' \in {Nothing, Old, Current, Record(FALSE, 1)}
      /\ legacy' \in {Nothing, Old, Record(FALSE, 1)}
      /\ migration'.pc \in {"start", "checking", "deciding", "removing", "done"}
  BY <1>0 DEF RecordsTyped, AnyRecord, OldRecords
<1>2. Controls
  OBVIOUS
<1>3. CASE MigrationStep
  <2>1. UNCHANGED <<wake, install, opened, flag, tabs>>
    BY <1>3 DEF MigrationStep, MigrationReadsSync, MigrationReadsLocal, MigrationCopies,
                MigrationKeeps, MigrationRemoves, stored
  <2> QED BY <1>1, <1>2, <2>1
<1>4. CASE ImplicitAccept \/ InstallOpens
  BY <1>1, <1>2, <1>4 DEF ImplicitAccept, InstallOpens, Opens, stored
<1>5. CASE WakeChecks \/ WakeOpens \/ WakeClears
  BY <1>1, <1>2, <1>5 DEF WakeChecks, WakeOpens, WakeClears, Opens, stored
<1>6. ASSUME NEW c \in DOMAIN opener,
             OpenerChecks(c) \/ OpenerMarks(c) \/ OpenerCreates(c)
      PROVE  TypeOK'
  <2>1. UNCHANGED <<wake, install, opened>>
    BY <1>6 DEF OpenerChecks, OpenerMarks, OpenerCreates
  <2>2. flag' \in {flag, TRUE} /\ tabs' \in {tabs, tabs + 1}
    BY <1>6 DEF OpenerChecks, OpenerMarks, OpenerCreates, stored
  <2>3. tabs' \in Nat
    BY <1>2, <2>2
  <2>4. flag' \in BOOLEAN
    BY <1>2, <2>2, Zenon
  <2> QED BY <1>1, <1>2, <2>1, <2>3, <2>4, Zenon
<1>7. CASE Submit \/ Restart
  BY <1>1, <1>2, <1>7 DEF Submit, Restart, stored
<1>8. CASE UNCHANGED vars
  BY <1>1, <1>2, <1>8 DEF vars, stored
<1> QED
  BY <1>0, <1>3, <1>4, <1>5, <1>6, <1>7, <1>8 DEF Next, WorkerStep

LEMMA TypesInit == Init => TypesInv
<1> SUFFICES ASSUME Init PROVE TypesInv
  OBVIOUS
<1>1. local \in AnyRecord /\ legacy \in OldRecords
  <2>1. {Nothing, Old} \cup (IF PartialLegacy THEN {Record(FALSE, 1)} ELSE {})
            \subseteq OldRecords
    BY DEF OldRecords
  <2> QED BY <2>1 DEF Init, AnyRecord, OldRecords
<1>2. RecordsTyped
  BY <1>1 DEF Init, RecordsTyped, NoMigration, AnyRecord, OldRecords
<1> QED BY <1>1, <1>2 DEF Init, TypesInv, TypeOK, NoMigration, AnyRecord, OldRecords

\* Whole records are records.
LEMMA InvTyped == Inv => TypesInv
  BY DEF Inv, TypesInv, RecordsInv, RecordsTyped, WholeRecords, OldRecords, AnyRecord

\* Every step keeps what the migration relies on and, with it, the open gate.
LEMMA NextInv == Inv /\ [Next]_vars => Inv'
<1> SUFFICES ASSUME Inv, [Next]_vars PROVE Inv'
  OBVIOUS
<1> USE WholeIsDone
<1> SUFFICES RecordsInv' /\ MigrationInv' /\ GateNeverCloses'
  BY InvTyped, TypesNext DEF Inv, TypesInv
<1>1. CASE MigrationReadsSync
  <2>1. PICK r \in {legacy, Nothing} : migration' =
            [migration EXCEPT !.pc = IF r = Nothing THEN "done" ELSE "checking",
                              !.sync = r]
    BY <1>1 DEF MigrationReadsSync, Read
  <2>2. UNCHANGED <<local, legacy, accepted>>
    BY <1>1 DEF MigrationReadsSync, stored
  <2> QED BY <2>1, <2>2 DEF Inv, RecordsInv, MigrationInv, GateNeverCloses
<1>2. CASE MigrationReadsLocal
  <2>1. PICK r \in {local, Nothing} :
            migration' = [migration EXCEPT !.pc = "deciding", !.seen = r]
    BY <1>2 DEF MigrationReadsLocal, Read
  <2>2. UNCHANGED <<local, legacy, accepted>> /\ migration.pc = "checking"
    BY <1>2 DEF MigrationReadsLocal, stored
  <2>3. r \in WholeRecords /\ (r # Nothing => local.done)
    BY DEF Inv, RecordsInv, WholeRecords
  <2> QED BY <2>1, <2>2, <2>3 DEF Inv, RecordsInv, MigrationInv, GateNeverCloses
<1>3. CASE MigrationCopies
  <2>1. migration.sync = Old
    BY <1>3 DEF MigrationCopies, Inv, MigrationInv
  <2> QED BY <1>3, <2>1 DEF MigrationCopies, Inv, RecordsInv, MigrationInv,
                            GateNeverCloses, WholeRecords
<1>4. CASE MigrationKeeps
  <2>1. migration.seen \in WholeRecords /\ migration.seen # Nothing
    BY <1>4 DEF MigrationKeeps, Inv, RecordsInv
  <2> QED BY <1>4, <2>1 DEF MigrationKeeps, Inv, RecordsInv, MigrationInv,
                            GateNeverCloses, stored
<1>5. CASE MigrationRemoves
  <2>1. local.done
    BY <1>5 DEF MigrationRemoves, MayRemove, Inv, MigrationInv
  <2> QED BY <1>5, <2>1 DEF MigrationRemoves, Inv, RecordsInv, MigrationInv,
                            GateNeverCloses
<1>6. CASE ImplicitAccept \/ Submit
  <2>1. UNCHANGED <<legacy, migration>>
        /\ \/ local' = Current
           \/ UNCHANGED <<local, accepted>>
    BY <1>6 DEF ImplicitAccept, Submit
  <2> QED BY <2>1 DEF Inv, RecordsInv, MigrationInv, GateNeverCloses, WholeRecords
<1>7. CASE Restart
  BY <1>7 DEF Restart, NoMigration, Inv, RecordsInv, MigrationInv, GateNeverCloses,
              stored, WholeRecords
<1>8. CASE InstallOpens \/ WakeChecks \/ WakeOpens \/ WakeClears \/ UNCHANGED vars
  <2>1. UNCHANGED <<local, legacy, migration, accepted>>
    BY <1>8 DEF InstallOpens, WakeChecks, WakeOpens, WakeClears, vars, stored
  <2> QED BY <2>1, RestStays
<1>9. ASSUME NEW c \in DOMAIN opener,
             OpenerChecks(c) \/ OpenerMarks(c) \/ OpenerCreates(c)
      PROVE  RecordsInv' /\ MigrationInv' /\ GateNeverCloses'
  <2>1. UNCHANGED <<local, legacy, migration, accepted>>
    BY <1>9 DEF OpenerChecks, OpenerMarks, OpenerCreates, stored
  <2> QED BY <2>1, RestStays
<1> QED
  BY <1>1, <1>2, <1>3, <1>4, <1>5, <1>6, <1>7, <1>8, <1>9
     DEF Next, WorkerStep, MigrationStep

LEMMA InvAlways == ASSUME PartialLegacy = FALSE PROVE Spec => []Inv
  BY InitInv, NextInv, PTL DEF Spec

\* The stored records, the migration and the guards stay of their kind.
THEOREM TypeCorrect == Spec => []TypeOK
<1>1. TypesInv => TypeOK
  BY DEF TypesInv
<1> QED BY <1>1, TypesInit, TypesNext, PTL DEF Spec

\* Once accepted, always accepted: no order of the migration, the install handler,
\* the button, worker restarts and failing storage calls leaves neither record.
THEOREM AcceptedStays == ASSUME PartialLegacy = FALSE PROVE Spec => []GateNeverCloses
<1>1. Inv => GateNeverCloses
  BY DEF Inv
<1> QED BY <1>1, InvAlways, PTL

-----------------------------------------------------------------------------
(* The onboarding tab.                                                     *)

Openers == {"wake", "install"}

\* One, while an opener is at one of these stages.
Underway(stages) == IF \E c \in Openers : opener[c] \in stages THEN 1 ELSE 0

\* Only what is accepted reads as accepted.
AcceptedInv ==
    /\ local.done \/ legacy.done \/ wake = "clear" => accepted
    /\ migration.pc # "start" /\ migration.sync # Nothing => accepted

\* The memory guard lets one opener through at a time, and the install handler only
\* as the first ever.
OpenersInv ==
    /\ opener \in [Openers -> {"idle", "checking", "marking", "creating"}]
    /\ opener["wake"] # "idle" => opened /\ wake = "done" /\ opener["install"] = "idle"
    /\ opener["install"] # "idle" =>
            /\ tabs = 0 /\ install = "done" /\ (opened \/ wake = "done")
            /\ opener["wake"] = "idle"
    /\ install # "done" /\ (~opened \/ wake # "done") =>
            tabs = 0 /\ ~opened /\ \A c \in Openers : opener[c] = "idle"

\* Every tab, made or under way, but one took a fault; and all did while the flag is
\* down and another tab may be on its way.
TabsInv ==
    /\ faults \in Nat
    /\ tabs + Underway({"marking", "creating"}) <= 1 + faults
    /\ ~flag /\ (~accepted \/ wake = "open" \/ Underway({"checking", "marking"}) = 1) =>
            tabs + Underway({"creating"}) <= faults

TabInv == Inv /\ AcceptedInv /\ OpenersInv /\ TabsInv

LEMMA TabInit == ASSUME PartialLegacy = FALSE, Init PROVE TabInv
<1>1. Inv
  BY InitInv
<1>2. AcceptedInv /\ tabs = 0 /\ faults = 0 /\ ~opened
  BY DEF Init, AcceptedInv, NoMigration
<1>3. opener \in [Openers -> {"idle", "checking", "marking", "creating"}]
      /\ \A c \in Openers : opener[c] = "idle"
  BY DEF Init, NoOpener, Openers
<1>4. "wake" \in Openers /\ "install" \in Openers
  BY DEF Openers
<1>5. OpenersInv
  BY <1>2, <1>3, <1>4 DEF OpenersInv
<1>6. \A S : "idle" \notin S => Underway(S) = 0
  BY <1>3 DEF Underway
<1>7. TabsInv
  BY <1>2, <1>6 DEF TabsInv
<1> QED
  BY <1>1, <1>2, <1>5, <1>7 DEF TabInv

\* Whoever is under way is alone.
LEMMA OpenerAlone ==
    ASSUME OpenersInv, NEW c \in DOMAIN opener, opener[c] # "idle",
           NEW to \in {"idle", "checking", "marking", "creating"},
           opener' = [opener EXCEPT ![c] = to],
           UNCHANGED <<opened, install, wake>>,
           tabs' = tabs \/ to = "idle"
    PROVE  /\ OpenersInv'
           /\ \A S : "idle" \notin S =>
                    /\ Underway(S) = IF opener[c] \in S THEN 1 ELSE 0
                    /\ Underway(S)' = IF to \in S THEN 1 ELSE 0
<1>1. c \in Openers /\ Openers = {"wake", "install"}
  BY DEF OpenersInv, Openers
<1>2. \A d \in Openers : d # c => opener[d] = "idle"
  BY <1>1 DEF OpenersInv
<1>3. /\ opener' \in [Openers -> {"idle", "checking", "marking", "creating"}]
      /\ \A d \in Openers : opener'[d] = IF d = c THEN to ELSE opener[d]
  BY <1>1 DEF OpenersInv
<1>4. ~(install # "done" /\ (~opened \/ wake # "done"))
  BY <1>1 DEF OpenersInv
<1>5. OpenersInv'
  <2>1. CASE c = "wake"
    BY <1>1, <1>2, <1>3, <1>4, <2>1 DEF OpenersInv
  <2>2. CASE c = "install"
    BY <1>1, <1>2, <1>3, <1>4, <2>2 DEF OpenersInv
  <2> QED BY <1>1, <2>1, <2>2
<1>6. ASSUME NEW S, "idle" \notin S
      PROVE  /\ Underway(S) = IF opener[c] \in S THEN 1 ELSE 0
             /\ Underway(S)' = IF to \in S THEN 1 ELSE 0
  <2>1. \A d \in Openers : d # c => opener[d] \notin S /\ opener'[d] \notin S
    BY <1>2, <1>3, <1>6
  <2>2. opener'[c] = to
    BY <1>1, <1>3
  <2> QED BY <1>1, <2>1, <2>2 DEF Underway
<1> QED BY <1>5, <1>6

\* What is accepted stays so, and at most one call fails in a step.
LEMMA AcceptedNext == ASSUME TabInv, [Next]_vars PROVE AcceptedInv' /\ faults' \in {faults, faults + 1}
<1> USE WholeIsDone DEF TabInv, AcceptedInv
<1>0. RecordsInv
  BY DEF Inv
<1>1. CASE MigrationReadsSync
  <2>1. PICK r \in {legacy, Nothing} :
            /\ migration' = [migration EXCEPT
                   !.pc = IF r = Nothing THEN "done" ELSE "checking", !.sync = r]
            /\ Read(r, legacy, Nothing)
    BY <1>1 DEF MigrationReadsSync
  <2>2. UNCHANGED <<local, legacy, accepted, wake>>
    BY <1>1 DEF MigrationReadsSync, stored
  <2>3. faults' \in {faults, faults + 1}
    BY <2>1 DEF Read, Fails, bounds
  <2> QED BY <1>0, <2>1, <2>2, <2>3 DEF RecordsInv, WholeRecords
<1>2. CASE MigrationReadsLocal
  <2>1. PICK r : /\ migration' = [migration EXCEPT !.pc = "deciding", !.seen = r]
                 /\ Read(r, local, Nothing)
    BY <1>2 DEF MigrationReadsLocal
  <2>2. UNCHANGED <<local, legacy, accepted, wake>> /\ migration.pc = "checking"
    BY <1>2 DEF MigrationReadsLocal, stored
  <2>3. faults' \in {faults, faults + 1}
    BY <2>1 DEF Read, Fails, bounds
  <2> QED BY <1>0, <2>1, <2>2, <2>3 DEF RecordsInv
<1>3. CASE MigrationCopies \/ MigrationKeeps \/ MigrationRemoves
  <2>1. UNCHANGED <<accepted, wake>> /\ migration.pc # "start"
    BY <1>3 DEF MigrationCopies, MigrationKeeps, MigrationRemoves, MayRemove, stored
  <2>2. local' \in {local, migration.sync} /\ legacy' \in {legacy, Nothing}
    BY <1>3 DEF MigrationCopies, MigrationKeeps, MigrationRemoves, stored
  <2>3. migration'.sync = migration.sync
    BY <1>0, <1>3 DEF MigrationCopies, MigrationKeeps, MigrationRemoves, RecordsInv
  <2>4. faults' \in {faults, faults + 1}
    BY <1>3 DEF MigrationCopies, MigrationKeeps, MigrationRemoves, Fails, bounds
  <2> QED BY <1>0, <2>1, <2>2, <2>3, <2>4 DEF RecordsInv, WholeRecords
<1>4. CASE ImplicitAccept \/ Submit
  BY <1>4 DEF ImplicitAccept, Submit, Fails, bounds
<1>5. CASE WakeChecks
  <2>1. PICK done \in BOOLEAN :
            ReadsDone(done) /\ wake' = IF done THEN "clear" ELSE "open"
    BY <1>5 DEF WakeChecks
  <2>2. UNCHANGED <<local, legacy, accepted, migration>>
    BY <1>5 DEF WakeChecks, stored
  <2>3. faults' \in {faults, faults + 1} /\ (done => local.done \/ legacy.done)
    BY <2>1 DEF ReadsDone, Fails, bounds
  <2> QED BY <2>1, <2>2, <2>3
<1>6. CASE InstallOpens \/ WakeOpens \/ WakeClears
  BY <1>6 DEF InstallOpens, WakeOpens, WakeClears, Fails, bounds, stored
<1>7. ASSUME NEW c \in DOMAIN opener,
             OpenerChecks(c) \/ OpenerMarks(c) \/ OpenerCreates(c)
      PROVE  AcceptedInv' /\ faults' \in {faults, faults + 1}
  <2>1. UNCHANGED <<local, legacy, accepted, migration, wake>>
    BY <1>7 DEF OpenerChecks, OpenerMarks, OpenerCreates, stored
  <2>2. faults' \in {faults, faults + 1}
    BY <1>7 DEF OpenerChecks, OpenerMarks, OpenerCreates, Read, Fails, bounds
  <2> QED BY <2>1, <2>2
<1>8. CASE Restart \/ UNCHANGED vars
  BY <1>8 DEF Restart, vars, stored, bounds, NoMigration
<1> QED
  BY <1>1, <1>2, <1>3, <1>4, <1>5, <1>6, <1>7, <1>8 DEF Next, WorkerStep, MigrationStep

LEMMA TabNext == ASSUME TabInv, [Next]_vars PROVE TabInv'
<1>0. Inv' /\ AcceptedInv' /\ faults' \in {faults, faults + 1}
  BY NextInv, AcceptedNext DEF TabInv
<1> SUFFICES OpenersInv' /\ TabsInv'
  BY <1>0 DEF TabInv
<1>1. tabs \in Nat /\ faults \in Nat /\ opened \in BOOLEAN /\ flag \in BOOLEAN
  BY DEF TabInv, Inv, TypeOK, TabsInv
<1>2. CASE \/ MigrationStep \/ ImplicitAccept \/ Submit \/ UNCHANGED vars
  <2>1. UNCHANGED <<opened, flag, tabs, opener, wake>>
    BY <1>2 DEF MigrationStep, MigrationReadsSync, MigrationReadsLocal, MigrationCopies,
                MigrationKeeps, MigrationRemoves, ImplicitAccept, Submit, vars, stored
  <2>2. install' = install \/ (install = "start" /\ install' = "accepted")
    BY <1>2 DEF MigrationStep, MigrationReadsSync, MigrationReadsLocal, MigrationCopies,
                MigrationKeeps, MigrationRemoves, ImplicitAccept, Submit, vars
  <2>3. accepted => accepted'
    BY <1>2 DEF MigrationStep, MigrationReadsSync, MigrationReadsLocal, MigrationCopies,
                MigrationKeeps, MigrationRemoves, ImplicitAccept, Submit, vars
  <2>4. \A S : Underway(S)' = Underway(S) /\ Underway(S) \in {0, 1}
    BY <2>1 DEF Underway
  <2> QED BY <1>0, <1>1, <2>1, <2>2, <2>3, <2>4 DEF TabInv, OpenersInv, TabsInv
<1>3. CASE InstallOpens
  BY <1>0, <1>1, <1>3 DEF InstallOpens, Opens, OpensOnInstall, TabInv, OpenersInv, TabsInv,
                          Underway, Openers, bounds, stored
<1>4. CASE WakeChecks
  <2>1. PICK done \in BOOLEAN :
            ReadsDone(done) /\ wake' = IF done THEN "clear" ELSE "open"
    BY <1>4 DEF WakeChecks
  <2>2. wake = "start" /\ UNCHANGED <<flag, opened, tabs, opener, install, accepted>>
    BY <1>4 DEF WakeChecks, stored
  <2>3. \/ faults' = faults /\ (accepted => done)
        \/ faults' = faults + 1
    BY <2>1 DEF ReadsDone, Fails, bounds, TabInv, Inv, GateNeverCloses
  <2>4. OpenersInv'
    BY <2>1, <2>2 DEF TabInv, OpenersInv
  <2>5. /\ \A S : Underway(S)' = Underway(S) /\ Underway(S) \in {0, 1}
        /\ Underway({"creating"}) <= Underway({"marking", "creating"})
    BY <2>2 DEF Underway
  <2> QED BY <1>1, <2>1, <2>2, <2>3, <2>4, <2>5 DEF TabInv, TabsInv
<1>5. CASE WakeOpens
  BY <1>0, <1>1, <1>5 DEF WakeOpens, Opens, TabInv, OpenersInv, TabsInv, Underway, Openers,
                          bounds, stored
<1>6. CASE WakeClears
  <2>1. /\ wake = "clear" /\ wake' = "done" /\ ~opened' /\ accepted'
        /\ UNCHANGED <<tabs, opener, install>>
    BY <1>0, <1>6 DEF WakeClears, TabInv, AcceptedInv
  <2>2. OpenersInv'
    BY <2>1 DEF TabInv, OpenersInv
  <2>3. opener["wake"] = "idle"
    BY <2>1 DEF TabInv, OpenersInv
  <2>4. /\ \A S : Underway(S)' = Underway(S) /\ Underway(S) \in {0, 1}
        /\ Underway({"checking", "marking"}) = 1 => Underway({"creating"}) = 0 /\ tabs = 0
    BY <2>1, <2>3 DEF Underway, Openers, TabInv, OpenersInv
  <2> QED BY <1>0, <1>1, <2>1, <2>2, <2>4 DEF TabInv, TabsInv
<1>7. ASSUME NEW c \in DOMAIN opener, OpenerChecks(c) PROVE OpenersInv' /\ TabsInv'
  <2>1. PICK seen \in {flag, FALSE} :
            /\ Read(seen, flag, FALSE)
            /\ opener' = [opener EXCEPT ![c] = IF seen THEN "idle" ELSE "marking"]
    BY <1>7 DEF OpenerChecks, AlreadyOpened
  <2>2. opener[c] = "checking" /\ UNCHANGED <<flag, opened, tabs, wake, install, accepted>>
    BY <1>7 DEF OpenerChecks, stored
  <2>3. \/ seen = flag /\ faults' = faults
        \/ faults' = faults + 1
    BY <2>1 DEF Read, Fails, bounds
  <2>4. seen \in BOOLEAN
    BY <1>1
  <2> DEFINE to == IF seen THEN "idle" ELSE "marking"
  <2>5. OpenersInv' /\ \A S : "idle" \notin S =>
                    /\ Underway(S) = IF opener[c] \in S THEN 1 ELSE 0
                    /\ Underway(S)' = IF to \in S THEN 1 ELSE 0
    BY <2>1, <2>2, <2>4, OpenerAlone DEF TabInv
  <2> QED BY <1>1, <2>2, <2>3, <2>4, <2>5 DEF TabInv, TabsInv
<1>8. ASSUME NEW c \in DOMAIN opener, OpenerMarks(c) PROVE OpenersInv' /\ TabsInv'
  <2>1. /\ opener[c] = "marking" /\ opener' = [opener EXCEPT ![c] = "creating"]
        /\ UNCHANGED <<opened, tabs, wake, install, accepted>>
        /\ \/ flag' = TRUE /\ faults' = faults
           \/ flag' = flag /\ faults' = faults + 1
    BY <1>8 DEF OpenerMarks, Fails, bounds
  <2>2. OpenersInv' /\ \A S : "idle" \notin S =>
                    /\ Underway(S) = IF opener[c] \in S THEN 1 ELSE 0
                    /\ Underway(S)' = IF "creating" \in S THEN 1 ELSE 0
    BY <2>1, OpenerAlone DEF TabInv
  <2> QED BY <1>1, <2>1, <2>2 DEF TabInv, TabsInv
<1>9. ASSUME NEW c \in DOMAIN opener, OpenerCreates(c) PROVE OpenersInv' /\ TabsInv'
  <2>1. /\ opener[c] = "creating" /\ opener' = [opener EXCEPT ![c] = "idle"]
        /\ UNCHANGED <<flag, opened, wake, install, accepted, faults>> /\ tabs' = tabs + 1
    BY <1>9 DEF OpenerCreates, stored, bounds
  <2>2. OpenersInv' /\ \A S : "idle" \notin S =>
                    /\ Underway(S) = IF opener[c] \in S THEN 1 ELSE 0
                    /\ Underway(S)' = IF "idle" \in S THEN 1 ELSE 0
    BY <2>1, OpenerAlone DEF TabInv
  <2> QED BY <1>1, <2>1, <2>2 DEF TabInv, TabsInv
<1>10. CASE Restart
  BY <1>0, <1>1, <1>10 DEF Restart, NoOpener, TabInv, OpenersInv, TabsInv, Underway,
                           Openers, bounds, stored
<1> QED
  BY <1>2, <1>3, <1>4, <1>5, <1>6, <1>7, <1>8, <1>9, <1>10 DEF Next, WorkerStep

\* Every onboarding tab but the first took a storage call that failed, however the
\* two callers, the flag, the button and restarts interleave (onboarding-gate.js).
THEOREM TabsAreEarned == ASSUME PartialLegacy = FALSE PROVE Spec => []OneOnboardingTab
<1>1. TabInv => OneOnboardingTab
  BY DEF TabInv, Inv, TypeOK, TabsInv, Underway, OneOnboardingTab
<1> QED BY <1>1, TabInit, TabNext, PTL DEF Spec
=============================================================================

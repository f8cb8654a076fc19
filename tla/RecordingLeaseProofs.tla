------------------------- MODULE RecordingLeaseProofs -------------------------
(* Theorems about RecordingLease, for any number of starts and of titles.     *)
EXTENDS RecordingLease, FiniteSetTheorems, TLAPS

\* The actions, with the parameters that matter to the leases.
LEMMA NextCases ==
  ASSUME Next
  PROVE  \/ \E s \in Starts : PageReserves(s) \/ CommandReserves(s)
         \/ \E s \in Starts : HookFails(s) \/ RootRefuses(s)
         \/ \E s \in Starts : RecorderOpens(s)
         \/ \E s \in Starts : CommandReleases(s) \/ PageReleases(s)
         \/ ChildFails \/ Announces \/ RecorderCloses \/ Ends
         \/ StampStart \/ StampEnd
         \/ SetTitle \/ Reconcile \/ UserRenames \/ RenameDir \/ RenameFails
         \/ Freeze \/ Thaw
BY DEF Next, StartNext

\* The bookkeeping that relates where a start is to where the recording is.
TakeOK ==
  /\ take = "none" => by = NoStart
  /\ take # "none" => by \in Starts /\ step[by] = "recording"
  /\ \A s \in Starts : step[s] = "recording" => s = by

TypeInv == TypeOK /\ TakeOK

\* The initial state has the types.
LEMMA TypeInit == Init => TypeInv
<1>1. Init => failed \in BOOLEAN
  BY ZenonT(10) DEF Init
<1>2. QED
  BY <1>1 DEF Init, TypeInv, TypeOK, TakeOK, Names, Steps

\* A directory is only ever named after a title that is not empty.
RenameTitled == lock = "rename" => title # NoTitle

\* No action leaves the types.
LEMMA TypeStep == TypeInv /\ RenameTitled /\ [Next]_vars => TypeInv' /\ RenameTitled'
<1> SUFFICES ASSUME TypeInv, RenameTitled, [Next]_vars
    PROVE  TypeInv' /\ RenameTitled'
  OBVIOUS
<1> USE NoneAssumption
        DEF TypeInv, TypeOK, TakeOK, RenameTitled, Names, Steps, At,
            nameVars, startVars, takeVars
<1>1. ASSUME NEW s \in Starts, PageReserves(s) \/ CommandReserves(s)
      PROVE  TypeInv' /\ RenameTitled'
  BY <1>1 DEF PageReserves, CommandReserves, Prepare, Reserved
<1>2. ASSUME NEW s \in Starts, HookFails(s) \/ RootRefuses(s)
      PROVE  TypeInv' /\ RenameTitled'
  BY <1>2 DEF HookFails, RootRefuses
<1>3. ASSUME NEW s \in Starts, RecorderOpens(s)
      PROVE  TypeInv' /\ RenameTitled'
  BY <1>3 DEF RecorderOpens
<1>4. ASSUME NEW s \in Starts, CommandReleases(s) \/ PageReleases(s)
      PROVE  TypeInv' /\ RenameTitled'
  BY <1>4 DEF CommandReleases, PageReleases, GivesBack, Release, Released
<1>5. CASE ChildFails
  BY <1>5 DEF ChildFails
<1>6. CASE Announces
  BY <1>6 DEF Announces, Noted
<1>7. CASE RecorderCloses
  BY <1>7 DEF RecorderCloses
<1>8. CASE Ends
  BY <1>8 DEF Ends
<1>9. CASE StampStart \/ StampEnd
  <2>1. stamps' \in Seq({"start", "end"})
    BY <1>9 DEF StampStart, StampEnd, NextStamp
  <2>2. QED
    BY <1>9, <2>1 DEF StampStart, StampEnd, NextStamp, Noted
<1>10. CASE SetTitle
  BY <1>10 DEF SetTitle
<1>11. CASE Reconcile \/ UserRenames \/ RenameFails
  BY <1>11 DEF Reconcile, Renames, UserRenames, RenameFails
<1>12. CASE RenameDir
  BY <1>12 DEF RenameDir
<1>13. CASE Freeze \/ Thaw
  BY <1>13 DEF Freeze, Thaw
<1>14. CASE UNCHANGED vars
  BY <1>14 DEF vars
<1>15. QED
  BY <1>1, <1>2, <1>3, <1>4, <1>5, <1>6, <1>7, <1>8, <1>9, <1>10, <1>11, <1>12,
     <1>13, <1>14, NextCases

\* Every variable keeps its type (an empty title never names a directory).
THEOREM LeaseTypes == Spec => []TypeOK
<1>1. Init => TypeInv /\ RenameTitled
  BY TypeInit DEF Init, RenameTitled
<1>2. TypeInv => TypeOK
  BY DEF TypeInv
<1>3. QED
  BY <1>1, <1>2, TypeStep, PTL DEF Spec

-------------------------------------------------------------------------------
(* A rename that was put off is not forgotten. *)

NameInv == TypeInv /\ RenameTitled /\ RenameNotForgotten

\* Whatever takes the last lease away looks at the title again, and whatever
\* sets a title looks at the leases.
LEMMA NameStep == NameInv /\ [Next]_vars => NameInv'
<1> SUFFICES ASSUME NameInv, [Next]_vars PROVE RenameNotForgotten'
  BY TypeStep DEF NameInv
<1> USE NoneAssumption, UntitledAssumption
        DEF NameInv, TypeInv, TypeOK, RenameTitled, RenameNotForgotten,
            nameVars, startVars, takeVars
<1>1. ASSUME NEW s \in Starts, PageReserves(s) \/ CommandReserves(s)
      PROVE  RenameNotForgotten'
  BY <1>1 DEF PageReserves, CommandReserves, Prepare, Reserved
<1>2. ASSUME NEW s \in Starts, HookFails(s) \/ RootRefuses(s)
      PROVE  RenameNotForgotten'
  BY <1>2 DEF HookFails, RootRefuses
<1>3. ASSUME NEW s \in Starts, RecorderOpens(s) PROVE RenameNotForgotten'
  BY <1>3 DEF RecorderOpens
<1>4. ASSUME NEW s \in Starts, CommandReleases(s) \/ PageReleases(s)
      PROVE  RenameNotForgotten'
  BY <1>4 DEF CommandReleases, PageReleases, GivesBack, Release, Released
<1>5. CASE ChildFails \/ RecorderCloses \/ Ends
  BY <1>5 DEF ChildFails, RecorderCloses, Ends
<1>6. CASE Announces \/ StampStart
  BY <1>6 DEF Announces, StampStart, NextStamp, Noted
<1>7. CASE StampEnd \/ SetTitle
  BY <1>7 DEF StampEnd, SetTitle
<1>8. CASE Reconcile
  BY <1>8 DEF Reconcile, Renames
<1>9. CASE UserRenames \/ RenameFails
  BY <1>9 DEF UserRenames, RenameFails
<1>10. CASE RenameDir
  BY <1>10 DEF RenameDir
<1>11. CASE Freeze \/ Thaw
  BY <1>11 DEF Freeze, Thaw
<1>12. CASE UNCHANGED vars
  BY <1>12 DEF vars
<1>13. QED
  BY <1>1, <1>2, <1>3, <1>4, <1>5, <1>6, <1>7, <1>8, <1>9, <1>10, <1>11, <1>12,
     NextCases

\* A session that has a title and no lease has a directory that is named after
\* a title, unless the rename was tried and failed (locations.rs 345, 593-619;
\* content.rs 331-344), also when starts and ends overlap.
THEOREM RenameNotForgottenAlways == Spec => []RenameNotForgotten
<1>1. Init => NameInv
  BY TypeInit DEF Init, NameInv, RenameTitled, RenameNotForgotten
<1>2. NameInv /\ [Next]_vars => NameInv'
  BY NameStep
<1>3. NameInv => RenameNotForgotten
  BY DEF NameInv
<1>4. QED
  BY <1>1, <1>2, <1>3, PTL DEF Spec

-------------------------------------------------------------------------------
(* Where no start overlaps an end, a lease that was granted is still there. *)

\* The leases that starts think they hold.
Owed == {x \in Starts \X {"page", "command"} : x[2] \in held[x[1]]}

OwedOK == IsFiniteSet(Owed) /\ Cardinality(Owed) <= leases

EndWaits == \E n \in DOMAIN stamps : stamps[n] = "end"

\* While a recording ends, and until that is stamped, there is no other start;
\* so the stamp takes no lease from one.
AloneOK ==
  /\ \A s \in Starts : step[s] = "idle" => held[s] = {}
  /\ \A s \in Starts :
       step[s] \in {"hook", "failed"} => held[s] \subseteq {"page"}
  /\ Ending => \A s \in Starts \ {by} : step[s] = "idle"
  /\ EndWaits => take = "none"

LeaseInv ==
  /\ TypeInv /\ OwedOK /\ AloneOK
  /\ lock \in {"rename", "move"} => Owed = {}
  /\ RecorderDirStays /\ HookDirStays

\* A reservation is counted once and owed once, or neither.
LEMMA ReservationCounts ==
  ASSUME TypeOK, IsFiniteSet(Owed), NEW s \in Starts, NEW who \in {"page", "command"},
         who \notin held[s], Prepare(s, who)
  PROVE  /\ IsFiniteSet(Owed)' /\ Cardinality(Owed) \in Nat
         /\ \/ leases' = leases /\ Cardinality(Owed)' = Cardinality(Owed)
            \/ leases' = leases + 1 /\ Cardinality(Owed)' = Cardinality(Owed) + 1
<1>0. Cardinality(Owed) \in Nat
  BY FS_CardinalityType
<1>1. CASE UNCHANGED <<leases, held>>
  BY <1>0, <1>1 DEF Owed
<1>2. CASE leases' = Reserved(leases) /\ held' = [held EXCEPT ![s] = @ \cup {who}]
  <2>1. Owed' = Owed \cup {<<s, who>>} /\ <<s, who>> \notin Owed
    BY <1>2 DEF Owed, TypeOK
  <2>2. IsFiniteSet(Owed') /\ Cardinality(Owed') = Cardinality(Owed) + 1
    BY <2>1, FS_AddElement
  <2>3. QED
    BY <1>0, <1>2, <2>2 DEF Reserved
<1>3. QED
  BY <1>1, <1>2 DEF Prepare

\* A release takes back what was owed, and never one that was not.
LEMMA ReleaseCounts ==
  ASSUME TypeOK, IsFiniteSet(Owed), NEW s \in Starts, NEW who \in {"page", "command"},
         NEW from, NEW to, GivesBack(s, who, from, to)
  PROVE  /\ IsFiniteSet(Owed)' /\ Cardinality(Owed) \in Nat
         /\ Cardinality(Owed)' \in Nat
         /\ \/ leases' = leases /\ Cardinality(Owed)' = Cardinality(Owed)
            \/ leases' = Released(leases) /\ Cardinality(Owed)' = Cardinality(Owed) - 1
<1>1. held' = [held EXCEPT ![s] = @ \ {who}]
  BY DEF GivesBack
<1>2. Owed' = Owed \ {<<s, who>>}
  BY <1>1 DEF Owed, TypeOK
<1>3. IsFiniteSet(Owed')
      /\ Cardinality(Owed') = IF <<s, who>> \in Owed THEN Cardinality(Owed) - 1
                              ELSE Cardinality(Owed)
  BY <1>2, FS_RemoveElement
<1>4. Cardinality(Owed) \in Nat /\ Cardinality(Owed') \in Nat
  BY <1>3, FS_CardinalityType
<1>5. <<s, who>> \in Owed <=> who \in held[s]
  BY DEF Owed
<1>6. leases' = IF who \in held[s] THEN Released(leases) ELSE leases
  BY DEF GivesBack, Release
<1>7. QED
  BY <1>3, <1>4, <1>5, <1>6

\* So a reservation keeps what is owed covered,
LEMMA OwedReserved ==
  ASSUME TypeOK, OwedOK, NEW s \in Starts, NEW who \in {"page", "command"},
         who \notin held[s], Prepare(s, who)
  PROVE  OwedOK'
BY ReservationCounts DEF OwedOK, TypeOK

\* and so does a release.
LEMMA OwedReleased ==
  ASSUME TypeOK, OwedOK, NEW s \in Starts, NEW who \in {"page", "command"},
         NEW from, NEW to, GivesBack(s, who, from, to)
  PROVE  OwedOK'
<1>1. /\ IsFiniteSet(Owed)' /\ Cardinality(Owed) \in Nat /\ Cardinality(Owed)' \in Nat
      /\ \/ leases' = leases /\ Cardinality(Owed)' = Cardinality(Owed)
         \/ leases' = Released(leases) /\ Cardinality(Owed)' = Cardinality(Owed) - 1
  BY ReleaseCounts DEF OwedOK
<1>2. QED
  BY <1>1 DEF OwedOK, Released, TypeOK

\* Nothing is owed when every start is idle.
LEMMA IdleOwesNothing ==
  ASSUME AloneOK, \A s \in Starts : step[s] = "idle"
  PROVE  Owed = {}
BY DEF AloneOK, Owed

\* What is owed shrinks when a recording ends and takes its leases with it.
LEMMA OwedEnds ==
  ASSUME TypeOK, OwedOK, leases' = leases, by \in Starts,
         held' = [held EXCEPT ![by] = {}]
  PROVE  OwedOK'
<1>1. Owed' \in SUBSET Owed
  BY DEF Owed, TypeOK
<1>2. IsFiniteSet(Owed') /\ Cardinality(Owed') <= Cardinality(Owed)
  BY <1>1, FS_Subset DEF OwedOK
<1>3. Cardinality(Owed) \in Nat /\ Cardinality(Owed') \in Nat
  BY <1>2, FS_CardinalityType DEF OwedOK
<1>4. QED
  BY <1>2, <1>3 DEF OwedOK, TypeOK

\* Without a lease nothing is owed, so a rename and a move disturb nobody.
LEMMA NoLeaseNothingOwed ==
  ASSUME OwedOK, leases = 0
  PROVE  Owed = {}
<1>1. IsFiniteSet(Owed) /\ Cardinality(Owed) \in Nat
  BY FS_CardinalityType DEF OwedOK
<1>2. Cardinality(Owed) = 0
  BY <1>1 DEF OwedOK
<1>3. QED
  BY <1>1, <1>2, FS_EmptySet

\* If nothing is owed, no start thinks it holds a lease.
LEMMA NothingOwedNoneHeld ==
  ASSUME TypeOK, Owed = {}, NEW s \in Starts
  PROVE  held[s] = {}
<1> SUFFICES ASSUME NEW who \in held[s] PROVE FALSE
  OBVIOUS
<1>1. who \in {"page", "command"}
  BY DEF TypeOK
<1>2. <<s, who>> \in Owed
  BY <1>1 DEF Owed
<1>3. QED
  BY <1>2

\* At first nobody holds a lease.
LEMMA LeaseInit == Init => LeaseInv
<1> SUFFICES ASSUME Init PROVE LeaseInv
  OBVIOUS
<1>1. Owed = {}
  BY DEF Init, Owed
<1>2. OwedOK
  BY <1>1, FS_EmptySet DEF OwedOK, Init
<1>3. QED
  BY <1>1, <1>2, TypeInit
     DEF Init, LeaseInv, AloneOK, Ending, EndWaits, RecorderDirStays,
         HookDirStays, Protected

\* Each action keeps what is owed covered, and each start alone with its end.
LEMMA LeaseStep ==
  ~Overlaps /\ LeaseInv /\ RenameTitled /\ [Next]_vars => LeaseInv'
<1> SUFFICES ASSUME ~Overlaps, LeaseInv, RenameTitled, [Next]_vars
    PROVE  LeaseInv'
  OBVIOUS
<1> DEFINE Rest == /\ OwedOK /\ AloneOK
                   /\ lock \in {"rename", "move"} => Owed = {}
                   /\ RecorderDirStays /\ HookDirStays
<1>a. TypeInv'
  BY TypeStep DEF LeaseInv
<1>b. TypeInv /\ TypeOK /\ TakeOK /\ Rest
  BY DEF LeaseInv, TypeInv
<1>c. SUFFICES Rest'
  BY <1>a DEF LeaseInv
<1> USE NoneAssumption
<1>1. ASSUME NEW s \in Starts, PageReserves(s) PROVE Rest'
  <2>1. held[s] = {} /\ ~Ending
    BY <1>1, <1>b DEF PageReserves, At, AloneOK
  <2>2. OwedOK'
    BY <1>1, <1>b, <2>1, OwedReserved DEF PageReserves
  <2>3. /\ held' \in [Starts -> SUBSET {"page", "command"}]
        /\ held'[s] \subseteq {"page"}
        /\ \A r \in Starts \ {s} : held'[r] = held[r]
    BY <1>1, <1>b, <2>1 DEF PageReserves, Prepare, TypeOK
  <2>4. step' = [step EXCEPT ![s] = "hook"] /\ step[s] = "idle"
    BY <1>1 DEF PageReserves, At
  <2>5. AloneOK'
    <3>1. ~Ending' /\ UNCHANGED <<take, stamps>>
      BY <1>1, <2>1 DEF PageReserves, Ending, takeVars
    <3>2. EndWaits' => take' = "none"
      BY <1>b, <3>1 DEF AloneOK, EndWaits
    <3>3. \A r \in Starts :
            /\ step'[r] = "idle" => held'[r] = {}
            /\ step'[r] \in {"hook", "failed"} => held'[r] \subseteq {"page"}
      BY <1>b, <2>3, <2>4 DEF AloneOK, TypeOK
    <3>4. QED
      BY <3>1, <3>2, <3>3 DEF AloneOK
  <2>6. by # s /\ (Protected' => Protected)
    BY <1>1, <1>b, <2>3, <2>4
       DEF PageReserves, TakeOK, Protected, TypeOK, takeVars
  <2>7. HookDirStays' /\ RecorderDirStays'
    BY <1>1, <1>b, <2>3, <2>4, <2>6
       DEF PageReserves, HookDirStays, RecorderDirStays, TypeOK, takeVars,
           nameVars
  <2>8. QED
    BY <1>1, <2>2, <2>5, <2>7 DEF PageReserves
<1>2. ASSUME NEW s \in Starts, CommandReserves(s) PROVE Rest'
  <2>1. "command" \notin held[s] /\ step[s] = "hook"
    BY <1>2, <1>b DEF CommandReserves, At, AloneOK
  <2>2. OwedOK'
    BY <1>2, <1>b, <2>1, OwedReserved DEF CommandReserves
  <2>3. held' \in [Starts -> SUBSET {"page", "command"}]
        /\ \A r \in Starts \ {s} : held'[r] = held[r]
    BY <1>2, <1>b DEF CommandReserves, Prepare, TypeOK
  <2>4. step' = [step EXCEPT ![s] = "asked"]
    BY <1>2 DEF CommandReserves, At
  <2>5. AloneOK'
    <3>1. ~Ending
      BY <1>b, <2>1 DEF AloneOK, TakeOK
    <3>2. QED
      BY <1>2, <1>b, <2>3, <2>4, <3>1
         DEF CommandReserves, AloneOK, Ending, EndWaits, TypeOK, takeVars
  <2>6. by # s /\ (Protected' => Protected)
    BY <1>2, <1>b, <2>1, <2>3, <2>4
       DEF CommandReserves, TakeOK, Protected, TypeOK, takeVars
  <2>7. HookDirStays' /\ RecorderDirStays'
    BY <1>2, <1>b, <2>3, <2>4, <2>6
       DEF CommandReserves, HookDirStays, RecorderDirStays, TypeOK, takeVars,
           nameVars
  <2>8. QED
    BY <1>2, <2>2, <2>5, <2>7 DEF CommandReserves
<1>3. ASSUME NEW s \in Starts, HookFails(s) \/ RootRefuses(s) PROVE Rest'
  <2>1. OwedOK' /\ (lock' \in {"rename", "move"} => Owed' = {})
    BY <1>3, <1>b DEF HookFails, RootRefuses, OwedOK, Owed
  <2>2. AloneOK'
    BY <1>3, <1>b
       DEF HookFails, RootRefuses, At, AloneOK, Ending, EndWaits, TypeOK,
           takeVars
  <2>3. HookDirStays' /\ RecorderDirStays'
    BY <1>3, <1>b
       DEF HookFails, RootRefuses, At, HookDirStays, RecorderDirStays,
           Protected, TypeOK, takeVars, nameVars
  <2>4. QED
    BY <2>1, <2>2, <2>3
<1>4. ASSUME NEW s \in Starts, RecorderOpens(s) PROVE Rest'
  <2>1. OwedOK' /\ (lock' \in {"rename", "move"} => Owed' = {})
    BY <1>4, <1>b DEF RecorderOpens, OwedOK, Owed
  <2>2. ~Ending
    BY <1>4, <1>b DEF RecorderOpens, At, AloneOK, TakeOK
  <2>3. AloneOK'
    BY <1>4, <1>b, <2>2
       DEF RecorderOpens, At, AloneOK, Ending, EndWaits, TypeOK
  <2>4. HookDirStays' /\ RecorderDirStays'
    BY <1>4, <1>b
       DEF RecorderOpens, At, HookDirStays, RecorderDirStays, TypeOK, nameVars
  <2>5. QED
    BY <2>1, <2>3, <2>4
<1>5. ASSUME NEW s \in Starts, CommandReleases(s) \/ PageReleases(s) PROVE Rest'
  <2>1. PICK who \in {"page", "command"}, from \in {"refused", "failed"},
             to \in {"failed", "idle"} :
             GivesBack(s, who, from, to)
             /\ (to = "idle" => who = "page" /\ from = "failed")
             /\ (to = "failed" => who = "command")
    BY <1>5 DEF CommandReleases, PageReleases
  <2>2. OwedOK'
    BY <1>b, <2>1, OwedReleased
  <2>3. Owed' \subseteq Owed
    BY <1>b, <2>1 DEF GivesBack, Owed, TypeOK
  <2>4. lock' \in {"rename", "move"} => lock' = lock
    BY <2>1 DEF GivesBack, Release
  <2>5. step' = [step EXCEPT ![s] = to] /\ step[s] = from
        /\ held' = [held EXCEPT ![s] = @ \ {who}]
    BY <2>1 DEF GivesBack, At
  <2>6. AloneOK'
    <3>1. ~Ending /\ ~Ending'
      BY <1>b, <2>1, <2>5
         DEF GivesBack, AloneOK, TakeOK, Ending, EndWaits, takeVars
    <3>2. UNCHANGED <<take, by, stamps>>
      BY <2>1 DEF GivesBack, takeVars
    <3>3. QED
      BY <1>b, <2>1, <2>5, <3>1, <3>2
         DEF AloneOK, EndWaits, TypeOK
  <2>7. HookDirStays' /\ RecorderDirStays'
    BY <1>b, <2>1, <2>5
       DEF GivesBack, HookDirStays, RecorderDirStays, Protected, TypeOK,
           TakeOK, takeVars, nameVars
  <2>8. QED
    BY <1>b, <2>2, <2>3, <2>4, <2>6, <2>7
<1>6. CASE ChildFails
  <2>1. OwedOK' /\ (lock' \in {"rename", "move"} => Owed' = {})
    BY <1>6, <1>b DEF ChildFails, OwedOK, Owed
  <2>2. ~Ending
    BY <1>6, <1>b DEF ChildFails, Ending, AloneOK, EndWaits
  <2>3. AloneOK'
    BY <1>6, <1>b, <2>2 DEF ChildFails, At, AloneOK, Ending, EndWaits, TypeOK
  <2>4. HookDirStays' /\ RecorderDirStays'
    BY <1>6, <1>b
       DEF ChildFails, At, HookDirStays, RecorderDirStays, Protected, TypeOK,
           nameVars
  <2>5. QED
    BY <2>1, <2>3, <2>4
<1>7. CASE Announces
  <2>1. OwedOK'
    <3>1. Owed' = Owed /\ leases <= leases' /\ leases' \in Nat
      BY <1>7, <1>b DEF Announces, Noted, Owed, TypeOK, startVars
    <3>2. Cardinality(Owed) \in Nat
      BY <1>b, FS_CardinalityType DEF OwedOK
    <3>3. QED
      BY <1>b, <3>1, <3>2 DEF OwedOK, TypeOK
  <2>2. ~EndWaits /\ ~EndWaits'
    BY <1>7, <1>b DEF Announces, AloneOK, EndWaits, TypeOK
  <2>3. AloneOK'
    BY <1>7, <1>b, <2>2 DEF Announces, AloneOK, Ending, EndWaits, startVars
  <2>4. QED
    BY <1>7, <1>b, <2>1, <2>3
       DEF Announces, Owed, HookDirStays, RecorderDirStays, Protected,
           startVars, nameVars
<1>8. CASE RecorderCloses
  <2>1. AloneOK'
    BY <1>8, <1>b DEF RecorderCloses, AloneOK, Ending, EndWaits, startVars
  <2>2. QED
    BY <1>8, <1>b, <2>1
       DEF RecorderCloses, OwedOK, Owed, HookDirStays, RecorderDirStays,
           Protected, startVars, nameVars
<1>9. CASE Ends
  <2>1. by \in Starts /\ Ending
    BY <1>9, <1>b DEF Ends, TakeOK, Ending
  <2>2. OwedOK'
    BY <1>9, <1>b, <2>1, OwedEnds DEF Ends
  <2>3. \A s \in Starts : step'[s] = "idle" /\ held'[s] = {}
    BY <1>9, <1>b, <2>1 DEF Ends, At, AloneOK, TypeOK
  <2>4. AloneOK' /\ HookDirStays'
    BY <1>9, <2>3 DEF Ends, AloneOK, HookDirStays
  <2>5. QED
    BY <1>9, <1>b, <2>2, <2>3, <2>4
       DEF Ends, Owed, RecorderDirStays, Protected
<1>10. CASE StampStart
  <2>1. OwedOK'
    <3>1. Owed' = Owed /\ leases <= leases' /\ leases' \in Nat
      BY <1>10, <1>b DEF StampStart, Noted, Owed, TypeOK, startVars
    <3>2. Cardinality(Owed) \in Nat
      BY <1>b, FS_CardinalityType DEF OwedOK
    <3>3. QED
      BY <1>b, <3>1, <3>2 DEF OwedOK, TypeOK
  <2>2. EndWaits' => EndWaits
    BY <1>10, <1>b DEF StampStart, NextStamp, EndWaits, TypeOK
  <2>3. AloneOK'
    BY <1>10, <1>b, <2>2
       DEF StampStart, AloneOK, Ending, EndWaits, startVars, takeVars
  <2>4. QED
    BY <1>10, <1>b, <2>1, <2>3
       DEF StampStart, Owed, HookDirStays, RecorderDirStays, Protected,
           startVars, nameVars, takeVars
<1>11. CASE StampEnd
  <2>1. EndWaits
    BY <1>11, <1>b DEF StampEnd, NextStamp, EndWaits, TypeOK
  <2>2. \A s \in Starts : step[s] = "idle"
    BY <1>b, <2>1 DEF AloneOK, Ending, EndWaits, TakeOK
  <2>3. Owed = {} /\ Owed' = {}
    BY <1>11, <1>b, <2>2, IdleOwesNothing DEF StampEnd, Owed, startVars
  <2>4. OwedOK'
    BY <1>11, <2>3, FS_EmptySet DEF OwedOK, StampEnd
  <2>5. EndWaits' => EndWaits
    BY <2>1
  <2>6. AloneOK'
    BY <1>11, <1>b, <2>2, <2>5
       DEF StampEnd, AloneOK, Ending, EndWaits, startVars, takeVars
  <2>7. QED
    BY <1>11, <1>b, <2>3, <2>4, <2>6
       DEF StampEnd, HookDirStays, RecorderDirStays, Protected, startVars,
           nameVars, takeVars
<1>12. CASE SetTitle
  <2>1. AloneOK'
    BY <1>12, <1>b
       DEF SetTitle, AloneOK, Ending, EndWaits, startVars, takeVars
  <2>2. QED
    BY <1>12, <1>b, <2>1
       DEF SetTitle, OwedOK, Owed, HookDirStays, RecorderDirStays, Protected,
           startVars, takeVars
<1>13. CASE Reconcile \/ UserRenames \/ RenameFails \/ Freeze \/ Thaw
  <2>1. lock' \in {"rename", "move"} => leases = 0
    BY <1>13 DEF Reconcile, Renames, UserRenames, RenameFails, Freeze, Thaw
  <2>2. UNCHANGED <<leases, dir, startVars, takeVars, stamps>>
    BY <1>13 DEF Reconcile, UserRenames, RenameFails, Freeze, Thaw, nameVars
  <2>3. AloneOK'
    BY <1>b, <2>2 DEF AloneOK, Ending, EndWaits, startVars, takeVars
  <2>4. QED
    BY <1>b, <2>1, <2>2, <2>3, NoLeaseNothingOwed
       DEF OwedOK, Owed, HookDirStays, RecorderDirStays, Protected, startVars,
           takeVars
<1>14. CASE RenameDir
  <2>1. Owed = {}
    BY <1>14, <1>b DEF RenameDir
  <2>2. \A s \in Starts : held[s] = {}
    BY <1>b, <2>1, NothingOwedNoneHeld
  <2>3. AloneOK'
    BY <1>14, <1>b DEF RenameDir, AloneOK, Ending, EndWaits, startVars, takeVars
  <2>4. ~Protected /\ ~Protected'
    BY <1>14, <1>b, <2>2 DEF RenameDir, Protected, TakeOK, startVars, takeVars
  <2>5. QED
    BY <1>14, <1>b, <2>2, <2>3, <2>4
       DEF RenameDir, OwedOK, Owed, HookDirStays, RecorderDirStays, startVars
<1>15. CASE UNCHANGED vars
  BY <1>15, <1>b
     DEF vars, OwedOK, Owed, AloneOK, Ending, EndWaits, HookDirStays,
         RecorderDirStays, Protected, startVars, nameVars, takeVars
<1>16. QED
  BY <1>1, <1>2, <1>3, <1>4, <1>5, <1>6, <1>7, <1>8, <1>9, <1>10, <1>11, <1>12,
     <1>13, <1>14, <1>15, NextCases

\* What starts think they hold stays covered for ever.
LEMMA LeaseInvAlways == ~Overlaps => (Spec => []LeaseInv)
<1> SUFFICES ASSUME ~Overlaps PROVE Spec => []LeaseInv
  OBVIOUS
<1>1. Init => LeaseInv /\ RenameTitled
  BY LeaseInit DEF Init, RenameTitled
<1>2. LeaseInv /\ RenameTitled /\ [Next]_vars => LeaseInv' /\ RenameTitled'
  BY LeaseStep, TypeStep DEF LeaseInv
<1>3. QED
  BY <1>1, <1>2, PTL DEF Spec

\* No rename moves the directory under a recorder that has a lease
\* (lib.rs 66-73), however many starts are refused, fail or give leases back.
THEOREM RecorderDirStaysAlways == ~Overlaps => (Spec => []RecorderDirStays)
<1> SUFFICES ASSUME ~Overlaps PROVE Spec => []RecorderDirStays
  OBVIOUS
<1>1. LeaseInv => RecorderDirStays
  BY DEF LeaseInv
<1>2. QED
  BY <1>1, LeaseInvAlways, PTL

\* The path the pre-start hook was given stays the session's
\* (locations.rs 548-553).
THEOREM HookDirStaysAlways == ~Overlaps => (Spec => []HookDirStays)
<1> SUFFICES ASSUME ~Overlaps PROVE Spec => []HookDirStays
  OBVIOUS
<1>1. LeaseInv => HookDirStays
  BY DEF LeaseInv
<1>2. QED
  BY <1>1, LeaseInvAlways, PTL

\* No vault is moved while something is recorded into it (lib.rs 238-262).
THEOREM NoMoveAlways == ~Overlaps => (Spec => []NoMoveWhileRecording)
<1> SUFFICES ASSUME ~Overlaps PROVE Spec => []NoMoveWhileRecording
  OBVIOUS
<1>1. LeaseInv => NoMoveWhileRecording
  <2> SUFFICES ASSUME LeaseInv, lock = "move"
      PROVE  /\ ~Protected
             /\ \A s \in Starts : step[s] = "hook" => "page" \notin held[s]
    BY DEF NoMoveWhileRecording
  <2>1. \A s \in Starts : held[s] = {}
    BY NothingOwedNoneHeld DEF LeaseInv, TypeInv
  <2>2. QED
    BY <2>1 DEF Protected, LeaseInv, TypeInv, TakeOK
<1>2. QED
  BY <1>1, LeaseInvAlways, PTL

-------------------------------------------------------------------------------
(* No lease is left over, overlaps included. *)

\* The stamp that clears the leases is still to come.
EndComes == take \in {"live", "closed"} \/ EndWaits

\* A start has, before it asked, only what the page was granted; there are more
\* leases than are owed only while an end is to come; and a start stamp, which
\* may note a lease anew, is followed by an end.
SurplusInv ==
  /\ TypeInv /\ RenameTitled
  /\ \A s \in Starts : step[s] = "idle" => held[s] = {}
  /\ \A s \in Starts :
       step[s] \in {"hook", "failed"} => held[s] \subseteq {"page"}
  /\ IsFiniteSet(Owed)
  /\ leases <= Cardinality(Owed) \/ EndComes
  /\ \A i \in DOMAIN stamps : stamps[i] = "start" =>
       \/ take \in {"live", "closed"}
       \/ \E j \in DOMAIN stamps : i < j /\ stamps[j] = "end"

\* At first there is no lease.
LEMMA SurplusInit == Init => SurplusInv
<1> SUFFICES ASSUME Init PROVE SurplusInv
  OBVIOUS
<1>1. Owed = {}
  BY DEF Init, Owed
<1>2. IsFiniteSet(Owed) /\ Cardinality(Owed) = 0
  BY <1>1, FS_EmptySet
<1>3. QED
  BY <1>2, TypeInit DEF Init, SurplusInv, RenameTitled

\* Each action that grants a lease owes it, drops as many as it forgives, or is
\* followed by an end.
LEMMA SurplusStep == SurplusInv /\ [Next]_vars => SurplusInv'
<1> SUFFICES ASSUME SurplusInv, [Next]_vars PROVE SurplusInv'
  OBVIOUS
<1> DEFINE HeldOK ==
             /\ \A s \in Starts : step[s] = "idle" => held[s] = {}
             /\ \A s \in Starts :
                  step[s] \in {"hook", "failed"} => held[s] \subseteq {"page"}
           Few == IsFiniteSet(Owed) /\ (leases <= Cardinality(Owed) \/ EndComes)
           Followed == \A i \in DOMAIN stamps : stamps[i] = "start" =>
                         \/ take \in {"live", "closed"}
                         \/ \E j \in DOMAIN stamps : i < j /\ stamps[j] = "end"
<1>a. TypeInv' /\ RenameTitled'
  BY TypeStep DEF SurplusInv
<1>b. TypeOK /\ TakeOK /\ HeldOK /\ Few /\ Followed
  BY DEF SurplusInv, TypeInv
<1>c. SUFFICES HeldOK' /\ Few' /\ Followed'
  BY <1>a DEF SurplusInv
<1> USE NoneAssumption DEF startVars, nameVars, takeVars
<1>1. ASSUME UNCHANGED <<leases, held, step, stamps>>,
             take' = take \/ (take' \in {"live", "closed"} /\ take \in {"live", "closed"})
      PROVE  HeldOK' /\ Few' /\ Followed'
  BY <1>b, <1>1 DEF Owed, EndComes, EndWaits
<1>2. ASSUME NEW s \in Starts, PageReserves(s) \/ CommandReserves(s)
      PROVE  HeldOK' /\ Few' /\ Followed'
  <2>1. PICK who \in {"page", "command"}, from \in {"idle", "hook"}, to \in {"hook", "asked"} :
          /\ Prepare(s, who) /\ At(s, from, to)
          /\ from = "idle" <=> who = "page"
          /\ to = "hook" <=> who = "page"
    BY <1>2 DEF PageReserves, CommandReserves
  <2>2. UNCHANGED <<take, stamps>>
    BY <1>2 DEF PageReserves, CommandReserves
  <2>3. who \notin held[s]
    BY <1>b, <2>1 DEF At
  <2>4. Few'
    BY <1>b, <2>1, <2>2, <2>3, ReservationCounts DEF EndComes, EndWaits, TypeOK
  <2>5. HeldOK'
    BY <1>b, <2>1 DEF At, Prepare, TypeOK
  <2>6. QED
    BY <1>b, <2>2, <2>4, <2>5
<1>3. ASSUME NEW s \in Starts, HookFails(s) \/ RootRefuses(s)
      PROVE  HeldOK' /\ Few' /\ Followed'
  BY <1>b, <1>3 DEF HookFails, RootRefuses, At, Owed, EndComes, EndWaits, TypeOK
<1>4. ASSUME NEW s \in Starts, RecorderOpens(s)
      PROVE  HeldOK' /\ Few' /\ Followed'
  BY <1>b, <1>4 DEF RecorderOpens, At, Owed, EndComes, EndWaits, TypeOK
<1>5. ASSUME NEW s \in Starts, CommandReleases(s) \/ PageReleases(s)
      PROVE  HeldOK' /\ Few' /\ Followed'
  <2>1. PICK who \in {"page", "command"}, from \in {"refused", "failed"},
             to \in {"failed", "idle"} :
             GivesBack(s, who, from, to)
             /\ (to = "idle" => who = "page" /\ from = "failed")
             /\ (to = "failed" => who = "command")
    BY <1>5 DEF CommandReleases, PageReleases
  <2>2. UNCHANGED <<take, stamps>>
    BY <2>1 DEF GivesBack
  <2>3. Few'
    <3>1. /\ IsFiniteSet(Owed)' /\ Cardinality(Owed) \in Nat
          /\ Cardinality(Owed)' \in Nat
          /\ \/ leases' = leases /\ Cardinality(Owed)' = Cardinality(Owed)
             \/ leases' = Released(leases) /\ Cardinality(Owed)' = Cardinality(Owed) - 1
      BY <1>b, <2>1, ReleaseCounts
    <3>2. EndComes' = EndComes
      BY <2>2 DEF EndComes, EndWaits
    <3>3. QED
      BY <1>b, <3>1, <3>2 DEF Released, TypeOK
  <2>4. HeldOK'
    BY <1>b, <2>1 DEF GivesBack, At, TypeOK
  <2>5. QED
    BY <1>b, <2>2, <2>3, <2>4
<1>6. CASE ChildFails
  BY <1>b, <1>6 DEF ChildFails, At, Owed, EndComes, EndWaits, TypeOK, TakeOK
<1>7. CASE Announces
  <2>1. take' = "live" /\ UNCHANGED <<held, step>>
    BY <1>7 DEF Announces
  <2>2. QED
    BY <1>b, <2>1 DEF Owed, EndComes
<1>8. CASE RecorderCloses
  BY <1>1, <1>8 DEF RecorderCloses
<1>9. CASE Ends
  <2>1. /\ by \in Starts /\ stamps' = Append(stamps, "end")
        /\ step' = [step EXCEPT ![by] = "idle"] /\ held' = [held EXCEPT ![by] = {}]
    BY <1>b, <1>9 DEF Ends, At, TakeOK
  <2>2. stamps \in Seq({"start", "end"}) /\ Len(stamps) \in Nat
    BY <1>b DEF TypeOK
  <2>3. /\ Len(stamps) + 1 \in DOMAIN stamps' /\ stamps'[Len(stamps) + 1] = "end"
        /\ \A i \in DOMAIN stamps' : stamps'[i] = "start" => i < Len(stamps) + 1
    BY <2>1, <2>2
  <2>4. Followed' /\ EndComes'
    BY <2>3 DEF EndComes, EndWaits
  <2>5. Owed' \in SUBSET Owed
    BY <1>b, <2>1 DEF Owed, TypeOK
  <2>6. IsFiniteSet(Owed')
    BY <1>b, <2>5, FS_Subset
  <2>7. HeldOK'
    BY <1>b, <2>1 DEF TypeOK
  <2>8. QED
    BY <2>4, <2>6, <2>7
<1>10. CASE StampStart \/ StampEnd
  <2>1. /\ stamps \in Seq({"start", "end"}) /\ stamps # <<>> /\ stamps' = Tail(stamps)
        /\ UNCHANGED <<held, step, take>>
    BY <1>b, <1>10 DEF StampStart, StampEnd, NextStamp, TypeOK
  <2>2. /\ Len(stamps) \in Nat /\ DOMAIN stamps = 1 .. Len(stamps)
        /\ DOMAIN stamps' = 1 .. Len(stamps) - 1
        /\ \A i \in DOMAIN stamps' : stamps'[i] = stamps[i + 1]
    BY <2>1, Len(stamps) # 0
  <2>3. \A j \in DOMAIN stamps : 1 < j => j - 1 \in DOMAIN stamps' /\ stamps'[j - 1] = stamps[j]
    BY <2>2
  <2>4. Followed'
    <3> SUFFICES ASSUME NEW i \in DOMAIN stamps', stamps'[i] = "start",
                        take \notin {"live", "closed"}
                 PROVE  \E j \in DOMAIN stamps' : i < j /\ stamps'[j] = "end"
      BY <2>1
    <3>1. i + 1 \in DOMAIN stamps /\ stamps[i + 1] = "start"
      BY <2>2
    <3>2. PICK j \in DOMAIN stamps : i + 1 < j /\ stamps[j] = "end"
      BY <1>b, <3>1
    <3>3. j - 1 \in DOMAIN stamps' /\ i < j - 1 /\ stamps'[j - 1] = "end"
      BY <2>2, <2>3, <3>2
    <3>4. QED
      BY <3>3
  <2>5. Few'
    <3>1. Owed' = Owed /\ Cardinality(Owed) \in Nat
      BY <1>b, <2>1, FS_CardinalityType DEF Owed
    <3>2. CASE StampEnd
      BY <1>b, <3>1, <3>2 DEF StampEnd
    <3>3. CASE StampStart
      <4>1. stamps[1] = "start" /\ 1 \in DOMAIN stamps
        BY <2>1, <2>2, <3>3 DEF StampStart, NextStamp
      <4>2. take \in {"live", "closed"} \/ EndWaits'
        BY <1>b, <2>2, <2>3, <4>1 DEF EndWaits
      <4>3. QED
        BY <1>b, <2>1, <3>1, <4>2 DEF EndComes
    <3>4. QED
      BY <1>10, <3>2, <3>3
  <2>6. QED
    BY <1>b, <2>1, <2>4, <2>5
<1>11. QED
  <2>1. CASE SetTitle \/ Reconcile \/ UserRenames \/ RenameDir \/ RenameFails
             \/ Freeze \/ Thaw \/ UNCHANGED vars
    BY <1>1, <2>1 DEF SetTitle, Reconcile, UserRenames, RenameDir, RenameFails, Freeze,
                      Thaw, vars
  <2>2. QED
    BY <1>2, <1>3, <1>4, <1>5, <1>6, <1>7, <1>8, <1>9, <1>10, <2>1, NextCases

\* Once every start has ended or failed and every stamp is applied, no lease is
\* left (locations.rs 345, 548-619), also when starts and ends overlap.
THEOREM NoLeakedLeaseAlways == Spec => []NoLeakedLease
<1>1. SurplusInv => NoLeakedLease
  <2> SUFFICES ASSUME SurplusInv, \A s \in Starts : step[s] = "idle",
                      take = "none", stamps = <<>>
               PROVE  leases = 0
    BY DEF NoLeakedLease
  <2>1. Owed = {}
    BY DEF SurplusInv, Owed
  <2>2. Cardinality(Owed) = 0
    BY <2>1, FS_EmptySet
  <2>3. ~EndComes
    BY DEF EndComes, EndWaits
  <2>4. QED
    BY <2>2, <2>3 DEF SurplusInv, TypeInv, TypeOK
<1>2. QED
  BY <1>1, SurplusInit, SurplusStep, PTL DEF Spec
===============================================================================

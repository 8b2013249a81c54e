--------------------------- MODULE CrawlerProofs ---------------------------
(***************************************************************************)
(* Theorems about Crawler, for any names, any directory trees and any      *)
(* filters.                                                                *)
(***************************************************************************)
EXTENDS Crawler, TLAPS

\* A directory whose name is that of a flow.
IsPlace(n) == n \in Names \ Dotted /\ disk[n].kind = "directory"

\* The crawl goes on only while there has been nothing to stumble over.
Smooth == /\ pc = "threw" => Stumbles
          /\ pc # "threw" => /\ exists
                             /\ \A n \in Names \ (Dotted \cup todo) : disk[n].kind # "plain"
\* Each entry is either still to come or was announced.
Told == /\ \A n \in todo \cup detected : disk[n].kind # "absent"
        /\ detected \subseteq Names \ Dotted
        /\ pc # "threw" =>
              \A n \in Names \ Dotted : disk[n].kind # "absent" => n \in todo \cup detected
\* The directory being iterated is one of the announced.
Inside == /\ here # Nowhere => /\ pc = "crawl" /\ IsPlace(here.name) /\ here.name \in detected
                               /\ here.files \subseteq disk[here.name].files
          /\ pc \in {"select", "done"} => todo = {}
\* paths_ has what was there, and misses only what is still to be visited.
Sound == \A n \in Names : \A f \in {"script", "other"} :
             <<n, f>> \in paths => IsPlace(n) /\ n \in detected /\ f \in disk[n].files
Complete == pc # "threw" => \A n \in Names \ todo :
                IsFlow(n) => \/ <<n, "script">> \in paths
                             \/ here # Nowhere /\ here.name = n /\ "script" \in here.files
Chosen == flows = IF pc = "done" THEN {n \in Names : Passes(n) /\ <<n, "script">> \in paths}
                                 ELSE {}

IInv == TypeOK /\ Smooth /\ Told /\ Inside /\ Sound /\ Complete /\ Chosen

LEMMA NamesAreNotZero == 0 \notin Names
BY CrawlerAssumption

LEMMA InitInv == Init => IInv
<1> SUFFICES ASSUME Init  PROVE IInv  OBVIOUS
<1>1. TypeOK /\ Smooth /\ Told /\ Inside /\ Sound
      BY DEF Init, TypeOK, Smooth, Stumbles, Told, Inside, Sound, Nowhere
<1>2. Complete /\ Chosen  BY DEF Init, Complete, IsFlow, Chosen
<1> QED  BY <1>1, <1>2 DEF IInv

LEMMA EnterStep == ASSUME IInv, NEW n \in Names, Enter(n)  PROVE IInv'
<1> USE DEF IInv
<1>1. /\ pc = "crawl" /\ here = Nowhere /\ n \in todo /\ todo' = todo \ {n}
      /\ disk[n].kind \in {"directory", "plain"}
      /\ UNCHANGED <<exists, disk, filter, paths, flows>>
      BY DEF Enter, input, Told, TypeOK, Entries, Absent, Plain
<1>2. CASE Skipped(n)
  <2>1. n \in Dotted /\ UNCHANGED <<pc, here, detected>>  BY <1>2 DEF Enter, Skipped
  <2>2. TypeOK' /\ Smooth' /\ Told'  BY <1>1, <2>1 DEF TypeOK, Smooth, Stumbles, Told
  <2>3. Inside' /\ Sound' /\ Complete' /\ Chosen'
        BY <1>1, <2>1 DEF Inside, Sound, Complete, Chosen, IsPlace, IsFlow, Passes
  <2> QED  BY <2>2, <2>3
<1>3. CASE ~Skipped(n) /\ disk[n].kind = "directory"
  <2>1. /\ n \notin Dotted /\ detected' = detected \cup {n}
        /\ here' = [name |-> n, files |-> disk[n].files] /\ pc' = pc
        BY <1>1, <1>3 DEF Enter, Skipped
  <2>2. here' # Nowhere  BY <2>1, NamesAreNotZero DEF Nowhere
  <2>3. disk[n].files \in SUBSET Files
        BY <1>1, <1>3, CrawlerAssumption DEF TypeOK, Entries, Absent, Plain
  <2>4. TypeOK' /\ Smooth' /\ Told'
        BY <1>1, <1>3, <2>1, <2>3 DEF TypeOK, Smooth, Stumbles, Told
  <2>5. Inside' /\ Sound' /\ Chosen'
        BY <1>1, <1>3, <2>1 DEF Inside, Sound, Chosen, IsPlace, Passes
  <2>6. Complete'
        BY <1>1, <1>3, <2>1, <2>2 DEF Complete, IsFlow
  <2> QED  BY <2>4, <2>5, <2>6
<1>4. CASE ~Skipped(n) /\ disk[n].kind = "plain"
  <2>1. /\ n \notin Dotted /\ detected' = detected \cup {n}
        /\ here' = here /\ pc' = "threw"
        BY <1>1, <1>4 DEF Enter, Skipped
  <2>2. TypeOK' /\ Smooth' /\ Told'
        BY <1>1, <1>4, <2>1 DEF TypeOK, Smooth, Stumbles, Told
  <2>3. Inside' /\ Sound' /\ Complete' /\ Chosen'
        BY <1>1, <2>1 DEF Inside, Sound, Complete, Chosen, IsPlace
  <2> QED  BY <2>2, <2>3
<1> QED  BY <1>1, <1>2, <1>3, <1>4

LEMMA VisitStep == ASSUME IInv, NEW f \in Files, Visit(f)  PROVE IInv'
<1> USE DEF IInv
<1>1. /\ f \in here.files /\ here' = [here EXCEPT !.files = @ \ {f}]
      /\ paths' = IF Recorded(f) THEN paths \cup {<<here.name, PathName(f)>>} ELSE paths
      /\ UNCHANGED <<pc, exists, disk, filter, todo, detected, flows>>
      BY DEF Visit, input
<1>2. here # Nowhere /\ here \in [name : Names, files : SUBSET Files]
      BY <1>1 DEF TypeOK, Nowhere
<1>3. /\ pc = "crawl" /\ IsPlace(here.name) /\ here.name \in detected
      /\ f \in disk[here.name].files /\ here.name \in Names \ Dotted
      BY <1>1, <1>2 DEF Inside, IsPlace
<1>4. /\ here'.name = here.name /\ here'.files = here.files \ {f}
      /\ here' \in [name : Names, files : SUBSET Files]
      BY <1>1, <1>2
<1>5. here' # Nowhere  BY <1>4, NamesAreNotZero DEF Nowhere
<1>6. paths' = IF f \in {"script", "other"} THEN paths \cup {<<here.name, f>>} ELSE paths
      BY <1>1 DEF Recorded, PathName
<1>7. TypeOK' /\ Smooth' /\ Told'
      BY <1>1, <1>3, <1>4, <1>6 DEF TypeOK, Smooth, Stumbles, Told
<1>8. Inside' /\ Chosen'
  <2>1. pc' = "crawl" /\ flows' = {}  BY <1>1, <1>3 DEF Chosen
  <2>2. Chosen'  BY <2>1 DEF Chosen
  <2>3. here'.files \subseteq disk'[here'.name].files
        BY <1>1, <1>2, <1>4 DEF Inside
  <2> QED  BY <1>1, <1>3, <1>4, <2>1, <2>2, <2>3 DEF Inside, IsPlace
<1>9. Sound'
  <2> SUFFICES ASSUME NEW n \in Names, NEW g \in {"script", "other"}, <<n, g>> \in paths'
               PROVE  IsPlace(n)' /\ n \in detected' /\ g \in disk'[n].files
      BY DEF Sound
  <2>1. CASE <<n, g>> \in paths  BY <1>1, <2>1 DEF Sound, IsPlace
  <2>2. CASE n = here.name /\ g = f  BY <1>1, <1>3, <2>2 DEF IsPlace
  <2> QED  BY <1>6, <2>1, <2>2
<1>10. Complete'
  <2> SUFFICES ASSUME NEW n \in Names \ todo, IsFlow(n)
               PROVE  \/ <<n, "script">> \in paths'
                      \/ here' # Nowhere /\ here'.name = n /\ "script" \in here'.files
      BY <1>1 DEF Complete, IsFlow
  <2>1. \/ <<n, "script">> \in paths
        \/ here.name = n /\ "script" \in here.files
        BY <1>3 DEF Complete
  <2> QED  BY <1>4, <1>5, <1>6, <2>1
<1> QED  BY <1>7, <1>8, <1>9, <1>10

LEMMA OtherSteps ==
    ASSUME IInv, LeaveDirectory \/ Crawled \/ Select \/ UNCHANGED vars
    PROVE  IInv'
<1> USE DEF IInv
<1>1. CASE LeaveDirectory
  <2>1. /\ here # Nowhere /\ here.files = {} /\ here' = Nowhere
        /\ UNCHANGED <<pc, exists, disk, filter, todo, detected, paths, flows>>
        BY <1>1 DEF LeaveDirectory, input
  <2>2. TypeOK' /\ Smooth' /\ Told'  BY <2>1 DEF TypeOK, Smooth, Stumbles, Told
  <2>3. Inside' /\ Sound' /\ Chosen'  BY <2>1 DEF Inside, Sound, Chosen, IsPlace, Passes
  <2>4. Complete'  BY <2>1 DEF Complete, IsFlow
  <2> QED  BY <2>2, <2>3, <2>4
<1>2. CASE Crawled
  <2>1. /\ pc = "crawl" /\ here = Nowhere /\ todo = {} /\ pc' = "select"
        /\ UNCHANGED <<exists, disk, filter, todo, here, detected, paths, flows>>
        BY <1>2 DEF Crawled, input
  <2>2. TypeOK' /\ Smooth' /\ Told'  BY <2>1 DEF TypeOK, Smooth, Stumbles, Told
  <2>3. Inside' /\ Sound' /\ Complete' /\ Chosen'
        BY <2>1 DEF Inside, Sound, Complete, Chosen, IsPlace, IsFlow
  <2> QED  BY <2>2, <2>3
<1>3. CASE Select
  <2>1. /\ pc = "select" /\ pc' = "done"
        /\ flows' = {n \in Names : Passes(n) /\ <<n, "script">> \in paths}
        /\ UNCHANGED <<exists, disk, filter, todo, here, detected, paths>>
        BY <1>3 DEF Select, input
  <2>2. TypeOK' /\ Smooth' /\ Told'  BY <2>1 DEF TypeOK, Smooth, Stumbles, Told
  <2>3. Inside' /\ Sound' /\ Complete' /\ Chosen'
        BY <2>1 DEF Inside, Sound, Complete, Chosen, IsPlace, IsFlow, Passes
  <2> QED  BY <2>2, <2>3
<1>4. CASE UNCHANGED vars
  <2>1. UNCHANGED <<pc, exists, disk, filter, todo, here, detected, paths, flows>>
        BY <1>4 DEF vars
  <2>2. TypeOK' /\ Smooth' /\ Told'  BY <2>1 DEF TypeOK, Smooth, Stumbles, Told
  <2>3. Inside' /\ Sound' /\ Complete' /\ Chosen'
        BY <2>1 DEF Inside, Sound, Complete, Chosen, IsPlace, IsFlow, Passes
  <2> QED  BY <2>2, <2>3
<1> QED  BY <1>1, <1>2, <1>3, <1>4

LEMMA StepInv == IInv /\ [Next]_vars => IInv'
BY EnterStep, VisitStep, OtherSteps DEF Next, Ended

LEMMA Invariance == Spec => []IInv
BY InitInv, StepInv, PTL DEF Spec

\* The crawler's variables keep their types; nothing with a leading dot gets
\* into paths_.
THEOREM TypeCorrect == Spec => []TypeOK
BY Invariance, PTL DEF IInv

\* What runs, and whether anything does, depends on the tree and the filter
\* alone, for any tree and in whatever order it is listed.
THEOREM OutcomeAlways == Spec => []OutcomeIsDetermined
<1>1. ASSUME IInv, pc = "done"  PROVE ~Stumbles /\ flows = {n \in filter : IsFlow(n)}
  <2>1. todo = {} /\ here = Nowhere  BY <1>1 DEF IInv, Inside
  <2>2. ~Stumbles  BY <1>1, <2>1 DEF IInv, Smooth, Stumbles
  <2>3. filter \subseteq Names  BY <1>1, CrawlerAssumption DEF IInv, TypeOK
  <2>4. \A n \in Names : <<n, "script">> \in paths <=> IsFlow(n)
        BY <1>1, <2>1 DEF IInv, Complete, Sound, IsPlace, IsFlow
  <2>5. flows = {n \in Names : n \in filter /\ <<n, "script">> \in paths}
        BY <1>1 DEF IInv, Chosen, Passes
  <2> QED  BY <2>2, <2>3, <2>4, <2>5
<1>2. IInv => OutcomeIsDetermined  BY <1>1 DEF OutcomeIsDetermined, IInv, Smooth
<1> QED  BY <1>2, Invariance, PTL

\* Nothing runs that was not announced as detected.
THEOREM AnnouncedAlways == Spec => []Announced
<1>1. ASSUME IInv  PROVE flows \subseteq detected
      BY <1>1 DEF IInv, Chosen, Sound
<1>2. ASSUME IInv, pc \in {"select", "done"}
      PROVE  detected = {n \in Names \ Dotted : disk[n].kind # "absent"}
      BY <1>2 DEF IInv, Told, Inside
<1> QED  BY <1>1, <1>2, Invariance, PTL DEF Announced
=============================================================================

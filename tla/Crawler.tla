------------------------------ MODULE Crawler ------------------------------
(***************************************************************************)
(* How cliot finds the flows it runs (src/src/crawler.hpp): it walks the   *)
(* directories below flows/, in whatever order the file system hands them  *)
(* out, and keeps those with a script whose name passes the filter.        *)
(*                                                                         *)
(* The result is an ordered map, so that its order does not depend on the  *)
(* walk; here it is the set of its keys.  Of the files of a directory only *)
(* those are told apart that the code tells apart.                         *)
(***************************************************************************)
EXTENDS Naturals

CONSTANTS Names,     \* names an entry of flows/ may have, as numbers
          Dotted,    \* those that start with a dot
          Contents,  \* what a directory may contain
          Filters    \* filters, each the set of names it is a part of

\* A regular file script.yaml, a directory of that name, other regular files, and
\* one with a leading dot.
Files == {"script", "script directory", "other", "dotted"}

ASSUME CrawlerAssumption ==
    /\ Names \subseteq Nat \ {0}
    /\ Dotted \subseteq Names
    /\ Contents \subseteq SUBSET Files
    /\ Filters \subseteq SUBSET Names

\* What an entry of flows/ is.
Absent == [kind |-> "absent", files |-> {}]
Plain  == [kind |-> "plain", files |-> {}]
Entries == {Absent, Plain} \cup [kind : {"directory"}, files : Contents]

VARIABLES pc,        \* "crawl", "select", "done", or "threw"
          exists,    \* whether there is a directory flows/
          disk,      \* what each entry of it is
          filter,    \* the --filter option
          todo,      \* entries directory_iterator has not handed out
          here,      \* entry whose files are being iterated, with those left
          detected,  \* names in DETECT FLOW events
          paths,     \* paths_: pairs of an entry and a file
          flows      \* flows_, a map by name

vars  == <<pc, exists, disk, filter, todo, here, detected, paths, flows>>
input == <<exists, disk, filter>>

Nowhere == [name |-> 0, files |-> {}]

TypeOK ==
    /\ pc \in {"crawl", "select", "done", "threw"}
    /\ exists \in BOOLEAN /\ disk \in [Names -> Entries] /\ filter \in Filters
    /\ todo \subseteq Names /\ detected \subseteq Names
    /\ here = Nowhere \/ here \in [name : Names, files : SUBSET Files]
    /\ paths \subseteq (Names \ Dotted) \X {"script", "other"}
    /\ flows \subseteq Names

Init ==
    /\ exists \in BOOLEAN /\ disk \in [Names -> Entries] /\ filter \in Filters
    /\ exists \/ disk = [n \in Names |-> Absent]
    /\ pc = IF exists THEN "crawl" ELSE "threw"
    /\ todo = {n \in Names : disk[n].kind # "absent"}
    /\ here = Nowhere /\ detected = {} /\ paths = {} /\ flows = {}

-----------------------------------------------------------------------------
\* Definitions that start with Slip are what a maintainer could have written by
\* mistake in place of the definition after them; the specification uses none.

\* Entries with a leading dot are flows as well.
SlipDotted(n) == FALSE
\* Only what passes the filter is looked into.
SlipSkipped(n) == n \in Dotted \/ n \notin filter
\* Entries with a leading dot are not looked into, and not reported.
Skipped(n) == n \in Dotted

\* crawl(flow_path) for one entry.  The iterator of a directory throws for
\* anything else.
Enter(n) ==
    /\ pc = "crawl" /\ here = Nowhere /\ n \in todo
    /\ todo' = todo \ {n}
    /\ \/ /\ Skipped(n)
          /\ UNCHANGED <<pc, here, detected>>
       \/ /\ ~Skipped(n)
          /\ detected' = detected \cup {n}
          /\ \/ /\ disk[n].kind = "directory"
                /\ here' = [name |-> n, files |-> disk[n].files]
                /\ UNCHANGED pc
             \/ /\ disk[n].kind = "plain"
                /\ pc' = "threw"
                /\ UNCHANGED here
    /\ UNCHANGED <<input, paths, flows>>

\* Whatever is called script.yaml.
SlipRecorded(f) == f # "dotted"
\* A regular file without a leading dot.
Recorded(f) == f \in {"script", "other"}

\* The path of an entry says its name, and nothing of its kind.
PathName(f) == IF f = "script directory" THEN "script" ELSE f

\* One entry of the directory the crawler is in.
Visit(f) ==
    /\ f \in here.files
    /\ here' = [here EXCEPT !.files = @ \ {f}]
    /\ paths' = IF Recorded(f) THEN paths \cup {<<here.name, PathName(f)>>} ELSE paths
    /\ UNCHANGED <<pc, input, todo, detected, flows>>

LeaveDirectory ==
    /\ here # Nowhere /\ here.files = {}
    /\ here' = Nowhere
    /\ UNCHANGED <<pc, input, todo, detected, paths, flows>>

Crawled ==
    /\ pc = "crawl" /\ here = Nowhere /\ todo = {}
    /\ pc' = "select"
    /\ UNCHANGED <<input, todo, here, detected, paths, flows>>

Passes(n) == n \in filter

\* The loop over paths_: the flows that pass the filter and have a
\* script.  The order of this loop does not show in a map.
Select ==
    /\ pc = "select"
    /\ flows' = {n \in Names : Passes(n) /\ <<n, "script">> \in paths}
    /\ pc' = "done"
    /\ UNCHANGED <<input, todo, here, detected, paths>>

Ended == pc \in {"done", "threw"} /\ UNCHANGED vars

Next == \/ \E n \in Names : Enter(n)
        \/ \E f \in Files : Visit(f)
        \/ LeaveDirectory \/ Crawled \/ Select
        \/ Ended

Spec == Init /\ [][Next]_vars

-----------------------------------------------------------------------------
\* What is run, and whether anything is, does not depend on the order in which
\* the file system lists its entries: the flows are the directories that have a
\* script and pass the filter, unless something that is no directory lies among
\* them, whether it would have passed the filter or not.
IsFlow(n) == n \notin Dotted /\ disk[n].kind = "directory" /\ "script" \in disk[n].files
Stumbles  == ~exists \/ \E n \in Names \ Dotted : disk[n].kind = "plain"
OutcomeIsDetermined ==
    /\ pc = "done"  => ~Stumbles /\ flows = {n \in filter : IsFlow(n)}
    /\ pc = "threw" => Stumbles

\* What the user is told was detected is what would run without a filter, and
\* directories without a script: nothing runs that was not announced.
Announced == /\ flows \subseteq detected
             /\ pc \in {"select", "done"} =>
                    detected = {n \in Names \ Dotted : disk[n].kind # "absent"}
=============================================================================

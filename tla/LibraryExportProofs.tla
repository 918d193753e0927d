------------------------ MODULE LibraryExportProofs ------------------------
(***************************************************************************)
(* Proofs about LibraryExport, for any number of exports, Sources and      *)
(* disturbances.  IInv says of every export what its phase and its list of *)
(* owned entries tell about its directory; a step of one export is seen    *)
(* by no other but through the output name.                                *)
(***************************************************************************)
EXTENDS LibraryExport, TLAPS

\* Nothing has been created, or all of it is gone again.
Bare(p) ==
    pc[p] \in {"start", "create"} \union Failures =>
        (\A path \in Paths : tree[p][path] = "absent") /\ target # p

\* Before the first creation.
Fresh(p) == pc[p] \in {"start", "create"} => owned[p] = <<>>

\* The exception being handled is known.
Reasoned(p) == pc[p] = "cleanup" => reason[p] # "none"

Building == {"content", "writing", "inventory", "revalidate", "commit", "publish"}
Committed == {"final inventory", "final revalidate", "final target", "success"}

\* While the export is built, owned is what Plan has so far.
Prefix(p) ==
    pc[p] \in Building =>
        /\ Len(owned[p]) <= Len(Plan)
        /\ \A i \in 1 .. Len(owned[p]) : owned[p][i] = Plan[i]
        /\ pc[p] = "content" => Len(owned[p]) < Len(Plan)
        /\ pc[p] = "writing" => owned[p] # <<>> /\ owned[p][Len(owned[p])] \notin Directories
        /\ pc[p] \in {"inventory", "revalidate"} => Len(owned[p]) = Len(Layout)
        /\ pc[p] \in {"commit", "publish"} => Len(owned[p]) = Len(Plan)

\* Afterwards it is Plan with the manifest under its final name.
Renamed(p) ==
    pc[p] \in Committed =>
        /\ Len(owned[p]) = Len(Plan)
        /\ \A i \in 1 .. Len(Layout) : owned[p][i] = Layout[i]
        /\ owned[p][Len(Plan)] = Manifest

\* Nobody but the export itself touches its two directories.
DirectoriesHold(p) ==
    pc[p] \in Building \union Committed =>
        \A i \in 1 .. Len(owned[p]) :
            owned[p][i] \in Directories => tree[p][owned[p][i]] = "whole"

\* What is written stays as it was, as long as nobody touches it.
WrittenHolds(p) ==
    pc[p] \in Building /\ touched[p] = "no" =>
        \A i \in 1 .. Len(owned[p]) :
            i < Len(owned[p]) \/ pc[p] # "writing" => tree[p][owned[p][i]] = "whole"

\* The marker is there from the commit to the first step of the clean-up.
MarkerInPlace(p) ==
    tree[p][Manifest] # "absent" /\ touched[p] = "no" /\ complete[p] =>
        /\ \A path \in Content \union {Manifest} : tree[p][path] = "whole"
        /\ pc[p] \in Committed \union {"cleanup", "killed"}
        /\ pc[p] = "cleanup" => owned[p] # <<>> /\ owned[p][Len(owned[p])] = Manifest

\* What the last checks have seen still holds.
CheckedHolds(p) ==
    touched[p] # "late" =>
        /\ pc[p] \in {"final revalidate", "final target", "success"} =>
               \A path \in Paths : tree[p][path] # "absent" => path \in Content \union {Manifest}
        /\ pc[p] \in {"final target", "success"} =>
               \A path \in Content \union {Manifest} : tree[p][path] = "whole"
        /\ pc[p] = "success" => target = p

EInv(p) ==
    /\ Bare(p) /\ Fresh(p) /\ Reasoned(p)
    /\ Prefix(p) /\ Renamed(p)
    /\ DirectoriesHold(p) /\ WrittenHolds(p)
    /\ MarkerInPlace(p) /\ CheckedHolds(p)

IInv == TypeOK /\ \A p \in Exports : EInv(p)

-----------------------------------------------------------------------------
\* The entries an export may own.
Ownable == Content \union {Temporary, Manifest}

\* Layout is a sequence, the three special names are told apart, and all that
\* is planned lies in Paths.
LEMMA LayoutFacts ==
    /\ Len(Layout) \in Nat /\ Len(Layout) = 2 + 2 * SourceCount
    /\ Layout \in Seq(Content)
    /\ \A i \in 1 .. Len(Layout) : Layout[i] \in Content
    /\ \A path \in Content : \E i \in 1 .. Len(Layout) : path = Layout[i]
<1>1. 2 + 2 * SourceCount \in Nat
  BY ExportAssumption
<1>2. Layout \in [1 .. 2 + 2 * SourceCount -> {Layout[i] : i \in 1 .. 2 + 2 * SourceCount}]
  BY DEF Layout
<1>3. Layout \in Seq({Layout[i] : i \in 1 .. 2 + 2 * SourceCount})
  BY <1>1, <1>2
<1>4. Len(Layout) = 2 + 2 * SourceCount
  BY <1>1, <1>2, <1>3
<1> QED
  BY <1>1, <1>3, <1>4 DEF Content

LEMMA NameFacts ==
    /\ Directories \subseteq Content
    /\ Temporary \notin Content /\ Manifest \notin Content /\ Temporary # Manifest
    /\ Ownable \subseteq Paths
<1>1. Directories \subseteq Content
  <2>1. 1 \in 1 .. Len(Layout) /\ 2 \in 1 .. Len(Layout)
    BY LayoutFacts, ExportAssumption
  <2>2. 1 \in 1 .. 2 + 2 * SourceCount /\ 2 \in 1 .. 2 + 2 * SourceCount
    BY ExportAssumption
  <2>3. Layout[1] = <<"sources">> /\ Layout[2] = <<"evidence">>
    BY <2>2 DEF Layout
  <2> QED
    BY <2>1, <2>3 DEF Directories, Content
<1>2. \A i \in 1 .. Len(Layout) : Layout[i] # Temporary /\ Layout[i] # Manifest
  <2> SUFFICES ASSUME NEW i \in 1 .. Len(Layout)
               PROVE  Layout[i] # Temporary /\ Layout[i] # Manifest
    OBVIOUS
  <2>1. Layout[i] \in {<<"sources">>, <<"evidence">>, <<"evidence", i \div 2>>,
                       <<"sources", (i - 1) \div 2>>}
    BY LayoutFacts DEF Layout
  <2> QED
    BY <2>1 DEF Temporary, Manifest
<1>3. Temporary # Manifest
  BY DEF Temporary, Manifest
<1> QED
  BY <1>1, <1>2, <1>3, LayoutFacts DEF Ownable, Paths

LEMMA PlanFacts ==
    /\ Len(Plan) \in Nat /\ Len(Plan) = Len(Layout) + 1 /\ Len(Layout) > 0
    /\ \A i \in 1 .. Len(Layout) : Plan[i] = Layout[i]
    /\ Plan[Len(Plan)] = Temporary
    /\ \A i \in 1 .. Len(Plan) : Plan[i] \in Content \union {Temporary}
<1>1. Layout \in Seq(Ownable) /\ Temporary \in Ownable
  BY LayoutFacts DEF Ownable
<1> QED
  BY <1>1, LayoutFacts, ExportAssumption DEF Plan

-----------------------------------------------------------------------------
LEMMA InitIInv == Init => IInv
<1> SUFFICES ASSUME Init PROVE IInv
  OBVIOUS
<1>1. TypeOK
  BY ExportAssumption DEF Init, TypeOK, Working, Ended, Failures
<1>2. ASSUME NEW p \in Exports PROVE EInv(p)
  <2>1. /\ pc[p] = "start" /\ owned[p] = <<>> /\ target # p
        /\ \A path \in Paths : tree[p][path] = "absent"
    BY ExportAssumption DEF Init
  <2>2. Manifest \in Paths
    BY NameFacts DEF Ownable
  <2>3. Bare(p) /\ Fresh(p) /\ Reasoned(p)
    BY <2>1 DEF Bare, Fresh, Reasoned
  <2>4. Prefix(p) /\ Renamed(p) /\ DirectoriesHold(p) /\ WrittenHolds(p)
    BY <2>1 DEF Prefix, Renamed, DirectoriesHold, WrittenHolds, Building, Committed
  <2>5. MarkerInPlace(p) /\ CheckedHolds(p)
    BY <2>1, <2>2 DEF MarkerInPlace, CheckedHolds
  <2> QED
    BY <2>3, <2>4, <2>5 DEF EInv
<1> QED
  BY <1>1, <1>2 DEF IInv

\* What Put does to one directory, and to the others.
LEMMA PutEffect ==
    ASSUME TypeOK, NEW q \in Exports, NEW path \in Paths,
           NEW entry \in Ours \union {"absent", "theirs"}, Put(q, path, entry)
    PROVE  /\ tree' \in [Exports -> [Paths -> Ours \union {"absent", "theirs"}]]
           /\ tree'[q][path] = entry
           /\ \A r \in Paths : r # path => tree'[q][r] = tree[q][r]
           /\ \A p \in Exports : p # q => tree'[p] = tree[p]
BY DEF TypeOK, Put

\* A step of q leaves everything of p alone, and the output name with p if it was.
LEMMA OthersUntouched ==
    ASSUME TypeOK, NEW p \in Exports, NEW q \in Exports, p # q,
           ExportStep(q) \/ Disturb(q)
    PROVE  /\ tree'[p] = tree[p] /\ pc'[p] = pc[p] /\ owned'[p] = owned[p] /\ reason'[p] = reason[p]
           /\ complete'[p] = complete[p] /\ touched'[p] = touched[p]
           /\ target' = p <=> target = p
<1> USE ExportAssumption DEF TypeOK, Goto
<1>1. CASE LookForTarget(q) \/ CreateTarget(q) \/ CannotCreateTarget(q)
  BY <1>1 DEF LookForTarget, CreateTarget, CannotCreateTarget
<1>2. CASE CreateDirectory(q) \/ CreateFile(q) \/ WriteFile(q) \/ LoseNewEntry(q)
  BY <1>2 DEF CreateDirectory, CreateFile, WriteFile, LoseNewEntry, Put
<1>3. CASE CheckInventory(q) \/ RevalidateContent(q) \/ CheckTarget(q) \/ PublishManifest(q)
  BY <1>3 DEF CheckInventory, RevalidateContent, CheckTarget, PublishManifest
<1>4. CASE CheckFinalInventory(q) \/ RevalidateExport(q) \/ Succeed(q)
  BY <1>4 DEF CheckFinalInventory, RevalidateExport, Succeed
<1>5. CASE Fail(q) \/ CleanTarget(q) \/ Kill(q)
  BY <1>5 DEF Fail, CleanTarget, Kill, TargetHolds
<1>6. CASE CleanEntry(q)
  BY <1>6 DEF CleanEntry, Put
<1>7. CASE Disturb(q)
  BY <1>7 DEF Disturb, DisturbFile, DisturbTarget, Touch, Put
<1> QED
  BY <1>1, <1>2, <1>3, <1>4, <1>5, <1>6, <1>7 DEF ExportStep

\* What is known of p stands as long as nothing of p changes.
LEMMA SameView ==
    ASSUME NEW p \in Exports, EInv(p),
           tree'[p] = tree[p], pc'[p] = pc[p], owned'[p] = owned[p], reason'[p] = reason[p],
           complete'[p] = complete[p], touched'[p] = touched[p],
           target' = p <=> target = p
    PROVE  EInv(p)'
<1>1. Bare(p)' /\ Fresh(p)' /\ Reasoned(p)'
  BY DEF EInv, Bare, Fresh, Reasoned
<1>2. Prefix(p)' /\ Renamed(p)'
  BY DEF EInv, Prefix, Renamed
<1>3. DirectoriesHold(p)' /\ WrittenHolds(p)'
  BY DEF EInv, DirectoriesHold, WrittenHolds
<1>4. MarkerInPlace(p)' /\ CheckedHolds(p)'
  BY DEF EInv, MarkerInPlace, CheckedHolds
<1> QED
  BY <1>1, <1>2, <1>3, <1>4 DEF EInv

LEMMA Frame ==
    ASSUME TypeOK, NEW p \in Exports, NEW q \in Exports, p # q, EInv(p),
           ExportStep(q) \/ Disturb(q)
    PROVE  EInv(p)'
BY OthersUntouched, SameView

-----------------------------------------------------------------------------
(* One lemma for each kind of step of an export.                            *)

\* Steps that end the call before it has created anything, or create the target.
LEMMA TargetSteps ==
    ASSUME TypeOK, NEW p \in Exports, EInv(p),
           LookForTarget(p) \/ CreateTarget(p) \/ CannotCreateTarget(p)
    PROVE  TypeOK' /\ EInv(p)'
<1>1. TypeOK'
  <2>1. CASE LookForTarget(p)
    BY <2>1 DEF TypeOK, LookForTarget, Goto, Ended, Failures
  <2>2. CASE CreateTarget(p)
    BY <2>2 DEF TypeOK, CreateTarget, Goto, Working, Ended, Failures
  <2>3. CASE CannotCreateTarget(p)
    BY <2>3 DEF TypeOK, CannotCreateTarget, Goto, Ended, Failures
  <2> QED
    BY <2>1, <2>2, <2>3
<1>2. /\ owned'[p] = <<>> /\ tree'[p] = tree[p]
      /\ \A path \in Paths : tree[p][path] = "absent"
      /\ pc'[p] \in {"create", "content", "cleanup", "cleanup_failed"} \union Failures
      /\ pc'[p] \in {"create"} \union Failures => target' # p
      /\ pc'[p] = "cleanup" => reason'[p] # "none"
  BY ExportAssumption DEF TypeOK, EInv, Bare, Fresh, Reasoned, LookForTarget, CreateTarget,
     CannotCreateTarget, Goto, Failures
<1>3. Bare(p)' /\ Fresh(p)' /\ Reasoned(p)'
  BY <1>2 DEF Bare, Fresh, Reasoned, Failures
<1>4. Prefix(p)' /\ Renamed(p)' /\ DirectoriesHold(p)' /\ WrittenHolds(p)'
  <2>1. Len(owned'[p]) = 0 /\ pc'[p] \notin Committed /\ pc'[p] \notin Building \ {"content"}
    BY <1>2 DEF Building, Committed, Failures
  <2> QED
    BY <2>1, PlanFacts, LayoutFacts DEF Prefix, Renamed, DirectoriesHold, WrittenHolds, Building
<1>5. MarkerInPlace(p)' /\ CheckedHolds(p)'
  BY <1>2, NameFacts DEF MarkerInPlace, CheckedHolds, Failures, Ownable
<1> QED
  BY <1>1, <1>3, <1>4, <1>5 DEF EInv

\* Steps that give up: nothing on disk changes.
LEMMA GivingUp ==
    ASSUME TypeOK, NEW p \in Exports, EInv(p), Fail(p) \/ Kill(p)
    PROVE  TypeOK' /\ EInv(p)'
<1>1. TypeOK'
  BY DEF TypeOK, Fail, Kill, Goto, Working, Ended, Failures
<1>2. /\ owned'[p] = owned[p] /\ tree'[p] = tree[p] /\ touched'[p] = touched[p]
      /\ complete'[p] = complete[p]
      /\ \/ pc'[p] = "killed"
         \/ pc'[p] = "cleanup" /\ pc[p] \in Working /\ reason'[p] # "none"
  BY DEF TypeOK, Fail, Kill, Goto
<1>3. Bare(p)' /\ Fresh(p)' /\ Reasoned(p)' /\ Prefix(p)' /\ Renamed(p)' /\ DirectoriesHold(p)' /\ WrittenHolds(p)'
  BY <1>2 DEF Bare, Fresh, Reasoned, Prefix, Renamed, DirectoriesHold, WrittenHolds, Building, Committed, Failures
<1>4. CheckedHolds(p)'
  BY <1>2 DEF CheckedHolds
<1>5. MarkerInPlace(p)'
  <2> SUFFICES ASSUME tree[p][Manifest] # "absent", touched[p] = "no", complete[p]
               PROVE  /\ \A path \in Content \union {Manifest} : tree[p][path] = "whole"
                      /\ pc'[p] = "cleanup" => owned[p] # <<>> /\ owned[p][Len(owned[p])] = Manifest
    BY <1>2 DEF MarkerInPlace
  <2>1. /\ \A path \in Content \union {Manifest} : tree[p][path] = "whole"
        /\ pc[p] \in Committed \union {"cleanup", "killed"}
    BY DEF EInv, MarkerInPlace
  <2>2. ASSUME pc'[p] = "cleanup" PROVE owned[p] # <<>> /\ owned[p][Len(owned[p])] = Manifest
    <3>1. pc[p] \in Committed
      BY <1>2, <2>1, <2>2 DEF Working, Committed
    <3>2. Len(owned[p]) = Len(Plan) /\ owned[p][Len(Plan)] = Manifest
      BY <3>1 DEF EInv, Renamed
    <3> QED
      BY <3>2, PlanFacts, LayoutFacts
  <2> QED
    BY <2>1, <2>2
<1> QED
  BY <1>1, <1>3, <1>4, <1>5 DEF EInv

\* Where the next entry goes: a path that is not taken, and what it is called.
LEMMA NextIsPlanned ==
    ASSUME TypeOK, NEW p \in Exports, EInv(p), pc[p] = "content"
    PROVE  /\ Len(owned[p]) \in Nat /\ Len(owned[p]) < Len(Plan)
           /\ NextPath(p) = Plan[Len(owned[p]) + 1]
           /\ NextPath(p) \in Content \union {Temporary}
           /\ NextPath(p) \in Paths
           /\ owned[p] \in Seq(Ownable)
<1>1. owned[p] \in Seq(Ownable) /\ Len(owned[p]) \in Nat
  BY DEF TypeOK, Ownable
<1>2. Len(owned[p]) < Len(Plan)
  BY DEF EInv, Prefix, Building
<1>3. Len(owned[p]) + 1 \in 1 .. Len(Plan)
  BY <1>1, <1>2, PlanFacts
<1> QED
  BY <1>1, <1>2, <1>3, PlanFacts, NameFacts DEF NextPath, Ownable

\* The phase after n entries fits what Prefix says of it.
LEMMA PhaseFits ==
    ASSUME NEW n \in 1 .. Len(Plan)
    PROVE  /\ After(n) \in {"content", "inventory", "commit"}
           /\ After(n) = "content" => n < Len(Plan)
           /\ After(n) = "inventory" => n = Len(Layout)
           /\ After(n) = "commit" => n = Len(Plan)
BY PlanFacts, LayoutFacts DEF After

LEMMA AppendFacts ==
    ASSUME NEW S, NEW s \in Seq(S), NEW e \in S
    PROVE  /\ Append(s, e) \in Seq(S)
           /\ Len(Append(s, e)) = Len(s) + 1
           /\ Append(s, e)[Len(s) + 1] = e
           /\ \A i \in 1 .. Len(s) : Append(s, e)[i] = s[i]
           /\ Append(s, e) # <<>>
OBVIOUS

\* A directory or a new file becomes the last owned entry.
LEMMA Creations ==
    ASSUME TypeOK, NEW p \in Exports, EInv(p), CreateDirectory(p) \/ CreateFile(p)
    PROVE  TypeOK' /\ EInv(p)'
<1> DEFINE n == Len(owned[p])
           path == NextPath(p)
<1>1. pc[p] = "content" /\ tree[p][path] = "absent"
  BY DEF CreateDirectory, CreateFile
<1>2. /\ n \in Nat /\ n < Len(Plan) /\ path = Plan[n + 1]
      /\ path \in Content \union {Temporary} /\ path \in Paths
      /\ owned[p] \in Seq(Ownable)
  BY <1>1, NextIsPlanned
<1>3. PICK entry \in {"whole", "partial"} : Put(p, path, entry) /\ (entry = "whole" <=> path \in Directories)
  BY DEF CreateDirectory, CreateFile
<1>4. /\ tree' \in [Exports -> [Paths -> Ours \union {"absent", "theirs"}]]
      /\ tree'[p][path] = entry
      /\ \A r \in Paths : r # path => tree'[p][r] = tree[p][r]
  BY <1>2, <1>3, PutEffect DEF Ours
<1>5. n + 1 \in 1 .. Len(Plan)
  BY <1>2, PlanFacts
<1>6. /\ pc' = [pc EXCEPT ![p] = pc'[p]]
      /\ \/ pc'[p] = "writing" /\ entry = "partial"
         \/ pc'[p] = After(n + 1) /\ entry = "whole"
  BY <1>3 DEF TypeOK, CreateDirectory, CreateFile, Goto
<1>7. pc'[p] \in Building \ {"revalidate", "publish"}
  BY <1>5, <1>6, PhaseFits DEF Building
<1>8. /\ owned' = [owned EXCEPT ![p] = Append(@, path)]
      /\ UNCHANGED <<target, reason, complete, disturbances, touched>>
  BY DEF CreateDirectory, CreateFile
<1>9. /\ owned'[p] = Append(owned[p], path) /\ owned'[p] \in Seq(Ownable)
      /\ Len(owned'[p]) = n + 1 /\ owned'[p][n + 1] = path /\ owned'[p] # <<>>
      /\ \A i \in 1 .. n : owned'[p][i] = owned[p][i]
  <2>1. owned'[p] = Append(owned[p], path)
    BY <1>8 DEF TypeOK
  <2>2. path \in Ownable
    BY <1>2 DEF Ownable
  <2> QED
    BY <1>2, <2>1, <2>2, AppendFacts
<1>10. TypeOK'
  <2>1. pc' \in [Exports -> {"start", "create", "cleanup"} \union Working \union Ended]
    BY <1>6, <1>7 DEF TypeOK, Building, Working
  <2>2. owned' \in [Exports -> Seq(Content \union {Temporary, Manifest})]
    BY <1>8, <1>9 DEF TypeOK, Ownable
  <2> QED
    BY <2>1, <2>2, <1>4, <1>8 DEF TypeOK
<1>11. /\ \A i \in 1 .. n : owned[p][i] = Plan[i] /\ owned[p][i] \in Paths
       /\ \A i \in 1 .. n : owned[p][i] \in Directories => tree[p][owned[p][i]] = "whole"
       /\ touched[p] = "no" => \A i \in 1 .. n : tree[p][owned[p][i]] = "whole"
  <2>1. \A i \in 1 .. n : owned[p][i] \in Paths
    BY <1>2, NameFacts
  <2> QED
    BY <2>1, <1>1 DEF EInv, Prefix, DirectoriesHold, WrittenHolds, Building
<1>12. Bare(p)' /\ Fresh(p)' /\ Reasoned(p)' /\ Renamed(p)'
  BY <1>7 DEF Bare, Fresh, Reasoned, Renamed, Building, Committed, Failures
<1>13. Prefix(p)'
  <2>1. \A i \in 1 .. n + 1 : owned'[p][i] = Plan[i]
    BY <1>2, <1>9, <1>11
  <2>2. pc'[p] = "writing" => owned'[p][Len(owned'[p])] \notin Directories
    BY <1>3, <1>5, <1>6, <1>9, PhaseFits
  <2>3. /\ pc'[p] = "content" => n + 1 < Len(Plan)
        /\ pc'[p] \in {"inventory", "revalidate"} => n + 1 = Len(Layout)
        /\ pc'[p] \in {"commit", "publish"} => n + 1 = Len(Plan)
    BY <1>5, <1>6, <1>7, PhaseFits
  <2> QED
    BY <2>1, <2>2, <2>3, <1>5, <1>9 DEF Prefix
<1>14. DirectoriesHold(p)'
  <2> SUFFICES ASSUME NEW i \in 1 .. n + 1, owned'[p][i] \in Directories
               PROVE  tree'[p][owned'[p][i]] = "whole"
    BY <1>9 DEF DirectoriesHold
  <2>1. CASE i = n + 1
    BY <2>1, <1>3, <1>4, <1>9
  <2>2. CASE i \in 1 .. n
    BY <2>2, <1>1, <1>4, <1>9, <1>11
  <2> QED
    BY <2>1, <2>2, <1>2
<1>15. WrittenHolds(p)'
  <2> SUFFICES ASSUME touched[p] = "no", NEW i \in 1 .. n + 1, i < n + 1 \/ pc'[p] # "writing"
               PROVE  tree'[p][owned'[p][i]] = "whole"
    BY <1>8, <1>9 DEF WrittenHolds
  <2>1. CASE i = n + 1
    BY <2>1, <1>4, <1>6, <1>9
  <2>2. CASE i \in 1 .. n
    BY <2>2, <1>1, <1>4, <1>9, <1>11
  <2> QED
    BY <2>1, <2>2, <1>2
<1>16. MarkerInPlace(p)'
  <2>1. Manifest \in Paths /\ path # Manifest
    BY <1>2, NameFacts DEF Ownable
  <2>2. tree'[p][Manifest] = tree[p][Manifest]
    BY <1>4, <2>1
  <2> QED
    BY <2>2, <1>1, <1>8 DEF EInv, MarkerInPlace, Committed
<1>17. CheckedHolds(p)'
  BY <1>7 DEF CheckedHolds, Building
<1> QED
  BY <1>10, <1>12, <1>13, <1>14, <1>15, <1>16, <1>17 DEF EInv

\* The file just created is complete.
LEMMA Writing ==
    ASSUME TypeOK, NEW p \in Exports, EInv(p), WriteFile(p)
    PROVE  TypeOK' /\ EInv(p)'
<1> DEFINE n == Len(owned[p])
           path == owned[p][n]
<1>1. /\ pc[p] = "writing" /\ tree[p][path] = "partial" /\ Put(p, path, "whole")
      /\ pc' = [pc EXCEPT ![p] = After(n)] /\ pc'[p] = After(n)
      /\ UNCHANGED <<target, owned, reason, complete, disturbances, touched>>
  BY DEF TypeOK, WriteFile, Goto
<1>2. /\ owned[p] \in Seq(Ownable) /\ owned[p] # <<>> /\ n <= Len(Plan)
      /\ path \notin Directories
      /\ \A i \in 1 .. n : owned[p][i] = Plan[i]
  BY <1>1 DEF TypeOK, Ownable, EInv, Prefix, Building
<1>3. n \in 1 .. Len(Plan) /\ n \in 1 .. n
  BY <1>2, PlanFacts
<1>4. path \in Content \union {Temporary} /\ path \in Paths
  BY <1>2, <1>3, PlanFacts, NameFacts DEF Ownable
<1>5. /\ tree' \in [Exports -> [Paths -> Ours \union {"absent", "theirs"}]]
      /\ tree'[p][path] = "whole"
      /\ \A r \in Paths : r # path => tree'[p][r] = tree[p][r]
  BY <1>1, <1>4, PutEffect DEF Ours
<1>6. pc'[p] \in Building \ {"writing", "revalidate", "publish"}
  BY <1>1, <1>3, PhaseFits DEF Building
<1>7. TypeOK'
  BY <1>1, <1>5, <1>6 DEF TypeOK, Building, Working
<1>8. Bare(p)' /\ Fresh(p)' /\ Reasoned(p)' /\ Renamed(p)'
  BY <1>6 DEF Bare, Fresh, Reasoned, Renamed, Building, Committed, Failures
<1>9. Prefix(p)'
  BY <1>1, <1>2, <1>3, <1>6, PhaseFits DEF Prefix, Building
<1>10. \A i \in 1 .. n : owned[p][i] \in Paths
  BY <1>2, NameFacts
<1>11. DirectoriesHold(p)'
  BY <1>1, <1>2, <1>5, <1>10 DEF EInv, DirectoriesHold, Building
<1>12. WrittenHolds(p)'
  <2> SUFFICES ASSUME touched[p] = "no", NEW i \in 1 .. n
               PROVE  tree'[p][owned[p][i]] = "whole"
    BY <1>1 DEF WrittenHolds
  <2>1. CASE i = n
    BY <2>1, <1>5
  <2>2. CASE i < n
    BY <2>2, <1>1, <1>5, <1>10 DEF EInv, WrittenHolds, Building
  <2> QED
    BY <2>1, <2>2, <1>3
<1>13. MarkerInPlace(p)'
  <2>1. tree'[p][Manifest] = tree[p][Manifest]
    BY <1>4, <1>5, NameFacts DEF Ownable
  <2> QED
    BY <2>1, <1>1 DEF EInv, MarkerInPlace, Committed
<1>14. CheckedHolds(p)'
  BY <1>6 DEF CheckedHolds, Building
<1> QED
  BY <1>7, <1>8, <1>9, <1>11, <1>12, <1>13, <1>14 DEF EInv

\* An entry that is not recorded.
LEMMA Losing ==
    ASSUME TypeOK, NEW p \in Exports, EInv(p), LoseNewEntry(p)
    PROVE  TypeOK' /\ EInv(p)'
<1>1. /\ pc[p] = "content" /\ Put(p, NextPath(p), "partial")
      /\ pc' = [pc EXCEPT ![p] = "cleanup"] /\ pc'[p] = "cleanup"
      /\ reason' = [reason EXCEPT ![p] = "write_failed"] /\ reason'[p] = "write_failed"
      /\ UNCHANGED <<target, owned, complete, disturbances, touched>>
  BY DEF TypeOK, LoseNewEntry, Goto
<1>2. NextPath(p) \in Content \union {Temporary} /\ NextPath(p) \in Paths
  BY <1>1, NextIsPlanned
<1>3. /\ tree' \in [Exports -> [Paths -> Ours \union {"absent", "theirs"}]]
      /\ \A r \in Paths : r # NextPath(p) => tree'[p][r] = tree[p][r]
  BY <1>1, <1>2, PutEffect DEF Ours
<1>4. TypeOK'
  BY <1>1, <1>3 DEF TypeOK, Failures
<1>5. /\ Bare(p)' /\ Fresh(p)' /\ Reasoned(p)' /\ Prefix(p)' /\ Renamed(p)'
      /\ DirectoriesHold(p)' /\ WrittenHolds(p)' /\ CheckedHolds(p)'
  BY <1>1 DEF Bare, Fresh, Reasoned, Prefix, Renamed, DirectoriesHold, WrittenHolds, CheckedHolds,
     Building, Committed, Failures
<1>6. MarkerInPlace(p)'
  <2>1. tree'[p][Manifest] = tree[p][Manifest]
    BY <1>2, <1>3, NameFacts DEF Ownable
  <2> QED
    BY <2>1, <1>1 DEF EInv, MarkerInPlace, Committed
<1> QED
  BY <1>4, <1>5, <1>6 DEF EInv

\* Checks before the commit: the phase moves on and nothing else.
LEMMA EarlyChecks ==
    ASSUME TypeOK, NEW p \in Exports, EInv(p),
           CheckInventory(p) \/ RevalidateContent(p) \/ CheckTarget(p)
    PROVE  TypeOK' /\ EInv(p)'
<1>1. /\ pc' = [pc EXCEPT ![p] = pc'[p]]
      /\ UNCHANGED <<tree, target, owned, reason, complete, disturbances, touched>>
      /\ \/ pc[p] = "inventory" /\ pc'[p] = "revalidate"
         \/ pc[p] = "revalidate" /\ pc'[p] = "content"
         \/ pc[p] = "commit" /\ pc'[p] = "publish"
  BY DEF TypeOK, CheckInventory, RevalidateContent, CheckTarget, Goto
<1>2. TypeOK'
  BY <1>1 DEF TypeOK, Working
<1>3. Bare(p)' /\ Fresh(p)' /\ Reasoned(p)' /\ Renamed(p)' /\ CheckedHolds(p)'
  BY <1>1 DEF Bare, Fresh, Reasoned, Renamed, CheckedHolds, Committed, Failures
<1>4. Prefix(p)'
  BY <1>1, PlanFacts, LayoutFacts DEF EInv, Prefix, Building
<1>5. DirectoriesHold(p)' /\ WrittenHolds(p)'
  BY <1>1 DEF EInv, DirectoriesHold, WrittenHolds, Building
<1>6. MarkerInPlace(p)'
  BY <1>1 DEF EInv, MarkerInPlace, Committed
<1> QED
  BY <1>2, <1>3, <1>4, <1>5, <1>6 DEF EInv

\* The commit.
LEMMA ReboundFacts ==
    ASSUME NEW s \in Seq(Ownable)
    PROVE  /\ Rebound(s) \in Seq(Ownable) /\ Len(Rebound(s)) = Len(s)
           /\ \A i \in 1 .. Len(s) :
                  Rebound(s)[i] = IF s[i] = Temporary THEN Manifest ELSE s[i]
<1>1. Len(s) \in Nat /\ \A i \in 1 .. Len(s) : s[i] \in Ownable
  OBVIOUS
<1>2. Rebound(s) \in [1 .. Len(s) -> Ownable]
  BY <1>1 DEF Rebound, Ownable
<1>3. Rebound(s) \in Seq(Ownable)
  BY <1>1, <1>2
<1>4. Len(Rebound(s)) = Len(s)
  BY <1>1, <1>2, <1>3
<1> QED
  BY <1>3, <1>4 DEF Rebound

LEMMA Publishing ==
    ASSUME TypeOK, NEW p \in Exports, EInv(p), PublishManifest(p)
    PROVE  TypeOK' /\ EInv(p)'
<1> DEFINE n == Len(owned[p])
<1>1. /\ pc[p] = "publish"
      /\ tree' = [tree EXCEPT ![p][Manifest] = tree[p][Temporary],
                              ![p][Temporary] = "absent"]
      /\ owned' = [owned EXCEPT ![p] = Rebound(@)]
      /\ pc' = [pc EXCEPT ![p] = "final inventory"] /\ pc'[p] = "final inventory"
      /\ UNCHANGED <<target, reason, complete, disturbances, touched>>
  BY DEF TypeOK, PublishManifest, Goto
<1>2. Temporary \in Paths /\ Manifest \in Paths /\ Temporary # Manifest
  BY NameFacts DEF Ownable
<1>3. /\ tree' \in [Exports -> [Paths -> Ours \union {"absent", "theirs"}]]
      /\ tree'[p][Manifest] = tree[p][Temporary]
      /\ \A r \in Paths \ {Temporary, Manifest} : tree'[p][r] = tree[p][r]
  BY <1>1, <1>2 DEF TypeOK
<1>4. /\ owned[p] \in Seq(Ownable) /\ n = Len(Plan) /\ n \in Nat /\ n > 0
      /\ \A i \in 1 .. n : owned[p][i] = Plan[i]
  <2>1. owned[p] \in Seq(Ownable)
    BY DEF TypeOK, Ownable
  <2>2. n = Len(Plan) /\ \A i \in 1 .. n : owned[p][i] = Plan[i]
    BY <1>1 DEF EInv, Prefix, Building
  <2> QED
    BY <2>1, <2>2, PlanFacts, LayoutFacts
<1>5. /\ owned'[p] = Rebound(owned[p])
      /\ owned'[p] \in Seq(Ownable) /\ Len(owned'[p]) = n
      /\ \A i \in 1 .. n :
             owned'[p][i] = IF owned[p][i] = Temporary THEN Manifest ELSE owned[p][i]
  <2>1. owned'[p] = Rebound(owned[p])
    BY <1>1 DEF TypeOK
  <2> QED
    BY <2>1, <1>4, ReboundFacts
<1>6. TypeOK'
  <2>1. owned' \in [Exports -> Seq(Content \union {Temporary, Manifest})]
    BY <1>1, <1>5 DEF TypeOK, Ownable
  <2> QED
    BY <2>1, <1>1, <1>3 DEF TypeOK, Working
<1>7. Bare(p)' /\ Fresh(p)' /\ Reasoned(p)' /\ Prefix(p)' /\ WrittenHolds(p)' /\ CheckedHolds(p)'
  BY <1>1 DEF Bare, Fresh, Reasoned, Prefix, WrittenHolds, CheckedHolds, Building, Failures
<1>8. Renamed(p)'
  <2>1. \A i \in 1 .. Len(Layout) : i \in 1 .. n /\ owned[p][i] = Layout[i] /\ Layout[i] # Temporary
    BY <1>4, PlanFacts, LayoutFacts, NameFacts
  <2>2. n \in 1 .. n /\ owned[p][n] = Temporary
    BY <1>4, PlanFacts
  <2> QED
    BY <2>1, <2>2, <1>4, <1>5 DEF Renamed
<1>9. DirectoriesHold(p)'
  <2> SUFFICES ASSUME NEW i \in 1 .. n, owned'[p][i] \in Directories
               PROVE  tree'[p][owned'[p][i]] = "whole"
    BY <1>5 DEF DirectoriesHold
  <2>1. owned'[p][i] = owned[p][i] /\ owned[p][i] \in Paths \ {Temporary, Manifest}
    BY <1>5, NameFacts
  <2> QED
    BY <2>1, <1>1, <1>3 DEF EInv, DirectoriesHold, Building
<1>10. MarkerInPlace(p)'
  <2> SUFFICES ASSUME touched[p] = "no"
               PROVE  \A path \in Content \union {Manifest} : tree'[p][path] = "whole"
    BY <1>1 DEF MarkerInPlace, Committed
  <2>1. \A i \in 1 .. n : tree[p][Plan[i]] = "whole"
    BY <1>1, <1>4 DEF EInv, WrittenHolds, Building
  <2>2. tree[p][Temporary] = "whole"
    BY <2>1, <1>4, PlanFacts
  <2>3. \A path \in Content : tree[p][path] = "whole"
    <3> SUFFICES ASSUME NEW path \in Content PROVE tree[p][path] = "whole"
      OBVIOUS
    <3>1. PICK i \in 1 .. Len(Layout) : path = Layout[i]
      BY LayoutFacts
    <3> QED
      BY <3>1, <2>1, <1>4, PlanFacts, LayoutFacts
  <2> QED
    BY <2>2, <2>3, <1>3, NameFacts DEF Ownable
<1> QED
  BY <1>6, <1>7, <1>8, <1>9, <1>10 DEF EInv

\* The checks after it: what they have seen holds on, since nobody came too late.
LEMMA LastChecks ==
    ASSUME TypeOK, NEW p \in Exports, EInv(p),
           CheckFinalInventory(p) \/ RevalidateExport(p) \/ Succeed(p)
    PROVE  TypeOK' /\ EInv(p)'
<1>1. /\ pc' = [pc EXCEPT ![p] = pc'[p]]
      /\ UNCHANGED <<tree, target, owned, reason, complete, disturbances, touched>>
      /\ \/ pc[p] = "final inventory" /\ pc'[p] = "final revalidate"
            /\ Names(p) = Content \union {Manifest}
         \/ pc[p] = "final revalidate" /\ pc'[p] = "final target" /\ OwnedFilesHold(p)
         \/ pc[p] = "final target" /\ pc'[p] = "success" /\ target = p
  BY DEF TypeOK, CheckFinalInventory, RevalidateExport, Succeed, Goto, ExactInventory, TargetHolds
<1>2. TypeOK'
  BY <1>1 DEF TypeOK, Working, Ended
<1>3. Bare(p)' /\ Fresh(p)' /\ Reasoned(p)' /\ Prefix(p)' /\ WrittenHolds(p)'
  BY <1>1 DEF Bare, Fresh, Reasoned, Prefix, WrittenHolds, Building, Failures
<1>4. Renamed(p)' /\ DirectoriesHold(p)' /\ MarkerInPlace(p)'
  BY <1>1 DEF EInv, Renamed, DirectoriesHold, MarkerInPlace, Committed
<1>5. CheckedHolds(p)'
  <2>1. CASE pc[p] = "final inventory"
    BY <2>1, <1>1 DEF CheckedHolds, Names
  <2>2. CASE pc[p] = "final revalidate"
    <3>1. \A path \in Content \union {Manifest} : \E i \in 1 .. Len(owned[p]) : owned[p][i] = path
      <4>1. /\ Len(owned[p]) = Len(Plan)
            /\ \A i \in 1 .. Len(Layout) : owned[p][i] = Layout[i]
            /\ owned[p][Len(Plan)] = Manifest
        BY <2>2 DEF EInv, Renamed, Committed
      <4>2. Len(Plan) \in 1 .. Len(Plan) /\ \A i \in 1 .. Len(Layout) : i \in 1 .. Len(Plan)
        BY PlanFacts, LayoutFacts
      <4>3. \A path \in Content : \E i \in 1 .. Len(owned[p]) : owned[p][i] = path
        BY <4>1, <4>2, LayoutFacts
      <4> QED
        BY <4>1, <4>2, <4>3
    <3>2. \A i \in 1 .. Len(owned[p]) : owned[p][i] \in Directories => tree[p][owned[p][i]] = "whole"
      BY <2>2 DEF EInv, DirectoriesHold, Committed
    <3>3. \A i \in 1 .. Len(owned[p]) : owned[p][i] \notin Directories => tree[p][owned[p][i]] = "whole"
      BY <2>2, <1>1 DEF OwnedFilesHold, OwnedFiles
    <3>4. \A path \in Content \union {Manifest} : tree[p][path] = "whole"
      BY <3>1, <3>2, <3>3
    <3> QED
      BY <2>2, <3>4, <1>1 DEF EInv, CheckedHolds
  <2>3. CASE pc[p] = "final target"
    BY <2>3, <1>1 DEF EInv, CheckedHolds
  <2> QED
    BY <2>1, <2>2, <2>3, <1>1
<1> QED
  BY <1>2, <1>3, <1>4, <1>5 DEF EInv

\* The clean-up, from the last entry to the first: the manifest, if it is
\* there, is the first to go.
LEMMA CleaningEntry ==
    ASSUME TypeOK, NEW p \in Exports, EInv(p), CleanEntry(p)
    PROVE  TypeOK' /\ EInv(p)'
<1> DEFINE n == Len(owned[p])
           path == owned[p][n]
<1>1. /\ pc[p] = "cleanup" /\ owned[p] # <<>>
      /\ owned' = [owned EXCEPT ![p] = SubSeq(@, 1, Len(@) - 1)]
      /\ \/ Put(p, path, "absent") /\ UNCHANGED complete
         \/ complete' = [complete EXCEPT ![p] = FALSE] /\ UNCHANGED tree
      /\ UNCHANGED <<target, pc, reason, disturbances, touched>>
  BY DEF CleanEntry
<1>2. owned[p] \in Seq(Ownable) /\ n \in 1 .. n
  BY <1>1 DEF TypeOK, Ownable
<1>3. path \in Paths
  BY <1>2, NameFacts
<1>4. SubSeq(owned[p], 1, n - 1) \in Seq(Ownable)
  BY <1>2
<1>5. owned' \in [Exports -> Seq(Ownable)]
  BY <1>1, <1>4 DEF TypeOK, Ownable
<1>6. /\ tree' \in [Exports -> [Paths -> Ours \union {"absent", "theirs"}]]
      /\ complete' \in [Exports -> BOOLEAN]
      /\ \/ /\ tree'[p][path] = "absent" /\ complete'[p] = complete[p]
            /\ \A r \in Paths : r # path => tree'[p][r] = tree[p][r]
         \/ tree'[p] = tree[p] /\ complete'[p] = FALSE
  <2>1. CASE Put(p, path, "absent") /\ UNCHANGED complete
    BY <2>1, <1>3, PutEffect DEF TypeOK
  <2>2. CASE complete' = [complete EXCEPT ![p] = FALSE] /\ UNCHANGED tree
    BY <2>2 DEF TypeOK
  <2> QED
    BY <2>1, <2>2, <1>1
<1>7. TypeOK'
  BY <1>1, <1>5, <1>6 DEF TypeOK, Ownable
<1>8. /\ Bare(p)' /\ Fresh(p)' /\ Reasoned(p)' /\ Prefix(p)' /\ Renamed(p)'
      /\ DirectoriesHold(p)' /\ WrittenHolds(p)' /\ CheckedHolds(p)'
  BY <1>1 DEF EInv, Bare, Fresh, Reasoned, Prefix, Renamed, DirectoriesHold, WrittenHolds, CheckedHolds,
     Building, Committed, Failures
<1>9. MarkerInPlace(p)'
  <2> SUFFICES ASSUME tree'[p][Manifest] # "absent", touched[p] = "no", complete'[p]
               PROVE  FALSE
    BY <1>1 DEF MarkerInPlace
  <2>1. /\ tree'[p][path] = "absent" /\ complete[p]
        /\ \A r \in Paths : r # path => tree'[p][r] = tree[p][r]
    BY <1>6
  <2>2. path # Manifest /\ Manifest \in Paths
    BY <2>1, NameFacts DEF Ownable
  <2>3. tree[p][Manifest] # "absent"
    BY <2>1, <2>2
  <2> QED
    BY <2>1, <2>2, <2>3, <1>1 DEF EInv, MarkerInPlace
<1> QED
  BY <1>7, <1>8, <1>9 DEF EInv

LEMMA CleaningTarget ==
    ASSUME TypeOK, NEW p \in Exports, EInv(p), CleanTarget(p)
    PROVE  TypeOK' /\ EInv(p)'
<1>1. /\ pc[p] = "cleanup" /\ owned[p] = <<>>
      /\ UNCHANGED <<tree, owned, reason, complete, disturbances, touched>>
      /\ target' \in {target, Nothing}
      /\ pc' = [pc EXCEPT ![p] = pc'[p]]
      /\ \/ pc'[p] = "cleanup_failed"
         \/ pc'[p] = reason[p] /\ Names(p) = {} /\ target' = Nothing
  BY DEF TypeOK, CleanTarget, Goto
<1>2. reason[p] # "none"
  BY <1>1 DEF EInv, Reasoned
<1>3. pc'[p] \in Failures \union {"cleanup_failed"}
  BY <1>1, <1>2 DEF TypeOK
<1>4. TypeOK'
  BY <1>1, <1>3 DEF TypeOK, Ended
<1>5. Bare(p)' /\ Fresh(p)' /\ Reasoned(p)' /\ Prefix(p)' /\ Renamed(p)' /\ DirectoriesHold(p)' /\ WrittenHolds(p)'
  BY <1>1, <1>3, ExportAssumption DEF Bare, Fresh, Reasoned, Prefix, Renamed, DirectoriesHold, WrittenHolds,
     Building, Committed, Failures, Names
<1>6. CheckedHolds(p)'
  BY <1>3 DEF CheckedHolds, Failures
<1>7. MarkerInPlace(p)'
  BY <1>1 DEF EInv, MarkerInPlace
<1> QED
  BY <1>4, <1>5, <1>6, <1>7 DEF EInv

-----------------------------------------------------------------------------
(* Somebody else: the export no longer counts as untouched.                 *)

LEMMA DisturbingFile ==
    ASSUME TypeOK, NEW p \in Exports, EInv(p), NEW path \in Files,
           NEW entry \in {"absent", "drifted", "theirs"}, DisturbFile(p, path, entry)
    PROVE  TypeOK' /\ EInv(p)'
<1>1. /\ pc[p] \in Working \union {"cleanup"} /\ Put(p, path, entry)
      /\ disturbances < MaxDisturbances /\ disturbances' = disturbances + 1
      /\ touched' = [touched EXCEPT ![p] = touched'[p]] /\ touched'[p] \in {"early", "late"}
      /\ UNCHANGED <<target, pc, owned, reason, complete>>
  BY DEF TypeOK, DisturbFile, Exposed, Touch
<1>2. touched'[p] # "late" =>
          /\ touched[p] # "late" /\ pc[p] # "final target"
          /\ pc[p] = "final revalidate" => tree[p][path] # "absent"
  BY DEF TypeOK, DisturbFile, Touch
<1>3. /\ tree' \in [Exports -> [Paths -> Ours \union {"absent", "theirs"}]]
      /\ path \in Paths /\ path \notin Directories
      /\ \A r \in Paths : r # path => tree'[p][r] = tree[p][r]
  BY <1>1, PutEffect DEF Files, Ours
<1>4. TypeOK'
  <2>1. disturbances' \in 0 .. MaxDisturbances
    BY <1>1, ExportAssumption DEF TypeOK
  <2>2. touched' \in [Exports -> {"no", "early", "late"}]
    BY <1>1 DEF TypeOK
  <2> QED
    BY <2>1, <2>2, <1>1, <1>3 DEF TypeOK
<1>5. Bare(p)' /\ WrittenHolds(p)' /\ MarkerInPlace(p)'
  BY <1>1 DEF Bare, WrittenHolds, MarkerInPlace, Working, Failures
<1>6. Fresh(p)' /\ Reasoned(p)' /\ Prefix(p)' /\ Renamed(p)'
  BY <1>1 DEF EInv, Fresh, Reasoned, Prefix, Renamed
<1>7. DirectoriesHold(p)'
  BY <1>1, <1>3, NameFacts DEF EInv, DirectoriesHold, Ownable
<1>8. CheckedHolds(p)'
  <2> SUFFICES ASSUME touched'[p] # "late", pc[p] = "final revalidate"
               PROVE  \A r \in Paths : tree'[p][r] # "absent" => r \in Content \union {Manifest}
    BY <1>1, <1>2 DEF CheckedHolds, Working
  <2>1. \A r \in Paths : tree[p][r] # "absent" => r \in Content \union {Manifest}
    BY <1>2 DEF EInv, CheckedHolds
  <2> QED
    BY <2>1, <1>2, <1>3
<1> QED
  BY <1>4, <1>5, <1>6, <1>7, <1>8 DEF EInv

LEMMA DisturbingTarget ==
    ASSUME TypeOK, NEW p \in Exports, EInv(p), NEW other \in {Nothing, Foreign},
           DisturbTarget(p, other)
    PROVE  TypeOK' /\ EInv(p)'
<1>1. /\ pc[p] \in Working \union {"cleanup"} /\ target' = other
      /\ disturbances < MaxDisturbances /\ disturbances' = disturbances + 1
      /\ touched' = [touched EXCEPT ![p] = touched'[p]] /\ touched'[p] \in {"early", "late"}
      /\ touched'[p] # "late" => touched[p] # "late"
      /\ UNCHANGED <<tree, pc, owned, reason, complete>>
  BY DEF TypeOK, DisturbTarget, Exposed, Touch
<1>2. TypeOK'
  BY <1>1, ExportAssumption DEF TypeOK
<1>3. Bare(p)' /\ WrittenHolds(p)' /\ MarkerInPlace(p)'
  BY <1>1 DEF Bare, WrittenHolds, MarkerInPlace, Working, Failures
<1>4. Fresh(p)' /\ Reasoned(p)' /\ Prefix(p)' /\ Renamed(p)' /\ DirectoriesHold(p)'
  BY <1>1 DEF EInv, Fresh, Reasoned, Prefix, Renamed, DirectoriesHold
<1>5. CheckedHolds(p)'
  BY <1>1 DEF EInv, CheckedHolds, Working
<1> QED
  BY <1>2, <1>3, <1>4, <1>5 DEF EInv

-----------------------------------------------------------------------------
(* The results.                                                             *)

LEMMA NextIInv == IInv /\ [Next]_vars => IInv'
<1> SUFFICES ASSUME IInv, [Next]_vars PROVE IInv'
  OBVIOUS
<1>1. CASE UNCHANGED vars
  <2>1. TypeOK'
    BY <1>1 DEF IInv, TypeOK, vars
  <2>2. ASSUME NEW p \in Exports PROVE EInv(p)'
    BY <1>1, SameView DEF IInv, vars
  <2> QED
    BY <2>1, <2>2 DEF IInv
<1>2. ASSUME NEW q \in Exports, ExportStep(q) \/ Disturb(q) PROVE IInv'
  <2>1. TypeOK /\ EInv(q)
    BY DEF IInv
  <2>2. TypeOK' /\ EInv(q)'
    <3>1. CASE LookForTarget(q) \/ CreateTarget(q) \/ CannotCreateTarget(q)
      BY <2>1, <3>1, TargetSteps
    <3>2. CASE CreateDirectory(q) \/ CreateFile(q)
      BY <2>1, <3>2, Creations
    <3>3. CASE WriteFile(q)
      BY <2>1, <3>3, Writing
    <3>4. CASE LoseNewEntry(q)
      BY <2>1, <3>4, Losing
    <3>5. CASE CheckInventory(q) \/ RevalidateContent(q) \/ CheckTarget(q)
      BY <2>1, <3>5, EarlyChecks
    <3>6. CASE PublishManifest(q)
      BY <2>1, <3>6, Publishing
    <3>7. CASE CheckFinalInventory(q) \/ RevalidateExport(q) \/ Succeed(q)
      BY <2>1, <3>7, LastChecks
    <3>8. CASE Fail(q) \/ Kill(q)
      BY <2>1, <3>8, GivingUp
    <3>9. CASE CleanEntry(q)
      BY <2>1, <3>9, CleaningEntry
    <3>10. CASE CleanTarget(q)
      BY <2>1, <3>10, CleaningTarget
    <3>11. CASE Disturb(q)
      BY <2>1, <3>11, DisturbingFile, DisturbingTarget DEF Disturb
    <3> QED
      BY <1>2, <3>1, <3>2, <3>3, <3>4, <3>5, <3>6, <3>7, <3>8, <3>9, <3>10, <3>11 DEF ExportStep
  <2>3. ASSUME NEW p \in Exports, p # q PROVE EInv(p)'
    <3>1. EInv(p)
      BY DEF IInv
    <3> QED
      BY <1>2, <2>1, <2>3, <3>1, Frame
  <2> QED
    BY <2>2, <2>3 DEF IInv
<1> QED
  BY <1>1, <1>2 DEF Next

\* The inductive invariant holds in every reachable state.
THEOREM IInvAlways == Spec => []IInv
<1> QED
  BY InitIInv, NextIInv, PTL DEF Spec

\* Type correctness of the export.
THEOREM ExportTypeCorrect == Spec => []TypeOK
<1>1. IInv => TypeOK
  BY DEF IInv
<1> QED
  BY <1>1, IInvAlways, PTL

\* However many files are written, and wherever the call fails or is killed: no
\* committed manifest without its whole content, unless somebody else touched
\* the directory or a removal failed.
THEOREM CommitIsAtomic == Spec => []MarkerMeansComplete
<1>1. IInv => MarkerMeansComplete
  BY DEF IInv, EInv, MarkerInPlace, MarkerMeansComplete
<1> QED
  BY <1>1, IInvAlways, PTL

\* Success stands for the exact tree under the output name.
THEOREM SuccessMeansExact == Spec => []SuccessIsExact
<1>1. ASSUME IInv PROVE SuccessIsExact
  <2> SUFFICES ASSUME NEW p \in Exports, pc[p] = "success", touched[p] # "late"
               PROVE  /\ target = p
                      /\ Names(p) = Content \union {Manifest}
                      /\ \A path \in Names(p) : tree[p][path] = "whole"
    BY DEF SuccessIsExact
  <2>1. /\ \A path \in Paths : tree[p][path] # "absent" => path \in Content \union {Manifest}
        /\ \A path \in Content \union {Manifest} : tree[p][path] = "whole"
        /\ target = p
    BY <1>1 DEF IInv, EInv, CheckedHolds
  <2> QED
    BY <2>1, NameFacts DEF Names, Ownable
<1> QED
  BY <1>1, IInvAlways, PTL

\* An ordinary failure leaves nothing of the export behind.
THEOREM FailureIsClean == Spec => []FailureLeavesNothing
<1>1. IInv => FailureLeavesNothing
  BY DEF IInv, EInv, Bare, FailureLeavesNothing, Names
<1> QED
  BY <1>1, IInvAlways, PTL

\* No step of an export touches what belongs to somebody else.
THEOREM OthersSurvive == Spec => ForeignSurvives
<1> DEFINE Kept(p) ==
        /\ \A q \in Exports, path \in Paths \ {Manifest, Temporary} :
               tree[q][path] = "theirs" => tree'[q][path] = "theirs"
        /\ \A q \in Exports \ {p} : tree'[q] = tree[q]
        /\ target \notin {p, Nothing} => target' = target
<1>1. ASSUME IInv, NEW p \in Exports, ExportStep(p) PROVE Kept(p)
  <2>1. TypeOK /\ EInv(p)
    BY <1>1 DEF IInv
  <2>2. \A q \in Exports \ {p} : tree'[q] = tree[q]
    BY <1>1, <2>1, OthersUntouched DEF IInv
  <2>3. target \notin {p, Nothing} => target' = target
    BY <1>1 DEF ExportStep, LookForTarget, CreateTarget, CannotCreateTarget, CreateDirectory,
       CreateFile, WriteFile, LoseNewEntry, CheckInventory, RevalidateContent, CheckTarget,
       PublishManifest, CheckFinalInventory, RevalidateExport, Succeed, Fail, CleanEntry,
       CleanTarget, TargetHolds, Kill
  <2>4. \A path \in Paths \ {Manifest, Temporary} :
            tree[p][path] = "theirs" => tree'[p][path] = "theirs"
    <3>1. CASE UNCHANGED tree
      BY <3>1
    <3>2. ASSUME NEW path \in Paths, NEW entry \in Ours \union {"absent", "theirs"},
                 Put(p, path, entry), tree[p][path] # "theirs"
          PROVE  \A r \in Paths : tree[p][r] = "theirs" => tree'[p][r] = "theirs"
      BY <2>1, <3>2, PutEffect
    <3>3. CASE CreateDirectory(p) \/ CreateFile(p) \/ LoseNewEntry(p)
      <4>1. NextPath(p) \in Paths
        BY <3>3, <2>1, NextIsPlanned DEF CreateDirectory, CreateFile, LoseNewEntry
      <4> QED
        BY <3>2, <3>3, <4>1 DEF CreateDirectory, CreateFile, LoseNewEntry, Ours
    <3>4. CASE WriteFile(p) \/ CleanEntry(p)
      <4> DEFINE path == owned[p][Len(owned[p])]
      <4>1. owned[p] # <<>>
        BY <3>4, <2>1 DEF WriteFile, CleanEntry, EInv, Prefix, Building
      <4>2. owned[p] \in Seq(Ownable)
        BY <2>1 DEF TypeOK, Ownable
      <4>3. path \in Paths
        BY <4>1, <4>2, NameFacts
      <4> QED
        BY <3>1, <3>2, <3>4, <4>3 DEF WriteFile, CleanEntry, Removable, Ours
    <3>5. CASE PublishManifest(p)
      BY <3>5, <2>1 DEF PublishManifest, TypeOK
    <3> QED
      BY <1>1, <3>1, <3>3, <3>4, <3>5 DEF ExportStep, LookForTarget, CreateTarget,
         CannotCreateTarget, CheckInventory, RevalidateContent, CheckTarget,
         CheckFinalInventory, RevalidateExport, Succeed, Fail, CleanTarget, Kill
  <2> QED
    BY <2>2, <2>3, <2>4
<1>2. IInv /\ [Next]_vars => [\A p \in Exports : ExportStep(p) => Kept(p)]_vars
  BY <1>1
<1> QED
  BY <1>2, IInvAlways, PTL DEF Spec, ForeignSurvives

=============================================================================

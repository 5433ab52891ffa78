------------------------------ MODULE ForgeDiff ------------------------------
(* The files a platform says have changed (internal/forge). GitHub and       *)
(* GitLab list them with their patches. Azure DevOps names two git objects   *)
(* for each; kibitz reads both, a few files at a time and within a budget,   *)
(* and computes the patch. An object is <<content>>, no object is <<>>; the  *)
(* size of a content is its number of lines. A path is a sequence of         *)
(* symbols, a patch the sequence of its raw lines.                           *)
EXTENDS TextDiff, FiniteSets, Only

CONSTANTS PageSize, MaxPages,           \* of GitHub's and GitLab's listings
          ChangePageSize, ChangePages,  \* of Azure's
          MaxFiles,                     \* more are not reviewed
          MaxBytes,                     \* what one Azure diff downloads
          Workers,                      \* what fetches at once
          MaxMishaps                    \* bound: what goes wrong at the platform

ASSUME ListingAssumption ==
    /\ {PageSize, MaxPages, ChangePageSize, ChangePages, MaxFiles} \subseteq Nat \ {0}
    /\ MaxBytes \in Nat /\ MaxMishaps \in Nat

First(n, s) == SubSeq(s, 1, Min({n, Len(s)}))
Mapped(s, Op(_)) == [i \in DOMAIN s |-> Op(s[i])]

(* Page by page until one is not full. *)
Paged(listing) ==
    LET seen == First(MaxPages * PageSize, listing)
    IN  [files     |-> First(MaxFiles, seen),
         truncated |-> Len(seen) > MaxFiles \/ Len(listing) >= MaxPages * PageSize]

GitHubFile(f) ==
    [path |-> f.filename, previous |-> f.previous_filename, patch |-> f.patch,
     additions |-> f.additions, deletions |-> f.deletions]

\* What looks like the header of a file is not counted.
CountChanges(patch, sign, header) ==
    Cardinality({i \in DOMAIN patch : patch[i].tag = sign /\ patch[i].text # header})
GitLabFile(d) ==
    [path     |-> IF d.deleted /\ d.old_path # <<>> THEN d.old_path ELSE d.new_path,
     previous |-> IF d.renamed /\ d.old_path # d.new_path THEN d.old_path ELSE <<>>,
     patch    |-> d.diff,
     additions |-> CountChanges(d.diff, "+", "++"),
     deletions |-> CountChanges(d.diff, "-", "--")]

\* GitLab compares in one call.
GitLabComparison(listing, timeout) ==
    [files     |-> Mapped(First(MaxFiles, listing), GitLabFile),
     truncated |-> timeout \/ Len(listing) > MaxFiles]

-----------------------------------------------------------------------------
(* Azure DevOps: what a change says of itself.                               *)
Added(ch) == ch.kinds \cap {"add", "undelete", "branch"} # {}
Deleted(ch) == "delete" \in ch.kinds /\ "undelete" \notin ch.kinds

Trimmed(path) == IF path # <<>> /\ Head(path) = "/" THEN Tail(path) ELSE path
IsFile(ch) == ~ch.folder /\ Trimmed(ch.path) # <<>>

Listed(listing) == First(ChangePages * ChangePageSize, listing)
ListedInPart(listing) == Len(listing) > ChangePages * ChangePageSize

\* The changes that become files, and whether some of them do not.
FilesOf(listing) == Only(Listed(listing), {ch \in Range(listing) : IsFile(ch)})
Kept(listing) == First(MaxFiles, FilesOf(listing))
LeftOut(listing) == ListedInPart(listing) \/ Len(FilesOf(listing)) > MaxFiles

AzureFile(ch) ==
    [path |-> Trimmed(ch.path), previous |-> Trimmed(ch.original), patch |-> <<>>,
     additions |-> 0, deletions |-> 0]

\* A deletion names the object there was before it.
OldObject(ch) == IF Added(ch) THEN <<>>
                 ELSE IF Deleted(ch) /\ ch.originalObject = <<>> THEN ch.object
                 ELSE ch.originalObject
NewObject(ch) == IF Deleted(ch) THEN <<>> ELSE ch.object
MustLookUp(ch) == ~Added(ch) /\ OldObject(ch) = <<>>
PathBefore(ch) == IF ch.original = <<>> THEN ch.path ELSE ch.original

-----------------------------------------------------------------------------
VARIABLES pull,     \* the pull request, as its platform knows it
          reading,  \* which of its listings is being read: "diff" or "compare"
          files,    \* the files of the listing, the patches of those that are done
          next,     \* the file that is handed out next
          worker,   \* what each worker does
          budget,   \* what may still be downloaded
          over,     \* a file was left without its patch
          broken,   \* a file could not be read
          mishaps   \* what went wrong so far

fill == <<files, next, worker, budget, over, broken>>

Idle == [at |-> "idle", file |-> 0, sides |-> <<>>, old |-> <<>>, before |-> <<>>, after |-> <<>>]
Changes == Kept(pull.listing[reading])

FillInit ==
    /\ files = <<>> /\ next = 1 /\ budget = MaxBytes
    /\ worker = [w \in Workers |-> Idle]
    /\ over = FALSE /\ broken = FALSE /\ mishaps = 0

\* buildDiff: every file of the listing, without its patch, handed to the workers.
StartFill(which) ==
    /\ reading' = which
    /\ files' = Mapped(Kept(pull.listing[which]), AzureFile)
    /\ next' = 1 /\ budget' = MaxBytes /\ over' = FALSE /\ broken' = FALSE
    /\ UNCHANGED worker

Mishap == mishaps < MaxMishaps /\ mishaps' = mishaps + 1
Job(w) == worker[w]
Rest(w) == worker' = [worker EXCEPT ![w] = Idle]

\* The raw lines of a patch that ends with a newline.
Raws(patch) == IF patch = <<>> THEN <<>> ELSE Append(patch, [tag |-> ""])

\* A side without an object is read as nothing.
Sides(old, new) == (IF old = <<>> THEN <<>> ELSE <<"before">>)
                   \o (IF new = <<>> THEN <<>> ELSE <<"after">>)

(* Ask for the next side, or have both: then the patch is computed. *)
Proceed(w, job) ==
    worker' = [worker EXCEPT ![w] = [job EXCEPT !.at = IF job.sides = <<>> THEN "has both" ELSE "asks"]]

ComputePatch(w) ==
    /\ Job(w).at = "has both"
    /\ LET result == Unified(Job(w).before, Job(w).after)
       IN  files' = [files EXCEPT ![Job(w).file].patch = Raws(result.patch),
                                  ![Job(w).file].additions = result.additions,
                                  ![Job(w).file].deletions = result.deletions]
    /\ Rest(w)
    /\ UNCHANGED <<next, budget, over, broken, mishaps>>

TakeFile(w) ==
    /\ Job(w) = Idle /\ next <= Len(files)
    /\ next' = next + 1
    /\ LET ch  == Changes[next]
           job == [Idle EXCEPT !.file = next, !.old = OldObject(ch),
                               !.sides = Sides(OldObject(ch), NewObject(ch))]
       IN  IF MustLookUp(ch)
           THEN worker' = [worker EXCEPT ![w] = [job EXCEPT !.at = "looks up"]]
           ELSE Proceed(w, job)
    /\ UNCHANGED <<files, budget, over, broken, mishaps>>

\* objectAt: the object the path had at the commit the listing starts from.
LookUp(w) ==
    /\ Job(w).at = "looks up"
    /\ LET ch  == Changes[Job(w).file]
           old == pull.objects[reading][PathBefore(ch)]
       IN  Proceed(w, [Job(w) EXCEPT !.old = old, !.sides = Sides(old, NewObject(ch))])
    /\ UNCHANGED <<files, next, budget, over, broken, mishaps>>

\* blob, before its request: spend(0).
AskBlob(w) ==
    /\ Job(w).at = "asks"
    /\ IF budget <= 0
       THEN over' = TRUE /\ Rest(w)
       ELSE worker' = [worker EXCEPT ![w].at = "reads"] /\ UNCHANGED over
    /\ UNCHANGED <<files, next, budget, broken, mishaps>>

\* blob, after it: what arrived is used even when others spent the budget meanwhile.
Arrived(w, content) ==
    Proceed(w, [Job(w) EXCEPT !.sides = Tail(@),
                              !.before = IF Head(Job(w).sides) = "before" THEN content ELSE @,
                              !.after  = IF Head(Job(w).sides) = "after" THEN content ELSE @])
Asked(w) == IF Head(Job(w).sides) = "before" THEN Job(w).old ELSE NewObject(Changes[Job(w).file])

ReadBlob(w) ==
    /\ Job(w).at = "reads"
    /\ LET content == Asked(w)[1]
       IN  /\ Arrived(w, content)
           /\ budget' = IF budget <= 0 THEN budget ELSE budget - Len(content)
    /\ UNCHANGED <<files, next, over, broken, mishaps>>

\* An object the platform has forgotten reads as an empty one.
ForgottenBlob(w) ==
    /\ Job(w).at = "reads" /\ Mishap
    /\ Arrived(w, <<>>)
    /\ UNCHANGED <<files, next, budget, over, broken>>

BrokenBlob(w) ==
    /\ Job(w).at \in {"looks up", "reads"} /\ Mishap
    /\ broken' = TRUE /\ Rest(w)
    /\ UNCHANGED <<files, next, budget, over>>

Filling == \E w \in Workers : \/ TakeFile(w) \/ LookUp(w) \/ AskBlob(w)
                              \/ ReadBlob(w) \/ ForgottenBlob(w) \/ BrokenBlob(w) \/ ComputePatch(w)
Filled == next > Len(files) /\ \A w \in Workers : Job(w) = Idle
FilledDiff == [files |-> files, truncated |-> LeftOut(pull.listing[reading]) \/ over]
=============================================================================

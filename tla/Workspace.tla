------------------------------- MODULE Workspace ------------------------------
(***************************************************************************)
(* The workspace and the file tools that change it (tools/scaffold.py,     *)
(* tools/sandbox.py), each call in a thread of its own that the loop may   *)
(* have given up on, beside the session's own walks of the tree and the    *)
(* processes the agent left in the environment, which see the same files.  *)
(*                                                                         *)
(* A path is a sequence of segments; a file is its size in bytes.          *)
(* Directories are the paths of their files; links are left out, and so    *)
(* are the tools that only read.                                           *)
(***************************************************************************)
EXTENDS Integers, Sequences, FiniteSets, Functions, SequencesExt

CONSTANTS
  Paths,       \* the paths a call may name
  MaxLen,      \* bound: bytes of one file
  Quota,       \* workspace_quota_bytes
  MaxCalls     \* bound: calls of the session

ASSUME WorkspaceAssumption ==
  /\ \A p \in Paths : p \in Seq(STRING)
  /\ MaxLen \in Nat \ {0} /\ Quota \in Nat
  /\ MaxCalls \in Nat \ {0}

-------------------------------------------------------------------------------
(* The sandbox.                                                            *)

Roots == {"workspace", "reference", "journal"}
RunDir == <<"runs", "run">>  \* where the run directory is

\* Path.parts of a path has no `.`; Path.resolve takes out the `..`, and above
\* the root is the root.
Parts(path) ==
  FoldLeft(LAMBDA s, seg : IF seg = "." THEN s ELSE Append(s, seg), <<>>, path)
Normal(parts) ==
  FoldLeft(LAMBDA s, seg : IF seg /= ".." THEN Append(s, seg)
                           ELSE IF s = <<>> THEN s ELSE Front(s),
           <<>>, parts)

\* Where a path leads if what begins with one of `names` is left as it is, and
\* anything else is relative to the workspace.
Leads(path, names) ==
  LET parts == Parts(path)
      named == parts /= <<>> /\ Head(parts) \in names
  IN  Normal(RunDir \o (IF named THEN parts ELSE <<"workspace">> \o parts))

\* Mutation: no leading `workspace` is stripped.
Resolve_StripsNone(path) == Leads(path, {"reference", "journal"})
\* A bare path and one with a leading `workspace` name the same file.
Resolve(path) == Leads(path, Roots)

Under(root, file) == IsPrefix(RunDir \o <<root>>, file)

\* _rel: what telemetry calls the file, relative to the run directory.
Rel(file) == SubSeq(file, Len(RunDir) + 1, Len(file))

-------------------------------------------------------------------------------

Calls == 1..MaxCalls
Main == 0                    \* the session's own thread
Actors == Calls \cup {Main}

\* What a file tool may write: a file of the workspace, not the workspace.
Files == {Resolve(p) : p \in {q \in Paths :
            Under("workspace", Resolve(q)) /\ Resolve(q) /= RunDir \o <<"workspace">>}}
Sizes == 0..MaxLen
Trees == UNION {[S -> Sizes] : S \in {T \in SUBSET Files : IsFiniteSet(T)}}

VARIABLES
  tree,      \* the files and their sizes
  jobs,      \* the calls of file tools, by their number
  walks,     \* the walk of the tree an actor is in
  account,   \* history: what the rows of the file tools add up to
  outside    \* history: the agent's own processes changed a file

fileVars == <<tree, jobs, walks, account, outside>>

NoJob == [at |-> "none", kind |-> "none", file |-> <<>>, len |-> 0, existing |-> 0]
Over == [NoJob EXCEPT !.at = "over"]
NoWalk == [left |-> {}, sum |-> 0]

Steps == {"none", "begun", "list", "weigh", "put", "unlink", "relist", "tell", "over"}
Job == [at: Steps, kind: {"none", "write", "delete"}, file: Files \cup {<<>>},
        len: Sizes, existing: Sizes]

\* The tree a reader of the workspace_write and workspace_delete rows has, and
\* the total of the last one; Void once a file may have changed without a row.
NoTotal == -1
Account == [tree: Trees, total: Nat \cup {NoTotal}, void: BOOLEAN]
Void == [tree |-> <<>>, total |-> NoTotal, void |-> TRUE]

FilesTypeOK ==
  /\ tree \in Trees
  /\ jobs \in [Calls -> Job]
  /\ walks \in [Actors -> [left: SUBSET Files, sum: Nat]]
  /\ account \in Account
  /\ outside \in BOOLEAN

Total(t) == SumFunction(t)

FilesInit ==
  /\ tree \in {t \in Trees : Total(t) <= Quota /\ \A f \in DOMAIN t : t[f] > 0}
  /\ account = [tree |-> tree, total |-> NoTotal, void |-> FALSE]
  /\ jobs = [c \in Calls |-> NoJob]
  /\ walks = [a \in Actors |-> NoWalk]
  /\ outside = FALSE

At(c, step) == jobs[c].at = step
Goes(c, step) == jobs' = [jobs EXCEPT ![c].at = step]
Ends(c) == jobs' = [jobs EXCEPT ![c] = Over]
Working(c) == jobs[c].at \notin {"none", "over"}

-------------------------------------------------------------------------------
(* A walk of the tree: _regular_files lists every file, and only then is   *)
(* each asked for its size, in an order that is always the same.       *)

ListFiles(a) == walks' = [walks EXCEPT ![a] = [left |-> DOMAIN tree, sum |-> 0]]

NextListed(a) == CHOOSE f \in walks[a].left : TRUE

StatOne(a) ==
  /\ walks[a].left /= {} /\ NextListed(a) \in DOMAIN tree
  /\ walks' = [walks EXCEPT ![a] =
       [left |-> @.left \ {NextListed(a)},
        sum |-> IF a = Main THEN 0 ELSE @.sum + tree[NextListed(a)]]]

\* A listed file is gone when it is asked for: the stat raises.
Vanished(a) == walks[a].left /= {} /\ NextListed(a) \notin DOMAIN tree
Forget(a) == walks' = [walks EXCEPT ![a] = NoWalk]
Walked(a) == walks[a].left = {}

-------------------------------------------------------------------------------
(* The file tools.  Any exception of theirs is an error result.            *)

BeginFileCall(c, kind, path, len) ==
  /\ At(c, "none")
  /\ jobs' = [jobs EXCEPT ![c] =
       IF Resolve(path) \in Files
       THEN [NoJob EXCEPT !.at = "begun", !.kind = kind, !.file = Resolve(path),
                          !.len = len]
       ELSE [NoJob EXCEPT !.at = "begun"]]
  /\ UNCHANGED <<tree, walks, account, outside>>

\* The refusals that look at nothing but the path and its file: a path that is
\* outside the workspace or names a directory, and no file to delete.
Refuse(c) ==
  /\ At(c, "begun")
  /\ \/ jobs[c].file = <<>>
     \/ jobs[c].kind = "delete" /\ jobs[c].file \notin DOMAIN tree
  /\ Ends(c)
  /\ UNCHANGED <<tree, walks, account, outside>>

\* workspace_write takes the size of the file it will replace ...
StatExisting(c) ==
  /\ At(c, "begun") /\ jobs[c].kind = "write" /\ jobs[c].file /= <<>>
  /\ LET f == jobs[c].file
     IN  jobs' = [jobs EXCEPT ![c].at = "list",
                              ![c].existing = IF f \in DOMAIN tree THEN tree[f] ELSE 0]
  /\ UNCHANGED <<tree, walks, account, outside>>

\* ... and walks the tree; both tools walk it again for their row.
ListForCall(c) ==
  /\ \/ At(c, "list") /\ Goes(c, "weigh")
     \/ At(c, "relist") /\ Goes(c, "tell")
  /\ ListFiles(c)
  /\ UNCHANGED <<tree, account, outside>>

StatForCall(c) ==
  /\ jobs[c].at \in {"weigh", "tell"}
  /\ StatOne(c)
  /\ UNCHANGED <<tree, jobs, account, outside>>

\* The walk raises: before the write nothing happened, after it the file is
\* changed and no row says so.
WalkRaises(c) ==
  /\ jobs[c].at \in {"weigh", "tell"} /\ Vanished(c)
  /\ Ends(c) /\ Forget(c)
  /\ UNCHANGED <<tree, account, outside>>

\* Mutation: the bytes in use without what is about to be written.
Projected_Before(c) == walks[c].sum - jobs[c].existing
Projected(c) == walks[c].sum - jobs[c].existing + jobs[c].len

Weigh(c) ==
  /\ At(c, "weigh") /\ Walked(c)
  /\ IF Projected(c) > Quota THEN Ends(c) ELSE Goes(c, "put")
  /\ Forget(c)
  /\ UNCHANGED <<tree, account, outside>>

With(t, f, len) == [g \in DOMAIN t \cup {f} |-> IF g = f THEN len ELSE t[g]]
Without(t, f) == Restrict(t, DOMAIN t \ {f})

Put(c) ==
  /\ At(c, "put")
  /\ tree' = With(tree, jobs[c].file, jobs[c].len)
  /\ Goes(c, "relist")
  /\ UNCHANGED <<walks, account, outside>>

\* The disk refuses: the file was opened, and cut, or not even that.
PutFails(c) ==
  /\ At(c, "put")
  /\ \/ tree' = tree
     \/ \E n \in 0..jobs[c].len : tree' = With(tree, jobs[c].file, n)
  /\ account' = Void
  /\ Ends(c)
  /\ UNCHANGED <<walks, outside>>

StartUnlink(c) ==
  /\ At(c, "begun") /\ jobs[c].kind = "delete"
  /\ jobs[c].file \in DOMAIN tree
  /\ Goes(c, "unlink")
  /\ UNCHANGED <<tree, walks, account, outside>>

Unlink(c) ==
  /\ At(c, "unlink")
  /\ IF jobs[c].file \in DOMAIN tree
     THEN /\ tree' = Without(tree, jobs[c].file)
          /\ Goes(c, "relist")
     ELSE Ends(c) /\ UNCHANGED tree
  /\ UNCHANGED <<walks, account, outside>>

\* The row of call c, as its reader takes it.
Tells(c) ==
  LET f == jobs[c].file
      t == account.tree
  IN  IF account.void THEN Void
      ELSE [tree |-> IF jobs[c].kind = "write" THEN With(t, f, jobs[c].len)
                     ELSE Without(t, f),
            total |-> walks[c].sum, void |-> FALSE]

\* Mutation: the row does not wait for the walk to be over.
Emit_BeforeWalk(c) ==
  /\ At(c, "tell")
  /\ account' = Tells(c)
  /\ Ends(c) /\ Forget(c)
  /\ UNCHANGED <<tree, outside>>
\* The row, with the bytes in use as the second walk found them.
Emit(c) ==
  /\ At(c, "tell") /\ Walked(c)
  /\ account' = Tells(c)
  /\ Ends(c) /\ Forget(c)
  /\ UNCHANGED <<tree, outside>>

FileCallStep(c) ==
  \/ Refuse(c) \/ StatExisting(c) \/ ListForCall(c) \/ StatForCall(c)
  \/ WalkRaises(c) \/ Weigh(c) \/ Put(c) \/ StartUnlink(c) \/ Unlink(c)
  \/ Emit(c)

\* A process the agent left in the environment: the same files, no quota.
AgentProcess ==
  /\ outside' = TRUE
  /\ \/ \E f \in Files, n \in Sizes : tree' = With(tree, f, n)
     \/ \E f \in DOMAIN tree : tree' = Without(tree, f)
  /\ account' = Void
  /\ UNCHANGED <<jobs, walks>>

-------------------------------------------------------------------------------
(* Properties.                                                             *)

\* The name telemetry gives a file (path_resolved, and the rows of the file
\* tools) leads the file tools back to that file, whichever way the agent named
\* it when it was written (tools/sandbox.py, resolve_path; tools/scaffold.py,
\* _rel and resolve_rel).
NamesLeadBack == \A f \in DOMAIN tree \cup DOMAIN account.tree : Resolve(Rel(f)) = f

===============================================================================

------------------------------ MODULE DumpPath ------------------------------
(***************************************************************************)
(* nar.DumpPathFilter (pkg/nar/dump.go): a walk over the file system that  *)
(* drives a NarWriter, while others change the files.  Every system call   *)
(* sees the files as they are at that moment, and may fail.                *)
(*                                                                         *)
(* dumpPath calls itself for every entry of a directory; todo holds the    *)
(* paths that the loops of all active calls have still to dump.            *)
(***************************************************************************)
EXTENDS NarWriter, NarGrammar, FiniteSets

CONSTANTS
  FileSystems,  \* what may be below the path: functions from paths to nodes
  Filters,      \* the filters: each the set of paths it omits
  MaxSize       \* bound: the size of a file that is not in FileSystems

Seqs == INSTANCE SequencesExt

FileTypes == Types \cup {"other"}
Node == [type : FileTypes, size : Nat, exec : BOOLEAN]

ASSUME DumpPathAssumption ==
  /\ \A f \in FileSystems : \A p \in DOMAIN f : p \in Seq(Strings) /\ f[p] \in Node
  /\ \A f \in FileSystems : IsFiniteSet(DOMAIN f)
  /\ MaxSize \in Nat

VARIABLES
  fs,      \* the file system, from the path that is dumped
  omit,    \* the paths for which the filter is false
  todo,    \* the paths still to be dumped, the next one first
  dpc,     \* where DumpPathFilter is
  node,    \* fi, the result of Lstat
  opened,  \* size of the open file, as it is now
  result,  \* what DumpPathFilter returned
  calm     \* history: no file has changed, no system call and no write has failed

dump == <<omit, todo, dpc, node, result>>
dumpVars == <<vars, fs, dump, opened, calm>>

NoNode == [type |-> "other", size |-> 0, exec |-> FALSE]

\* DumpPathFilter, once NewWriter has written the magic.
DumpInit ==
  /\ Init
  /\ fs \in FileSystems /\ omit \in Filters
  /\ todo = <<<<>>>> /\ dpc = "walk" /\ node = NoNode
  /\ opened = 0 /\ result = "none" /\ calm = TRUE

\* Variant: without the deferred Close.
AbortUnclosed == dpc' = "returned" /\ result' = "error" /\ UNCHANGED <<omit, todo, node>>

\* An error: every call of dumpPath returns it, then the Writer is closed.
Abort == dpc' = "abort" /\ UNCHANGED <<omit, todo, node, result>>

\* A system call fails.
Breaks == Abort /\ calm' = FALSE

At(step) == dpc = step /\ cpc = "idle"
-----------------------------------------------------------------------------
(* dumpPath. *)

\* Lstat, the type, the filter.  What is omitted is not walked either.
Lstat ==
  /\ At("walk") /\ todo # <<>>
  /\ LET p == Head(todo)
     IN  \/ /\ p \in DOMAIN fs /\ fs[p].type \in Types /\ p \in omit
            /\ todo' = Tail(todo)
            /\ UNCHANGED <<omit, dpc, node, result, calm>>
         \/ /\ p \in DOMAIN fs /\ fs[p].type \in Types /\ p \notin omit
            /\ node' = fs[p] /\ dpc' = "node"
            /\ UNCHANGED <<omit, todo, result, calm>>
         \/ /\ p \in DOMAIN fs /\ fs[p].type = "other"
            /\ Abort /\ UNCHANGED calm
         \/ Breaks
  /\ UNCHANGED <<vars, fs, opened>>

\* The header for the node n at p: a link or a directory has no size there.
HeaderOf(p, n) ==
  [path |-> p, type |-> n.type,
   size |-> IF n.type = "regular" THEN n.size ELSE 0,
   exec |-> n.type = "regular" /\ n.exec]

\* The call of WriteHeader, of a link behind Readlink.
SendHeader ==
  /\ At("node")
  /\ LET p == Head(todo)
     IN  \/ /\ node.type = "symlink" => p \in DOMAIN fs /\ fs[p].type = "symlink"
            /\ WriteHeader(HeaderOf(p, node))
            /\ dpc' = "sent"
            /\ UNCHANGED <<omit, todo, node, result, calm>>
         \/ /\ node.type = "symlink"
            /\ Breaks /\ UNCHANGED vars
  /\ UNCHANGED <<fs, opened>>

\* Variant: the error of WriteHeader is not looked at.
HeaderSentUnchecked ==
  /\ At("sent")
  /\ IF node.type = "symlink" THEN todo' = Tail(todo) /\ dpc' = "walk"
     ELSE dpc' = (IF node.type = "directory" THEN "list" ELSE "open") /\ UNCHANGED todo
  /\ UNCHANGED <<vars, fs, opened, omit, node, result, calm>>

\* WriteHeader has returned.
HeaderSent ==
  /\ At("sent")
  /\ \/ outcome = "error" /\ Abort
     \/ /\ outcome = "ok" /\ node.type = "symlink"
        /\ todo' = Tail(todo) /\ dpc' = "walk"
        /\ UNCHANGED <<omit, node, result>>
     \/ /\ outcome = "ok" /\ node.type # "symlink"
        /\ dpc' = IF node.type = "directory" THEN "list" ELSE "open"
        /\ UNCHANGED <<omit, todo, node, result>>
  /\ UNCHANGED <<vars, fs, opened, calm>>

\* The entries of the directory p.
Children(p) == {q \in DOMAIN fs : Len(q) = Len(p) + 1 /\ IsPrefixOf(p, q)}

NameLess(p, q) == p # q /\ StringLeq(Bytes[p[Len(p)]], Bytes[q[Len(q)]])

\* Variant: the entries in no order, as Readdir of an open file gives them.
ListUnsorted ==
  /\ At("list")
  /\ LET p == Head(todo)
     IN  \/ /\ p \in DOMAIN fs /\ fs[p].type = "directory"
            /\ todo' \in {s \o Tail(todo) : s \in Seqs!SetToSeqs(Children(p))}
            /\ dpc' = "walk"
            /\ UNCHANGED <<omit, node, result, calm>>
         \/ Breaks
  /\ UNCHANGED <<vars, fs, opened>>

\* ReadDir, which sorts by name.  A link to a directory, which it would
\* follow, is left out.
List ==
  /\ At("list")
  /\ LET p == Head(todo)
     IN  \/ /\ p \in DOMAIN fs /\ fs[p].type = "directory"
            /\ \E s \in Seqs!SetToSeqs(Children(p)) :
                 /\ \A i \in 1 .. Len(s) - 1 : NameLess(s[i], s[i + 1])
                 /\ todo' = s \o Tail(todo)
            /\ dpc' = "walk"
            /\ UNCHANGED <<omit, node, result, calm>>
         \/ Breaks
  /\ UNCHANGED <<vars, fs, opened>>

\* Open, which follows a link that has come in the place of the file.
Open ==
  /\ At("open")
  /\ LET p == Head(todo)
     IN  \/ /\ p \in DOMAIN fs
            /\ \/ fs[p].type = "regular" /\ opened' = fs[p].size
               \/ fs[p].type = "symlink" /\ opened' \in 0 .. MaxSize
            /\ dpc' = "copy"
            /\ UNCHANGED <<omit, todo, node, result, calm>>
         \/ Breaks /\ UNCHANGED opened
  /\ UNCHANGED <<vars, fs>>

\* One round of io.Copy.  At the end of the file the size must be what
\* Lstat has told; a chunk that is too long for the header is refused.
Copy ==
  /\ At("copy")
  /\ \/ /\ body.written >= opened
        /\ IF body.written = node.size
           THEN todo' = Tail(todo) /\ dpc' = "walk" /\ UNCHANGED <<omit, node, result>>
           ELSE Abort
        /\ UNCHANGED <<body, calm>>
     \/ \E n \in 1 .. opened - body.written :
          IF body.written + n <= body.total
          THEN body' = [body EXCEPT !.written = @ + n] /\ UNCHANGED <<dump, calm>>
          ELSE Abort /\ UNCHANGED <<body, calm>>
     \/ Breaks /\ UNCHANGED body
  /\ UNCHANGED <<out, stack, epc, next, caller, fs, opened>>
-----------------------------------------------------------------------------
(* DumpPathFilter. *)

\* "return nw.Close()", behind the walk or, for the error of dumpPath, deferred.
CloseWriter ==
  /\ \/ At("walk") /\ todo = <<>> /\ UNCHANGED result
     \/ At("abort") /\ result' = "error"
  /\ Close
  /\ dpc' = "close"
  /\ UNCHANGED <<fs, opened, omit, todo, node, calm>>

\* Variant: what Close returns is dropped.
DumpReturnUnchecked ==
  /\ At("close")
  /\ dpc' = "returned"
  /\ result' = IF result = "error" THEN result ELSE "ok"
  /\ UNCHANGED <<vars, fs, opened, omit, todo, node, calm>>

DumpReturn ==
  /\ At("close")
  /\ dpc' = "returned"
  /\ result' = IF result = "error" THEN result ELSE outcome
  /\ UNCHANGED <<vars, fs, opened, omit, todo, node, calm>>

\* Others replace, remove or create files, or write to the open one.
Change ==
  /\ dpc # "returned"
  /\ fs' \in FileSystems
  /\ opened' \in IF dpc = "copy" THEN 0 .. MaxSize ELSE {opened}
  /\ calm' = FALSE
  /\ UNCHANGED <<vars, dump>>

Walk ==
  \/ Lstat \/ SendHeader \/ HeaderSent \/ List \/ Open \/ Copy \/ CloseWriter \/ DumpReturn

\* The emitter gives up, but not over what the walk has passed to it: then a
\* write to nw.w has failed.
WriteFailed ==
  /\ epc # "fail" /\ epc' = "fail"
  /\ ~ (First \/ Reject \/ ~ Complete \/ (epc = "return" /\ stack = <<>>))

Emitter ==
  /\ Library
  /\ calm' = (calm /\ ~ WriteFailed)
  /\ UNCHANGED <<fs, opened, dump>>

DumpNext == Walk \/ Emitter \/ Change

DumpSpec == DumpInit /\ [][DumpNext]_dumpVars

\* The walk and the goroutine go on; nobody appends to the open file for ever,
\* because MaxSize bounds it.
DumpFairSpec == DumpSpec /\ WF_dumpVars(Walk) /\ WF_dumpVars(Emitter)
-----------------------------------------------------------------------------
(* Properties. *)

\* The walk comes to p: the filter omits no directory above it.
Met(p) == p \in DOMAIN fs /\ \A i \in 0 .. Len(p) - 1 : SubSeq(p, 1, i) \notin omit

\* The files that the filter leaves.
Kept == {p \in DOMAIN fs : Met(p) /\ p \notin omit}

\* There is no archive of them: without the root there is nothing, and what is
\* neither a file, a directory nor a link is an error, whether omitted or not.
NoArchive == <<>> \in omit \/ \E p \in DOMAIN fs : Met(p) /\ fs[p].type = "other"

\* As long as nobody changes a file and nothing fails, every file that the
\* filter leaves is dumped as it is, once, and no other; an error is returned
\* only when there is no such archive.
CalmDumpIsFiles ==
  (dpc = "returned" /\ calm) =>
    IF NoArchive THEN result = "error"
    ELSE /\ result = "ok"
         /\ {accepted[i] : i \in DOMAIN accepted} = {HeaderOf(p, fs[p]) : p \in Kept}
         /\ \A i, j \in DOMAIN accepted : i # j => accepted[i].path # accepted[j].path

\* DumpPath returns, however the files change and whatever fails.
DumpReturns == <>(dpc = "returned")

\* "make sure the NAR writer is always closed, so the underlying goroutine is
\* stopped": no goroutine is left behind.
GoroutineStopped == dpc = "returned" => epc = "exited"
-----------------------------------------------------------------------------
(* What the theorems suppose of the files. *)

CleanFiles == \A f \in FileSystems : \A p \in DOMAIN f : Proper(p)

\* No name starts with two dots: the Writer refuses some that do.
Plain(p) == \A i \in 1 .. Len(p) : ~ StartsWithDots(p[i])
PlainFiles == \A f \in FileSystems : \A p \in DOMAIN f : Plain(p)

\* A name is its bytes.
FileNames ==
  {n \in Strings : \E f \in FileSystems : \E p \in DOMAIN f : \E i \in DOMAIN p : n = p[i]}
NamesAreBytes == \A m, n \in FileNames : Bytes[m] = Bytes[n] => m = n

\* The path that is dumped is there, and what is above a file is a directory.
FileTrees ==
  \A f \in FileSystems :
    /\ <<>> \in DOMAIN f
    /\ \A p \in DOMAIN f : \A i \in 0 .. Len(p) - 1 :
         SubSeq(p, 1, i) \in DOMAIN f /\ f[SubSeq(p, 1, i)].type = "directory"
=============================================================================

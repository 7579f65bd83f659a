------------------------------ MODULE Session ------------------------------
(***************************************************************************)
(* Fuzzing sessions: the queue of afl-fuzz, the files under queue/ and     *)
(* trees/, and the hooks of src/src/grammar_mutator.c that read and write  *)
(* them, over restarts and failing writes.                                 *)
(*                                                                         *)
(* The trim loop and the custom mutator stage are modules Trimming and     *)
(* Fuzzing; here a trim or a mutation is any of the trees it may produce.  *)
(* afl-fuzz, outside this repository, is modelled as the hooks expect it:  *)
(* it adds the entries it finds, imports some from other instances, takes  *)
(* one entry at a time through trimming, the custom mutator stage and,     *)
(* unless AFL_CUSTOM_MUTATOR_ONLY is set, the havoc stage.  It writes a    *)
(* test case before it calls afl_custom_queue_new_entry, and a trimmed one *)
(* after the last call of afl_custom_post_trim.                            *)
(***************************************************************************)
EXTENDS TreeFiles

CONSTANTS
  Entries,       \* names of queue entries
  Seeds,         \* Seeds[e]: a seed's test case and the tree file copied with it
  Parse,         \* Parse[text]: what tree_from_buf returns; <<>> is NULL
  Trims,         \* Trims[t]: the trees that trimming may cut tree t down to
  Mutants,       \* Mutants[t]: the trees that afl_custom_fuzz may make of tree t
  HavocTexts,    \* what havoc may produce; empty under AFL_CUSTOM_MUTATOR_ONLY
  ImportTexts,   \* test cases of other instances
  MaxSize,       \* max_size passed to afl_custom_fuzz
  MaxFaults,     \* bound: failing calls and crashes
  NoEntry, NoText

(* t is a tree of the test case: it unparses to it, or it is what the      *)
(* parser makes of it (which may lose text after an error).                *)
IsTreeOf(t, text) == TextOf(t) = text \/ t = Parse[text]

(* The test case that afl_custom_fuzz returns is cut to max_size.          *)
Cut(text) == IF Len(text) <= MaxSize THEN text ELSE SubSeq(text, 1, MaxSize)

ASSUME TreesAssumption ==
  \A t \in DOMAIN Mutants : /\ t \in Seq(TreeNode) /\ WholeTree(t)
                            /\ Trims[t] \cup Mutants[t] \subseteq DOMAIN Mutants

ASSUME ParseAssumption ==
  \A text \in DOMAIN Parse : Parse[text] \in DOMAIN Mutants \cup {<<>>}

(* Whatever becomes a test case can be given to the parser.                *)
ASSUME TextsAssumption ==
  /\ HavocTexts \cup ImportTexts \subseteq DOMAIN Parse
  /\ \A t \in DOMAIN Mutants : {TextOf(t), Cut(TextOf(t))} \subseteq DOMAIN Parse
  /\ NoText \notin DOMAIN Parse /\ NoEntry \notin Entries /\ MaxFaults \in Nat

(* A tree file that is copied with a seed is one of an earlier session's.  *)
ASSUME SeedsAssumption ==
  \A e \in DOMAIN Seeds :
    /\ e \in Entries /\ Seeds[e].text \in DOMAIN Parse
    /\ Seeds[e].tree \in DOMAIN Mutants \cup {<<>>}
    /\ Seeds[e].tree # <<>> => IsTreeOf(Seeds[e].tree, Seeds[e].text)

VARIABLES
  queue_file,          \* the test case of each entry, or NoText
  tree_file,           \* its tree file; no file and an empty file are <<>>
  tree_cur, tree_fn_cur, mutated_tree, trim_was_effective,  \* fields of data
  chunks,              \* the trees handed to the chunk store
  queue,               \* the entries afl-fuzz has added in this session
  started,             \* the seeds have been moved from the input folder to queue/
  pc, cur, new, back,  \* where afl-fuzz is, its entry, its find, the find's stage
  faults,
  written,             \* history: the tree each tree file was last opened for
  excused              \* history: entries hit by one of the known causes below

diskVars == <<queue_file, tree_file, written>>
dataVars == <<tree_cur, tree_fn_cur, mutated_tree, trim_was_effective, chunks>>
aflVars == <<queue, started, pc, cur, new, back>>
vars == <<diskVars, dataVars, aflVars, faults, excused>>

Existing == {e \in Entries : queue_file[e] # NoText}

Init ==
  /\ queue_file = [e \in Entries |-> IF e \in DOMAIN Seeds THEN Seeds[e].text ELSE NoText]
  /\ written = [e \in Entries |-> IF e \in DOMAIN Seeds THEN Seeds[e].tree ELSE <<>>]
  /\ tree_file = [e \in Entries |-> Serialize(written[e])]
  /\ tree_cur = <<>> /\ tree_fn_cur = NoEntry /\ mutated_tree = <<>>
  /\ trim_was_effective = FALSE /\ chunks = {}
  /\ queue = {} /\ started = FALSE
  /\ pc = "idle" /\ cur = NoEntry /\ new = NoEntry /\ back = "idle"
  /\ faults = 0 /\ excused = {}

-----------------------------------------------------------------------------
(* write_tree_to_file: O_TRUNC, then one write that may be short; nothing  *)
(* of this is reported to the caller.                                      *)
Fault == faults < MaxFaults /\ faults' = faults + 1

WriteWhole(e, t) ==
  /\ tree_file' = [tree_file EXCEPT ![e] = Serialize(t)]
  /\ written' = [written EXCEPT ![e] = t]
  /\ UNCHANGED faults

WriteShort(e, t) ==
  /\ Fault
  /\ \E k \in 0..(Len(Serialize(t)) - 1) :
       tree_file' = [tree_file EXCEPT ![e] = SubSeq(Serialize(t), 1, k)]
  /\ written' = [written EXCEPT ![e] = t]

OpenFails == Fault /\ UNCHANGED <<tree_file, written>>

WriteTree(e, t) == WriteWhole(e, t) \/ WriteShort(e, t) \/ OpenFails
NoWrite == UNCHANGED <<tree_file, written, faults>>

(* read_tree_from_file, then load_tree_from_test_case.                     *)
(* Mutant: a test case whose tree file cannot be read is not parsed.       *)
LoadedUnlessPartial(e, named) ==
  IF ~named \/ tree_file[e] = <<>> THEN Parse[queue_file[e]] ELSE Deserialize(tree_file[e])

Loaded(e, named) ==
  IF named /\ Deserialize(tree_file[e]) # <<>> THEN Deserialize(tree_file[e])
                                               ELSE Parse[queue_file[e]]

(* afl_custom_queue_get.  Entries in the input folder have no tree file    *)
(* name; elsewhere the folder for the trees may fail to be created.        *)
LoadFails(e) ==
  /\ Fault
  /\ tree_cur' = <<>>
  /\ excused' = excused \cup {e}
  /\ UNCHANGED <<chunks, tree_file, written>>

LoadTree(e, named) ==
  LET t == Loaded(e, named)
      parsed == named /\ Deserialize(tree_file[e]) = <<>> /\ t # <<>>
  IN  /\ tree_cur' = t
      /\ chunks' = IF t = <<>> THEN chunks ELSE chunks \cup {t}
      /\ IF parsed
         THEN WriteTree(e, t) /\ excused' = excused \ {e}
         ELSE NoWrite /\ UNCHANGED excused

QueueGet(e, named) ==
  /\ tree_fn_cur' = IF named THEN e ELSE NoEntry
  /\ LoadTree(e, named) \/ (named /\ LoadFails(e))

(* "!filename_orig_queue || !data->mutated_tree".  Mutants: each half.     *)
LoadsNewEntryAlways(orig) == TRUE
LoadsNewEntryOnlyNull(orig) == mutated_tree = <<>>
LoadsNewEntry(orig) == orig = NoEntry \/ mutated_tree = <<>>

(* What afl_custom_fuzz gave afl-fuzz with mutated_tree.                   *)
OutBuf == Cut(TextOf(mutated_tree))

(* afl_custom_queue_new_entry for entry e, found while orig was fuzzed.    *)
(* Causes: the mutant is not what the find came from, or was cut.          *)
QueueNewEntry(e, orig) ==
  IF LoadsNewEntry(orig)
  THEN QueueGet(e, started) /\ UNCHANGED mutated_tree
  ELSE /\ WriteTree(e, mutated_tree)
       /\ chunks' = chunks \cup {mutated_tree}
       /\ mutated_tree' = <<>>
       /\ excused' = IF pc = "find" /\ (back = "havoc" \/ OutBuf # TextOf(mutated_tree))
                     THEN excused \cup {e} ELSE excused
       /\ UNCHANGED <<tree_cur, tree_fn_cur>>

-----------------------------------------------------------------------------
(* afl-fuzz adds the entries it finds at the start of a session, and the   *)
(* ones it has imported.                                                   *)
AddEntry(e) ==
  /\ pc = "idle" /\ e \in Existing \ queue
  /\ QueueNewEntry(e, NoEntry)
  /\ queue' = queue \cup {e}
  /\ UNCHANGED <<queue_file, trim_was_effective, started, pc, cur, new, back>>

Start ==
  /\ pc = "idle" /\ ~started /\ queue = Existing
  /\ started' = TRUE
  /\ UNCHANGED <<diskVars, dataVars, queue, pc, cur, new, back, faults, excused>>

Import(e, text) ==
  /\ pc = "idle" /\ started /\ queue = Existing /\ e \notin Existing
  /\ queue_file' = [queue_file EXCEPT ![e] = text]
  /\ UNCHANGED <<tree_file, written, dataVars, aflVars, faults, excused>>

(* fuzz_one takes entry e: afl_custom_queue_get, which skips the entry if  *)
(* there is no tree, and afl_custom_init_trim.                             *)
FuzzOne(e) ==
  /\ pc = "idle" /\ started /\ queue = Existing /\ e \in queue
  /\ QueueGet(e, TRUE)
  /\ trim_was_effective' = FALSE
  /\ cur' = e
  /\ pc' = IF tree_cur' = <<>> THEN "idle" ELSE "trim"
  /\ UNCHANGED <<queue_file, mutated_tree, queue, started, new, back>>

(* A trim that the target accepts, as far as afl_custom_post_trim goes     *)
(* before its last stage is over.                                          *)
PostTrim ==
  /\ pc = "trim"
  /\ tree_cur' \in Trims[tree_cur]
  /\ trim_was_effective' = TRUE
  /\ UNCHANGED <<diskVars, tree_fn_cur, mutated_tree, chunks, aflVars, faults, excused>>

(* The last call of afl_custom_post_trim saves what became of the tree.    *)
(* Cause: the file cannot be opened and keeps the tree it had.             *)
EndTrim ==
  /\ pc = "trim"
  /\ IF trim_was_effective
     THEN /\ chunks' = chunks \cup {tree_cur}
          /\ \/ /\ WriteWhole(tree_fn_cur, tree_cur) \/ WriteShort(tree_fn_cur, tree_cur)
                /\ excused' = excused \ {cur}
             \/ OpenFails /\ excused' = excused \cup {cur}
          /\ pc' = "write"
     ELSE NoWrite /\ UNCHANGED <<chunks, excused>> /\ pc' = "fuzz"
  /\ UNCHANGED <<queue_file, tree_cur, tree_fn_cur, mutated_tree, trim_was_effective,
                 queue, started, cur, new, back>>

WriteTestCase ==
  /\ pc = "write"
  /\ queue_file' = [queue_file EXCEPT ![cur] = TextOf(tree_cur)]
  /\ pc' = "fuzz"
  /\ UNCHANGED <<tree_file, written, dataVars, queue, started, cur, new, back, faults, excused>>

-----------------------------------------------------------------------------
(* afl_custom_fuzz.  The tree is not cut.                                  *)
Fuzz ==
  /\ pc = "fuzz"
  /\ mutated_tree' \in Mutants[tree_cur]
  /\ pc' = IF TextOf(mutated_tree') = <<>> THEN "fuzz" ELSE "target"
  /\ UNCHANGED <<diskVars, tree_cur, tree_fn_cur, trim_was_effective, chunks, queue,
                 started, cur, new, back, faults, excused>>

(* afl-fuzz keeps a test case that reached something new.                  *)
Keep(e, text, stage) ==
  /\ e \notin Existing
  /\ queue_file' = [queue_file EXCEPT ![e] = text]
  /\ new' = e /\ back' = stage /\ pc' = "find"
  /\ UNCHANGED <<tree_file, written, dataVars, queue, started, cur, faults, excused>>

FuzzFind(e) == pc = "target" /\ Keep(e, OutBuf, "fuzz")
HavocFind(e) == pc = "havoc" /\ \E text \in HavocTexts : Keep(e, text, "havoc")

NewEntry ==
  /\ pc = "find"
  /\ QueueNewEntry(new, cur)
  /\ queue' = queue \cup {new}
  /\ pc' = back
  /\ UNCHANGED <<queue_file, trim_was_effective, started, cur, new, back>>

(* The target found nothing; the custom mutator stage, or the entry, ends. *)
MoveOn ==
  /\ \/ pc = "target" /\ pc' = "fuzz"
     \/ pc = "fuzz" /\ pc' = IF HavocTexts = {} THEN "idle" ELSE "havoc"
     \/ pc = "havoc" /\ pc' = "idle"
  /\ UNCHANGED <<diskVars, dataVars, queue, started, cur, new, back, faults, excused>>

(* afl-fuzz is run again on the same folder, when it has come to an end.   *)
RunAgain ==
  /\ tree_cur' = <<>> /\ tree_fn_cur' = NoEntry /\ mutated_tree' = <<>>
  /\ trim_was_effective' = FALSE /\ chunks' = {}
  /\ queue' = {} /\ pc' = "idle" /\ cur' = NoEntry /\ new' = NoEntry /\ back' = "idle"
  /\ UNCHANGED <<diskVars, started>>

(* It was killed, or stopped.                                              *)
(* Cause: the trimmed tree was saved and the trimmed test case was not.    *)
Restart ==
  /\ Fault
  /\ RunAgain
  /\ excused' = IF pc = "write" THEN excused \cup {cur} ELSE excused

(* It died when AddEntry or FuzzOne was to read the tree file of e.        *)
ReadFault(e) ==
  /\ pc = "idle" /\ started /\ e \in Existing
  /\ e \notin queue \/ queue = Existing
  /\ MayFault(tree_file[e])
  /\ RunAgain
  /\ UNCHANGED <<faults, excused>>

Next ==
  \/ \E e \in Entries : AddEntry(e) \/ FuzzOne(e) \/ FuzzFind(e) \/ HavocFind(e)
  \/ \E e \in Entries, text \in ImportTexts : Import(e, text)
  \/ Start \/ PostTrim \/ EndTrim \/ WriteTestCase \/ Fuzz \/ NewEntry \/ MoveOn \/ Restart
  \/ \E e \in Entries : ReadFault(e)

Spec == Init /\ [][Next]_vars

-----------------------------------------------------------------------------
(* Between post_trim and the writing of the test case the tree is ahead.   *)
Settled(e) == ~(pc = "write" /\ e = cur)

TypeOK ==
  /\ Existing \subseteq Entries /\ queue \subseteq Existing /\ excused \subseteq Existing
  /\ {tree_cur, mutated_tree} \cup chunks \subseteq DOMAIN Mutants \cup {<<>>}
  /\ tree_fn_cur \in Entries \cup {NoEntry} /\ trim_was_effective \in BOOLEAN
  /\ pc \in {"idle", "trim", "write", "fuzz", "target", "find", "havoc"}
  /\ {cur, new} \subseteq Existing \cup {NoEntry} /\ back \in {"idle", "fuzz", "havoc"}
  /\ started \in BOOLEAN /\ faults \in 0..MaxFaults

(* Whatever a short write or a crash leaves in a tree file, at whichever   *)
(* cell it ends: tree_deserialize accepts nothing but the tree that was to *)
(* be written.  It rejects the rest, or faults; and it can fault at a file *)
(* only if the file was cut in a node's value, never at one written whole. *)
PartialFilesNotAccepted ==
  \A e \in Entries :
    /\ Deserialize(tree_file[e]) \in {<<>>, written[e]}
    /\ MayFault(tree_file[e]) => CutInAValue(tree_file[e], written[e])

(* A readable tree file is of the entry's test case, over restarts, failed *)
(* writes and imports, but for four causes: a mutant cut to max_size, a    *)
(* find of the havoc stage, a restart between the writes of a trimmed tree *)
(* and its test case, and a tree file that cannot be opened any more.      *)
(* Trimming an entry, and parsing it anew, puts an end to each.            *)
TreeFilesMatch ==
  \A e \in Existing \ excused :
    Settled(e) /\ Deserialize(tree_file[e]) # <<>>
      => IsTreeOf(Deserialize(tree_file[e]), queue_file[e])

(* While an entry is trimmed and fuzzed tree_fn_cur is its tree file, which *)
(* post_trim overwrites, and tree_cur a tree of its test case, though      *)
(* queue_new_entry, called in between, may load other entries.             *)
WorkingTreeIsTheEntrys ==
  /\ pc \in {"trim", "write", "fuzz", "target"} => tree_fn_cur = cur
  /\ pc \in {"fuzz", "target"} /\ cur \notin excused => IsTreeOf(tree_cur, queue_file[cur])

(* Every entry of the queue that parses has been handed to the chunk store *)
(* in this session (the reason why queue_new_entry calls queue_get), but   *)
(* for those hit by one of the four causes: what the store has of them is  *)
(* then a tree of another test case.                                       *)
EveryEntryCanBeSpliced ==
  \A e \in queue \ excused :
    Settled(e) /\ Parse[queue_file[e]] # <<>>
      => \E t \in chunks : IsTreeOf(t, queue_file[e])

(* queue_get says it reads "the corresponding serialized tree": a readable *)
(* tree file unparses to the test case, or is what the parser makes of it. *)
TreeFilesCorrespond ==
  \A e \in queue :
    Settled(e) /\ Deserialize(tree_file[e]) # <<>>
      => IsTreeOf(Deserialize(tree_file[e]), queue_file[e])
=============================================================================

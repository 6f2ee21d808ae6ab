---------------------------- MODULE StateManager ----------------------------
(***************************************************************************)
(* simple_state_mgr beside its log store: the term and vote in state.json, *)
(* the members in config.json, the log in memory.  A state or config is    *)
(* abstracted to its version, the number of times NuRaft had changed it;   *)
(* ctx tells whether a config has a user_ctx.                              *)
(*                                                                         *)
(* NuRaft (external) saves and writes the log under one lock, and acts on  *)
(* what it saved as soon as the call returns.                              *)
(***************************************************************************)
EXTENDS LogStore

CONSTANT MaxVersion    \* bound on the versions of each file

ASSUME MaxVersionAssumption == MaxVersion \in Nat

Files == {"state", "config"}
Value == [ver : 0..MaxVersion, ctx : BOOLEAN]

\* A new srv_state, and a config with this server alone.
Fresh == [ver |-> 0, ctx |-> FALSE]

CONSTANTS Absent, Torn \* no file, and one that is empty or cut short

VARIABLES file,        \* what is on disk
          mem,         \* what the raft server has
          saving,      \* the files whose save has opened them, not written them
          promised     \* history: the last version NuRaft was let act on
                       \* by a save that could open the file

fileVars == <<file, mem, saving, promised>>

InitAll ==
  /\ Init
  /\ file = [f \in Files |-> Absent]
  /\ mem = [f \in Files |-> Fresh]
  /\ saving = {}
  /\ promised = [f \in Files |-> 0]

\* save_config and save_state: the new version is there in memory; the file is
\* truncated when it is opened, and if it does not open nothing is said.
Save(f, ctx) ==
  /\ up /\ ~applying.on /\ saving = {} /\ mem[f].ver < MaxVersion
  /\ ctx => f = "config"
  /\ mem' = [mem EXCEPT ![f] = [ver |-> @.ver + 1, ctx |-> ctx]]
  /\ \/ file' = [file EXCEPT ![f] = Torn] /\ saving' = {f}
     \/ UNCHANGED <<file, saving>>
  /\ UNCHANGED <<vars, promised>>

\* The stream is written and closed, in full or (silently) cut short.
Written(f) ==
  /\ up /\ f \in saving
  /\ \/ file' = [file EXCEPT ![f] = mem[f]]
     \/ UNCHANGED file
  /\ saving' = {}
  /\ promised' = [promised EXCEPT ![f] = mem[f].ver]
  /\ UNCHANGED <<vars, mem>>

\* MUTANT: a file that cannot be parsed counts as none.
loadableLenient(f) == TRUE

\* jsonObjectFromFile: istrm >> json_object throws on a file cut short.
loadable(f) == file[f] # Torn

\* read_state and load_config: no file gives the initial value, and user_ctx
\* is written to config.json but not read from it.
load(f) == IF file[f] \in Value THEN [file[f] EXCEPT !.ctx = FALSE] ELSE Fresh

\* The server starts again: a new log store, and what the files say; when one
\* cannot be read the exception ends the start.
Restart ==
  /\ ~up
  /\ \/ /\ \A f \in Files : loadable(f)
        /\ load_log_store
        /\ mem' = [f \in Files |-> load(f)]
        /\ saving' = {}
        /\ UNCHANGED <<file, promised>>
     \/ /\ \E f \in Files : ~loadable(f)
        /\ UNCHANGED <<vars, fileVars>>

NextAll ==
  \/ /\ \/ saving = {} /\ Writer
        \/ \E r \in Readers : Reader(r)
        \/ Die
     /\ UNCHANGED fileVars
  \/ \E f \in Files, ctx \in BOOLEAN : Save(f, ctx)
  \/ \E f \in Files : Written(f)
  \/ Restart

SpecAll == InitAll /\ [][NextAll]_<<vars, fileVars>>

-----------------------------------------------------------------------------
(* Properties.                                                             *)

\* A server that is up has no older term, vote or members than the last save
\* that opened its file let NuRaft act on (answer a vote request, say), also
\* when the process died between the truncation and the write, or the write
\* was cut short: such a file keeps the server from starting.
SavesNotForgotten ==
  up => \A f \in Files : mem[f].ver >= promised[f]
=============================================================================

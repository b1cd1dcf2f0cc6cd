--------------------------- MODULE TemplateCatalog ---------------------------
(***************************************************************************)
(* The template catalog of ferrobox-template: one JSON record per alias,   *)
(* written by `ferrobox template build`, removed by `template delete` and  *)
(* read by the node, which resolves a template reference for every create. *)
(* Each is a process of its own and nothing locks the store; between two   *)
(* calls on the file system the others run.  A writer's scan of the        *)
(* records is one step: the store has a single-writer contract.            *)
(***************************************************************************)
EXTENDS Naturals, FiniteSets

CONSTANTS Writers,  \* CLI processes
          Nodes,    \* resolutions in flight in the node
          Ids,      \* content-derived template ids
          Names,    \* other names an alias may have
          None

(***************************************************************************)
(* validate_alias admits every id as an alias: both are short words of     *)
(* letters, digits and hyphens.                                            *)
(***************************************************************************)
Aliases == Ids \cup Names

ASSUME CatalogAssumption ==
    /\ Ids \cap Names = {}
    /\ None \notin Aliases
    /\ Writers \cap Nodes = {}

VARIABLES
    record,    \* records/<alias>.json: the template it describes
    artifacts, \* templates whose kernel and rootfs have the recorded digests
    pc,
    ref,       \* the reference or alias a process works on
    chosen,    \* the template it builds, or has resolved
    listed     \* files a reader has listed and not loaded yet

catalogVars == <<record, artifacts, pc, ref, chosen, listed>>

Processes == Writers \cup Nodes
CatalogInit ==
    /\ record = [a \in Aliases |-> None]
    /\ artifacts = Ids
    /\ pc = [p \in Processes |-> "idle"]
    /\ ref = [p \in Processes |-> None]
    /\ chosen = [p \in Processes |-> None]
    /\ listed = [p \in Processes |-> {}]
-----------------------------------------------------------------------------
Goto(p, label, r, i) ==
    /\ pc' = [pc EXCEPT ![p] = label]
    /\ ref' = [ref EXCEPT ![p] = r]
    /\ chosen' = [chosen EXCEPT ![p] = i]

Stop(p) == Goto(p, "idle", None, None)

Present == {a \in Aliases : record[a] # None}

\* The alias is taken, or the identity has another one.
Conflict(a, i) == record[a] # None \/ \E b \in Present : record[b] = i

(***************************************************************************)
(* build: a conflict, or a record that is the same already, ends it;       *)
(* otherwise a temporary file is written, synced and linked to its name.   *)
(***************************************************************************)
Build(w, a, i) ==
    /\ pc[w] = "idle"
    /\ ~Conflict(a, i)
    /\ Goto(w, "temporary", a, i)
    /\ UNCHANGED <<record, artifacts, listed>>

\* The temporary file has no .json extension: no reader looks at it.
WriteTemporary(w) ==
    /\ pc[w] = "temporary"
    /\ Goto(w, "link", ref[w], chosen[w])
    /\ UNCHANGED <<record, artifacts, listed>>

\* Mutant of Persist: a rename, which replaces the file that is there.
PersistClobbers(w) ==
    /\ pc[w] = "link"
    /\ record' = [record EXCEPT ![ref[w]] = chosen[w]]
    /\ Stop(w)
    /\ UNCHANGED <<artifacts, listed>>

\* persist_noclobber: AliasConflict when the name was taken meanwhile.
Persist(w) ==
    /\ pc[w] = "link"
    /\ record' = IF record[ref[w]] = None
                 THEN [record EXCEPT ![ref[w]] = chosen[w]] ELSE record
    /\ Stop(w)
    /\ UNCHANGED <<artifacts, listed>>

\* delete: the file resolve names, as an alias first and as an id then.
Matches(r) == IF r \in Present THEN {r} ELSE {a \in Present : record[a] = r}

Delete(w, r) ==
    /\ pc[w] = "idle"
    /\ \E a \in Matches(r) : Goto(w, "remove", a, None)
    /\ UNCHANGED <<record, artifacts, listed>>

RemoveFile(w) ==
    /\ pc[w] = "remove"
    /\ record' = [record EXCEPT ![ref[w]] = None]
    /\ Stop(w)
    /\ UNCHANGED <<artifacts, listed>>

\* A CLI process is killed; its temporary file stays and is ignored.
Killed(w) ==
    /\ pc[w] # "idle"
    /\ Stop(w)
    /\ UNCHANGED <<record, artifacts, listed>>

\* The operator replaces, or puts back, the artifacts of a template.
Replace(i) ==
    /\ artifacts' \in {artifacts \cup {i}, artifacts \ {i}} \ {artifacts}
    /\ UNCHANGED <<record, pc, ref, chosen, listed>>
-----------------------------------------------------------------------------
(***************************************************************************)
(* The node resolves reference r: its own file if there is one, else every *)
(* file of the directory is listed and loaded.  A file that vanished in    *)
(* between is an I/O error, which ends the request (Stop).                 *)
(***************************************************************************)
Resolve(n, r) ==
    /\ pc[n] = "idle"
    /\ \/ /\ r \in Present
          /\ Goto(n, "open", r, None)
          /\ UNCHANGED listed
       \/ /\ r \notin Present
          /\ Goto(n, "load", r, None)
          /\ listed' = [listed EXCEPT ![n] = Present]
    /\ UNCHANGED <<record, artifacts>>

Open(n) ==
    /\ pc[n] = "open"
    /\ IF ref[n] \in Present THEN Goto(n, "check", ref[n], record[ref[n]]) ELSE Stop(n)
    /\ UNCHANGED <<record, artifacts, listed>>

Load(n) ==
    /\ pc[n] = "load"
    /\ \E a \in listed[n] :
        \/ /\ a \in Present
           /\ Goto(n, "load", ref[n], IF record[a] = ref[n] THEN ref[n] ELSE chosen[n])
           /\ listed' = [listed EXCEPT ![n] = @ \ {a}]
        \/ /\ a \notin Present
           /\ Stop(n)
           /\ listed' = [listed EXCEPT ![n] = {}]
    /\ UNCHANGED <<record, artifacts>>

\* Everything is loaded: the record with that id, or NotFound.
Loaded(n) ==
    /\ pc[n] = "load"
    /\ listed[n] = {}
    /\ IF chosen[n] # None THEN Goto(n, "check", ref[n], chosen[n]) ELSE Stop(n)
    /\ UNCHANGED <<record, artifacts, listed>>

\* Mutant of CheckId: no check.
CheckNothing(n) ==
    /\ pc[n] = "check"
    /\ Goto(n, "verify", ref[n], chosen[n])
    /\ UNCHANGED <<record, artifacts, listed>>

\* A `tpl-` reference must have resolved to the template of that id.
CheckId(n) ==
    /\ pc[n] = "check"
    /\ IF ref[n] \in Ids /\ chosen[n] # ref[n] THEN Stop(n)
       ELSE Goto(n, "verify", ref[n], chosen[n])
    /\ UNCHANGED <<record, artifacts, listed>>

\* Platform and kernel are the node's own; both files are hashed.
Verify(n) ==
    /\ pc[n] = "verify"
    /\ IF chosen[n] \in artifacts THEN Goto(n, "selected", ref[n], chosen[n]) ELSE Stop(n)
    /\ UNCHANGED <<record, artifacts, listed>>

Launch(n) ==
    /\ pc[n] = "selected"
    /\ Stop(n)
    /\ UNCHANGED <<record, artifacts, listed>>
-----------------------------------------------------------------------------
WriterStep(w) ==
    \/ \E a \in Aliases, i \in Ids : Build(w, a, i)
    \/ \E r \in Aliases : Delete(w, r)
    \/ WriteTemporary(w) \/ Persist(w) \/ RemoveFile(w) \/ Killed(w)

NodeStep(n) ==
    \/ \E r \in Aliases : Resolve(n, r)
    \/ Open(n) \/ Load(n) \/ Loaded(n) \/ CheckId(n) \/ Verify(n) \/ Launch(n)

CatalogNext ==
    \/ \E w \in Writers : WriterStep(w)
    \/ \E n \in Nodes : NodeStep(n)
    \/ \E i \in Ids : Replace(i)

CatalogSpec == CatalogInit /\ [][CatalogNext]_catalogVars
-----------------------------------------------------------------------------
(***************************************************************************)
(* An alias is never rebound in place, even where two writers break the    *)
(* contract: it names nothing before it names something else.              *)
(***************************************************************************)
AliasNeverRebound ==
    [][\A a \in Aliases : record[a] # None /\ record'[a] # None
            => record'[a] = record[a]]_catalogVars

(***************************************************************************)
(* Who asks the node for a template by id gets that template or an error,  *)
(* even if somebody has made the id an alias of another template.          *)
(***************************************************************************)
IdSelectsItself ==
    \A n \in Nodes : pc[n] = "selected" /\ ref[n] \in Ids => chosen[n] = ref[n]
-----------------------------------------------------------------------------
(***************************************************************************)
(* Why these hold, as an inductive invariant.                              *)
(***************************************************************************)
WriterLabels == {"idle", "temporary", "link", "remove"}
NodeLabels == {"idle", "open", "load", "check", "verify", "selected"}

CatalogTypeOK ==
    /\ record \in [Aliases -> Ids \cup {None}]
    /\ artifacts \in SUBSET Ids
    /\ pc \in [Processes -> WriterLabels \cup NodeLabels]
    /\ ref \in [Processes -> Aliases \cup {None}]
    /\ chosen \in [Processes -> Ids \cup {None}]
    /\ listed \in [Processes -> SUBSET Aliases]

\* WriterInv: a writer knows the file it will link or remove.
WriterInv ==
    \A w \in Writers :
        /\ pc[w] \in WriterLabels
        /\ pc[w] # "idle" => ref[w] \in Aliases
        /\ pc[w] \in {"temporary", "link"} => chosen[w] \in Ids

\* NodeInv: what was found by id, or has passed the check, is of that id.
NodeInv ==
    \A n \in Nodes :
        /\ pc[n] \in NodeLabels
        /\ pc[n] # "idle" => ref[n] \in Aliases
        /\ pc[n] = "load" => chosen[n] \in {None, ref[n]}
        /\ pc[n] \in {"check", "verify", "selected"} => chosen[n] \in Ids
        /\ pc[n] \in {"verify", "selected"} /\ ref[n] \in Ids => chosen[n] = ref[n]

CatalogInv == CatalogTypeOK /\ WriterInv /\ NodeInv
==============================================================================

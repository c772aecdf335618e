---------------------------- MODULE Snapshots ----------------------------
(***************************************************************************)
(* Configuration snapshots (app/service_snapshot.go).  A snapshot is taken *)
(* with one query per table, so edits may come in between; a rollback      *)
(* first takes a snapshot of what is there, then restores every table in   *)
(* one transaction and deletes what the snapshot does not hold.  Users are *)
(* not part of a snapshot.                                                 *)
(***************************************************************************)
EXTENDS RuleEditing

CONSTANT MaxSnaps \* bound: snapshots taken

\* collect: device groups, node groups and nodes first, the rest after.
FirstReads == [groups |-> groups, nodes |-> nodes, labels |-> labels["node"]]
LastReads(first) ==
  [groups |-> first.groups, nodes |-> first.nodes, rules |-> rules,
   labels |-> [labels EXCEPT !["node"] = first.labels]]

CreateSnapshot(e) ==
  /\ issued.snaps < MaxSnaps
  /\ Hold(e, [op |-> "collect", first |-> FirstReads])
  /\ UNCHANGED tables

TakeSnapshot(first) ==
  /\ issued.snaps < MaxSnaps
  /\ snaps' = Put(snaps, NewId("snaps"), LastReads(first))
  /\ issued' = [issued EXCEPT !.snaps = @ + 1]

SaveSnapshot(e) ==
  /\ Holds(e, "collect")
  /\ TakeSnapshot(editor[e].first)
  /\ Release(e)
  /\ UNCHANGED <<rules, groups, nodes, users, labels, done>>

DeleteSnapshot(id) ==
  /\ id \in DOMAIN snaps
  /\ Served
  /\ snaps' = Without(snaps, {id})
  /\ UNCHANGED <<rules, groups, nodes, users, labels, issued, editor>>

\* Rollback: the snapshot is read, then a snapshot of what is there is taken,
\* and only then is anything written.
Rollback(e, id) ==
  /\ id \in DOMAIN snaps
  /\ issued.snaps < MaxSnaps
  /\ Hold(e, [op |-> "before rollback", to |-> snaps[id], first |-> FirstReads])
  /\ UNCHANGED tables

SaveBefore(e) ==
  /\ Holds(e, "before rollback")
  /\ TakeSnapshot(editor[e].first)
  /\ editor' = [editor EXCEPT ![e] =
       [op |-> "restore", to |-> editor[e].to, before |-> NewId("snaps")]]
  /\ UNCHANGED <<rules, groups, nodes, users, labels, ops, raced, done>>

\* Diff: what a rollback to the snapshot would add, overwrite and remove, row by
\* row.  Rules are compared field by field, but for what is not configuration.
ruleFields(table) == [r \in DOMAIN table |-> [table[r] EXCEPT !.status = ""]]
deviceGroupFields(table) == table
nodeFields(table) == table
diffResource(saved, current) ==
  [add |-> DOMAIN saved \ DOMAIN current,
   remove |-> DOMAIN current \ DOMAIN saved,
   update |-> { id \in DOMAIN saved \cap DOMAIN current : saved[id] # current[id] }]
Diff(saved) ==
  [groups |-> diffResource(deviceGroupFields(saved.groups), deviceGroupFields(groups)),
   nodes |-> diffResource(nodeFields(saved.nodes), nodeFields(nodes)),
   rules |-> diffResource(ruleFields(saved.rules), ruleFields(rules)),
   add |-> [kind \in Kinds |-> saved.labels[kind] \ labels[kind]],
   remove |-> [kind \in Kinds |-> labels[kind] \ saved.labels[kind]]]

\* Rows are saved in order of identifier and the surplus deleted afterwards:
\* a name that another row still holds fails the whole transaction.
NamesClash(table, saved) ==
  \E id \in DOMAIN saved : \E o \in DOMAIN table \ {id} :
    /\ table[o].name = saved[id].name
    /\ o \notin DOMAIN saved \/ o > id

\* Mutant: rules the snapshot does not hold stay.
restoreRules_Kept(saved) ==
  [r \in DOMAIN saved |-> Saved(r, [saved[r] EXCEPT !.status = "unsynced"])] @@ rules
restoreRules(saved) ==
  [r \in DOMAIN saved |-> Saved(r, [saved[r] EXCEPT !.status = "unsynced"])]

Restore(e) ==
  LET to == editor[e].to IN
  /\ Holds(e, "restore")
  /\ ~NamesClash(groups, to.groups)
  /\ ~NamesClash(nodes, to.nodes)
  /\ groups' = to.groups
  /\ nodes' = to.nodes
  /\ labels' = to.labels
  /\ rules' = restoreRules(to.rules)
  /\ done' = done \cup {"rollback"}
  /\ Release(e)
  /\ UNCHANGED <<users, snaps, issued>>
===========================================================================

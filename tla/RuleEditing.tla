--------------------------- MODULE RuleEditing ---------------------------
(***************************************************************************)
(* Forwarding rules (app/service_rule.go): create, update, delete, enable, *)
(* batch operations, multipliers and import.  A rule is its name, owner    *)
(* and rule group, the inbound group and port range it listens on (0: a    *)
(* random port), the way out, the chain of hops, the reverse group (0:     *)
(* disabled), its place in an SNI split and whether it is enabled.         *)
(* Targets, limits and options are columns no check relates to another.    *)
(*                                                                         *)
(* Names are sequences: a plain name, 0 appended for "-main", a number for *)
(* a suffix; upper and lower case are one.                                 *)
(***************************************************************************)
EXTENDS Registry

CONSTANTS
  RuleInputs,    \* bodies of rule requests
  Batches,       \* bodies of batch requests
  Imports,       \* imported lists of items
  MaxMultiplier  \* largest multiplier (100)

ASSUME RuleBounds == MaxMultiplier \in Nat \ {0} /\ MaxId \in Nat /\ MaxOps \in Nat

\* The columns of a rule.
SyncStates == {"unsynced", "syncing", "normal", "failed"}
Hops == {c \in SUBSET Nat : IsFiniteSet(c)}
ServerNames == STRING \cup {""} \* "": none
ForwardRule ==
  [name : Seq(Nat), owner : Nat, rgroup : Nat, in : Nat, lo : Nat, hi : Nat, out : Nat,
   mult : Nat, chain : Hops, rev : Nat, sub : BOOLEAN, parent : Nat, sni : ServerNames,
   on : BOOLEAN, status : SyncStates]

RuleNames == {rules[r].name : r \in DOMAIN rules}
RuleNameFree(name, id) == \A r \in DOMAIN rules \ {id} : rules[r].name # name

\* gorm replaces a zero by the column's default when it inserts a row.
Inserted(r) == [r EXCEPT !.on = TRUE, !.mult = IF @ = 0 THEN 1 ELSE @]
\* ... and Save inserts the row if it has gone.
Saved(id, r) == IF id \in DOMAIN rules THEN r ELSE Inserted(r)

rangesOverlap(a, b) == a.lo <= b.hi /\ b.lo <= a.hi
portRangeOf(r) == [lo |-> r.lo, hi |-> IF r.hi > r.lo THEN r.hi ELSE r.lo]
PortConflict(r, id) ==
  r.lo > 0 /\ \E o \in DOMAIN rules \ {id} :
    /\ rules[o].in = r.in /\ rules[o].on /\ rules[o].lo > 0
    /\ rangesOverlap(portRangeOf(r), portRangeOf(rules[o]))

validateReverse(r) ==
  r.rev # 0 =>
    Outbound(r.rev) /\ \A n \in Members(groups[r.rev]) : Carries(nodes[n].role, "outbound")
validateSNI(r) ==
  r.sub \/ r.sni # "" =>
    /\ r.sni # "" /\ FixedPort(r)
    /\ sniAllowed(r.sni, groups[r.in].hosts)
    /\ groups[r.in].split

\* validateRule; `id` is 0 for a rule not yet stored.
validateRule(r, id) ==
  /\ r.in \in DOMAIN groups /\ IsInbound(r.in)
  /\ r.mult \in 0..MaxMultiplier
  /\ ~PortConflict(r, id)
  /\ r.out # 0 => Outbound(r.out)
  /\ ValidateChainRule(r)
  /\ validateReverse(r)
  /\ validateSNI(r)

\* linkSubRule: a sub-rule has a main rule on its port, the one it names, the
\* first one, or one made for it there and then.
MainRules(r, id) ==
  {p \in DOMAIN rules \ {id} : rules[p].in = r.in /\ rules[p].lo = r.lo /\ ~rules[p].sub}
Linkable(r) ==
  r.sub /\ r.parent # 0 =>
    /\ r.parent \in DOMAIN rules /\ ~rules[r.parent].sub
    /\ rules[r.parent].in = r.in /\ rules[r.parent].lo = r.lo
NeedsMain(r, id) == r.sub /\ r.parent = 0 /\ MainRules(r, id) = {}
Linked(r, id) ==
  IF ~r.sub \/ r.parent # 0 THEN r
  ELSE [r EXCEPT !.parent = IF NeedsMain(r, id) THEN NewId("rules") ELSE Min(MainRules(r, id))]
\* The first number that makes the name a new one.
Suffix(name, names) ==
  CHOOSE k \in 2..(2 + Cardinality(names)) :
    Append(name, k) \notin names /\ \A j \in 2..(k - 1) : Append(name, j) \in names
Renamed(name, names) == Append(name, Suffix(name, names))
uniqueRuleName(name) == IF name \notin RuleNames THEN name ELSE Renamed(name, RuleNames)
MainRule(r) ==
  [r EXCEPT !.name = uniqueRuleName(Append(r.name, 0)), !.owner = 0, !.hi = 0, !.out = 0,
            !.mult = 1, !.chain = {}, !.rev = 0, !.sub = FALSE, !.parent = 0, !.sni = "",
            !.on = TRUE, !.status = "unsynced"]

\* The end of a validation: link, and hold the row.
Validated(e, op, id, r) ==
  /\ validateRule(r, id)
  /\ Linkable(r)
  /\ Hold(e, [op |-> op, id |-> id, row |-> Linked(r, id)])
  /\ IF NeedsMain(r, id)
     THEN /\ CanGrow("rules")
          /\ rules' = Put(rules, NewId("rules"), Inserted(MainRule(r)))
          /\ issued' = [issued EXCEPT !.rules = @ + 1]
     ELSE UNCHANGED <<rules, issued>>
  /\ UNCHANGED <<groups, nodes, users, labels, snaps>>

CreateRule(e, in) ==
  /\ CanGrow("rules")
  /\ RuleNameFree(in.name, 0)
  /\ Validated(e, "new rule", 0,
       [in EXCEPT !.on = Given(@, TRUE), !.mult = Given(@, 1), !.chain = Given(@, {})])

\* A parent is stored whether or not the rule is a sub-rule.
SaveNewRule(e) ==
  LET r == editor[e].row IN
  /\ Holds(e, "new rule")
  /\ CanGrow("rules")
  /\ rules' = Put(rules, NewId("rules"), Inserted(r))
  /\ issued' = [issued EXCEPT !.rules = @ + 1]
  /\ done' = IF ~r.sub /\ r.parent # 0 THEN done \cup {"parent"} ELSE done
  /\ Release(e)
  /\ UNCHANGED <<groups, nodes, users, labels, snaps>>

\* A sub-rule stays one, with its parent; a rule can become one.
UpdateRule(e, id, in) ==
  /\ id \in DOMAIN rules
  /\ RuleNameFree(in.name, id)
  /\ LET old == rules[id] IN
     Validated(e, "rule", id,
       [in EXCEPT !.owner = IF @ = 0 THEN old.owner ELSE @,
                  !.chain = Given(@, old.chain), !.mult = Given(@, old.mult),
                  !.on = Given(@, old.on), !.sni = IF @ = "" THEN old.sni ELSE @,
                  !.sub = @ \/ old.sub, !.parent = old.parent])

SaveRule(e) ==
  LET id == editor[e].id
      r  == editor[e].row IN
  /\ Holds(e, "rule")
  /\ rules' = Put(rules, id, Saved(id, [r EXCEPT !.status = "unsynced"]))
  /\ done' = IF r.sub /\ id \in DOMAIN rules /\ ~rules[id].sub THEN done \cup {"main"} ELSE done
  /\ Release(e)
  /\ UNCHANGED <<groups, nodes, users, labels, snaps, issued>>

Children(ids) == {r \in DOMAIN rules : rules[r].parent \in ids}

DeleteRule(e, id) ==
  /\ id \in DOMAIN rules
  /\ Hold(e, [op |-> "drop rule", id |-> id, main |-> ~rules[id].sub])
  /\ UNCHANGED tables
RemoveRule(e) ==
  LET id == editor[e].id IN
  /\ Holds(e, "drop rule")
  /\ rules' = Without(rules, {id} \cup (IF editor[e].main THEN Children({id}) ELSE {}))
  /\ Release(e)
  /\ UNCHANGED <<groups, nodes, users, labels, snaps, issued, done>>

\* SetEnable: no look at the ports; enabling a sub-rule enables its parent.
SetEnable(e, id, on) ==
  /\ id \in DOMAIN rules
  /\ Hold(e, [op |-> "enable", on |-> on,
              ids |-> {id} \cup (IF on /\ rules[id].sub THEN {rules[id].parent} ELSE {})])
  /\ UNCHANGED tables
WriteEnable(e) ==
  /\ Holds(e, "enable")
  /\ rules' = [r \in DOMAIN rules |->
       IF r \in editor[e].ids THEN [rules[r] EXCEPT !.on = editor[e].on, !.status = "unsynced"]
       ELSE rules[r]]
  /\ done' = IF editor[e].on THEN done \cup {"enable"} ELSE done
  /\ Release(e)
  /\ UNCHANGED <<groups, nodes, users, labels, snaps, issued>>

\* Batch: the parameters are checked before, the rows read and written in one
\* transaction; rows that do not exist are passed over.
validateBatchParams(b) ==
  CASE b.act = "out"    -> b.out # 0 => Outbound(b.out)
    [] b.act = "rgroup" -> b.rgroup # 0 => b.rgroup \in labels["rule"]
    [] b.act = "chain"  -> Cardinality(b.chain) \in {0, 2, 3}
    [] b.act = "mult"   -> b.mult \in 0..MaxMultiplier
    [] b.act = "scale"  -> \A r \in b.ids \cap DOMAIN rules : rules[r].mult * b.mult <= MaxMultiplier
    [] OTHER            -> TRUE
Batch(e, b) ==
  /\ validateBatchParams(b)
  /\ Hold(e, [op |-> "batch", b |-> b])
  /\ UNCHANGED tables

Changed(b, r) ==
  CASE b.act = "enable"  -> [r EXCEPT !.on = TRUE, !.status = "unsynced"]
    [] b.act = "disable" -> [r EXCEPT !.on = FALSE, !.status = "unsynced"]
    [] b.act = "out"     -> [r EXCEPT !.out = b.out, !.status = "unsynced"]
    [] b.act = "rgroup"  -> [r EXCEPT !.rgroup = b.rgroup]
    [] b.act = "chain"   -> [r EXCEPT !.chain = b.chain, !.status = "unsynced"]
    [] b.act = "mult"    -> [r EXCEPT !.mult = b.mult, !.status = "unsynced"]
    [] b.act = "scale"   -> [r EXCEPT !.mult = @ * b.mult, !.status = "unsynced"]
    [] b.act = "limits"  -> [r EXCEPT !.status = "unsynced"]
RunBatch(e) ==
  LET b   == editor[e].b
      ids == b.ids \cap DOMAIN rules IN
  /\ Holds(e, "batch")
  /\ b.act = "chain" => \A r \in ids : ValidateChainRule([rules[r] EXCEPT !.chain = b.chain])
  /\ rules' = IF b.act = "delete"
              THEN Without(rules, ids \cup Children({r \in ids : ~rules[r].sub}))
              ELSE [r \in DOMAIN rules |-> IF r \in ids THEN Changed(b, rules[r]) ELSE rules[r]]
  /\ done' = done \cup (({b.act} \cap {"enable", "out"}))
  /\ Release(e)
  /\ UNCHANGED <<groups, nodes, users, labels, snaps, issued>>

\* BatchMultiplier reads all rules before the transaction and writes what it
\* then computed.
BatchMultiplier(e, scale) ==
  /\ \A r \in DOMAIN rules : rules[r].mult * scale <= MaxMultiplier
  /\ Hold(e, [op |-> "scaled", mult |-> [r \in DOMAIN rules |-> rules[r].mult * scale]])
  /\ UNCHANGED tables
WriteScaled(e) ==
  LET mult == editor[e].mult IN
  /\ Holds(e, "scaled")
  /\ rules' = [r \in DOMAIN rules |->
       IF r \notin DOMAIN mult THEN rules[r]
       ELSE [rules[r] EXCEPT !.mult = mult[r], !.status = "unsynced"]]
  /\ Release(e)
  /\ UNCHANGED <<groups, nodes, users, labels, snaps, issued, done>>

\* Import: names and first ports already in use are read once; an item with a
\* name in use is left out or renamed, one with a port in use left out.  Way
\* out, owner and the rest of a port range are not looked at.
importItemInvalid(it) ==
  \/ it.in \notin DOMAIN groups \/ ~IsInbound(it.in)
  \/ it.hi > 0 /\ it.hi < it.lo
  \/ it.mult \notin 0..MaxMultiplier
importContext ==
  [names |-> RuleNames, given |-> {}, rows |-> <<>>,
   ports |-> {<<rules[r].in, rules[r].lo>> : r \in {x \in DOMAIN rules : rules[x].on /\ rules[x].lo > 0}}]
\* A number tried for an item that is then left out is not tried again.
ImportItem(acc, it, rename) ==
  LET name == IF it.name \in acc.names THEN Renamed(it.name, acc.names \cup acc.given) ELSE it.name IN
  IF importItemInvalid(it) \/ (it.name \in acc.names /\ ~rename) THEN acc
  ELSE IF it.lo > 0 /\ <<it.in, it.lo>> \in acc.ports
  THEN [names |-> acc.names, given |-> acc.given \cup {name}, ports |-> acc.ports, rows |-> acc.rows]
  ELSE [names |-> acc.names \cup {name}, given |-> acc.given,
        ports |-> IF it.lo > 0 THEN acc.ports \cup {<<it.in, it.lo>>} ELSE acc.ports,
        rows  |-> Append(acc.rows, [it EXCEPT !.name = name])]
ImportItems(items, rename) ==
  LET read[i \in 0..Len(items)] ==
        IF i = 0 THEN importContext ELSE ImportItem(read[i - 1], items[i], rename)
  IN  read
Import(items, rename) == ImportItems(items, rename)[Len(items)].rows

ImportRules(e, items, rename) ==
  /\ issued.rules + Len(Import(items, rename)) <= MaxId
  /\ Import(items, rename) # <<>>
  /\ Hold(e, [op |-> "import", rows |-> Import(items, rename)])
  /\ UNCHANGED tables
\* One transaction.
WriteImported(e) ==
  LET rows == editor[e].rows
      new  == (issued.rules + 1)..(issued.rules + Len(rows)) IN
  /\ Holds(e, "import")
  /\ issued.rules + Len(rows) <= MaxId
  /\ rules' = [r \in DOMAIN rules \cup new |->
                IF r \in new THEN Inserted(rows[r - issued.rules]) ELSE rules[r]]
  /\ issued' = [issued EXCEPT !.rules = @ + Len(rows)]
  /\ done' = done \cup {"import"}
  /\ Release(e)
  /\ UNCHANGED <<groups, nodes, users, labels, snaps>>
===========================================================================

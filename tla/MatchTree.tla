------------------------------ MODULE MatchTree ------------------------------
(***************************************************************************)
(* Decision trees: how mir_lower turns a `match` the type checker accepted *)
(* (or an `is`) into blocks that test one place at a time, and how these   *)
(* run.  Compile is the recursion of compile_matrix; each block it makes   *)
(* is a node, with the variables it binds:                                 *)
(*    arm      goes on with the arm's body (or gives true, for `is`)       *)
(*    guard    evaluates the arm's guard and goes on with the body or fail *)
(*    switch   tests a place against the tags of its cases                 *)
(*    goto     only binds                                                  *)
(*    fail     gives false (`is`), or is Unreachable                       *)
(*    unreachable   the terminator Unreachable                             *)
(*    orphan   a block that was given no terminator                        *)
(*    error    the lowering reports an error, or indexes past an end       *)
(*                                                                         *)
(* A place is a path of fields and payloads from the scrutinee, and the    *)
(* type that place_ty finds for it.                                        *)
(***************************************************************************)
EXTENDS Usefulness

CONSTANT IsPatterns   \* what is given to `is`: a type and a pattern

NoType == "no type"
NoCtor == "no constructor"   \* of a step to a field
Junk == value("junk", <<>>)

\* A constructor has one payload or none, and check_pattern has been through
\* the patterns of `is`.
ASSUME TreeAssumption ==
    /\ NoType \notin TypeNames /\ Junk \notin AllValues
    /\ \A t \in TypeNames : NoCtor \notin Tags(t)
    /\ \A t \in TypeNames : Shape[t].kind = "ctor" => \A c \in Tags(t) : Len(Shape[t].parts[c]) <= 1
    /\ \A m \in IsPatterns : m[1] \in TypeNames /\ m[2] \in Pats /\ m[1] \in TypesOf[m[2]]

Field(i) == [ctor |-> NoCtor, part |-> i]
EnumItem(c) == [ctor |-> c, part |-> 1]
Steps == [ctor : {NoCtor} \cup {pat.tag : pat \in {q \in Pats : q.p = "ctor"}}, part : Nat]
Places == [path : Seq(Steps), type : TypeNames \cup {NoType}]

\* The type of what is a step below a place (place_ty).
StepType(t, step) ==
    LET ctors == {c \in Tags(t) : /\ IF step.ctor = NoCtor THEN Shape[t].kind \in {"tuple", "struct"}
                                                      ELSE Shape[t].kind = "ctor" /\ c = step.ctor
                                  /\ step.part \in DOMAIN Shape[t].parts[c]}
    IN  IF t = NoType THEN NoType
        ELSE IF ctors = {} THEN NoType
        ELSE Shape[t].parts[CHOOSE c \in ctors : TRUE][step.part]

At(place, step) == [path |-> Append(place.path, step), type |-> StepType(place.type, step)]

\* The value at a place; the payload of another constructor is junk.
StepValue(v, step) ==
    IF step.ctor \in {NoCtor, v.tag} /\ step.part \in DOMAIN v.parts THEN v.parts[step.part] ELSE Junk

ValueAt(place, v) ==
    LET V[n \in 0..Len(place.path)] == IF n = 0 THEN v ELSE StepValue(V[n - 1], place.path[n])
    IN  V[Len(place.path)]

-----------------------------------------------------------------------------
\* What an alias is for.
Core[pat \in Pats] == IF pat.p = "alias" THEN Core[pat.q] ELSE pat

\* get_pattern_kind
KeyOf[pat \in Pats] ==
    IF IsWild(pat) THEN [p |-> "wild", tag |-> "wild"]
    ELSE IF pat.p = "or" THEN KeyOf[pat.l]
    ELSE IF pat.p = "alias" THEN KeyOf[pat.q]
    ELSE [p |-> pat.p, tag |-> pat.tag]

\* specialize_pattern: whether a pattern may match what has the key, and what
\* is left of it.  A wildcard gives one wildcard, whatever the arity.
Hit(pat, key) ==
    \/ IsWild(Core[pat])
    \/ /\ Core[pat].p \in {"lit", "ctor", "tuple", "struct"}
       /\ Core[pat].p = key.p /\ Core[pat].tag = key.tag

\* Faulty: a wildcard gives a wildcard for a literal too.
SubPatternsAlways(pat, key) ==
    IF IsWild(Core[pat]) THEN <<Core[pat]>> ELSE IF Core[pat].p = "lit" THEN <<>> ELSE Core[pat].args

SubPatterns(pat, key) ==
    IF IsWild(Core[pat]) THEN IF key.p = "lit" THEN <<>> ELSE <<Core[pat]>>
    ELSE IF Core[pat].p = "lit" THEN <<>>
    ELSE Core[pat].args

\* generate_sub_occurrences
SubPlaces(pat, place) ==
    LET q == Core[pat]
    IN  IF ~HasParts(q) \/ q.args = <<>> THEN <<>>
        ELSE IF q.p = "ctor" THEN <<At(place, EnumItem(q.tag))>>
        ELSE [i \in DOMAIN q.args |-> At(place, Field(PartOf(q, i)))]

\* bind_pattern_variables, which fails where a place has no type: the argument
\* of a constructor is bound to the place of the whole.
Bindable[m \in Pats \X Places] ==
    LET pat == m[1]
        place == m[2]
    IN  /\ pat.p \in {"bind", "alias"} => place.type # NoType
        /\ pat.p = "alias" => Bindable[<<pat.q, place>>]
        /\ pat.p = "ctor" /\ pat.args # <<>> => Bindable[<<pat.args[1], place>>]
        /\ pat.p = "struct" => place.type # NoType /\ Shape[place.type].kind = "struct"
        /\ pat.p \in {"tuple", "struct"} =>
            \A i \in DOMAIN pat.args : Bindable[<<pat.args[i], At(place, Field(PartOf(pat, i)))>>]

BoundBy[m \in Pats \X Places] ==
    LET pat == m[1]
        place == m[2]
    IN  IF pat.p = "bind" THEN <<<<pat.x, place>>>>
        ELSE IF pat.p = "alias" THEN Append(BoundBy[<<pat.q, place>>], <<pat.x, place>>)
        ELSE IF pat.p = "ctor" /\ pat.args # <<>> THEN BoundBy[<<pat.args[1], place>>]
        ELSE IF pat.p \in {"tuple", "struct"}
        THEN FlattenSeq([i \in DOMAIN pat.args |-> BoundBy[<<pat.args[i], At(place, Field(PartOf(pat, i)))>>]])
        ELSE <<>>

\* is_wildcard_or_binding, is_all_wildcards
AnyAlias(pat) == IsWild(Core[pat])
AllWild(pats) == \A i \in DOMAIN pats : AnyAlias(pats[i])

\* The variables of arm a with their places.
OfArm(a, bound) == [k \in DOMAIN bound |-> <<a, bound[k][1], bound[k][2]>>]

\* The alternatives of a pattern.
Options[pat \in Pats] == IF pat.p = "or" THEN Options[pat.l] \o Options[pat.r] ELSE <<pat>>

-----------------------------------------------------------------------------
(* The matrix: rows of patterns, with the arm they are from and whether it *)
(* has a guard.                                                            *)

MatrixRows == [pats : Seq(Pats), arm : Nat, guard : BOOLEAN]
Matrices == Seq(MatrixRows) \X Seq(Places)

\* expand_patterns: the alternatives of a row's first pattern.
Expand(row) ==
    IF row.pats = <<>> THEN <<row>>
    ELSE LET heads == Options[row.pats[1]]
         IN  [k \in DOMAIN heads |-> [row EXCEPT !.pats = <<heads[k]>> \o Tail(@)]]
Expanded(rows) == FlattenSeq([i \in DOMAIN rows |-> Expand(rows[i])])

\* Those of a sequence of rows that fulfil a condition, changed.
OtherArms(rows, a) == FlattenSeq([i \in DOMAIN rows |-> IF rows[i].arm = a THEN <<>> ELSE <<rows[i]>>])

\* select_best_column: a column whose first pattern tests, then the most
\* kinds, then the widest, then the leftmost.
Column(rows, c) == {rows[i].pats[c] : i \in {j \in DOMAIN rows : c \in DOMAIN rows[j].pats}}
Leads(rows, c) == c \in DOMAIN rows[1].pats /\ rows[1].pats[c].p \in {"ctor", "lit", "struct", "tuple"}
Kinds(rows, c) == Cardinality({KeyOf[pat] : pat \in Column(rows, c)})
Width(rows, c) == Max({0} \cup {Len(pat.args) : pat \in {q \in Column(rows, c) : HasParts(q)}})

Better(rows, c, d) ==
    \/ Leads(rows, c) /\ ~Leads(rows, d)
    \/ /\ Leads(rows, c) = Leads(rows, d)
       /\ \/ Kinds(rows, c) > Kinds(rows, d)
          \/ Kinds(rows, c) = Kinds(rows, d) /\ Width(rows, c) > Width(rows, d)

BestColumn(rows, cols) ==
    LET best[c \in 0..cols] ==
            IF c > 1 /\ ~Better(rows, c, best[c - 1]) THEN best[c - 1] ELSE c
    IN  best[cols]

\* The kinds of a column (constructors_seen), and those of them that a switch tests.
Keys(rows, c) == {KeyOf[rows[i].pats[c]] : i \in DOMAIN rows}
\* Faulty: the first key is forgotten.
TestsButOne(rows, c) ==
    {k \in Keys(rows, c) \ {KeyOf[rows[1].pats[c]]} : k.p \in {"lit", "ctor"}}

TestedKeys(rows, c) == {k \in Keys(rows, c) : k.p \in {"lit", "ctor"}}

\* The first kind that is no wildcard, if there is one.
ChosenKey(rows, c) ==
    LET real == {i \in DOMAIN rows : KeyOf[rows[i].pats[c]].p # "wild"}
    IN  KeyOf[rows[IF real = {} THEN 1 ELSE Min(real)].pats[c]]

Hits(rows, c, key) == {i \in DOMAIN rows : Hit(rows[i].pats[c], key)}

\* What is left of the rows that may match key: their sub-patterns are put
\* before the other columns.
SpecializedRows(rows, c, key) ==
    FlattenSeq([i \in DOMAIN rows |->
        IF i \notin Hits(rows, c, key) THEN <<>>
        ELSE <<[rows[i] EXCEPT !.pats = SubPatterns(@[c], key) \o RemoveAt(@, c)]>>])

\* Faulty: the tested place stays among the places.
SpecializedPlacesKeep(rows, occ, c, key) == occ

\* ... while their places stay at the column.
SpecializedPlaces(rows, occ, c, key) ==
    SubSeq(occ, 1, c - 1) \o SubPlaces(rows[Min(Hits(rows, c, key))].pats[c], occ[c])
                          \o SubSeq(occ, c + 1, Len(occ))

\* Faulty: rows that test the column are kept.
DefaultRowsAll(rows, c) == [i \in DOMAIN rows |-> [rows[i] EXCEPT !.pats = RemoveAt(@, c)]]

\* The rows that match whatever the column is: the column goes, and a
\* variable in it with it.
DefaultRows(rows, c) ==
    FlattenSeq([i \in DOMAIN rows |->
        IF ~AnyAlias(rows[i].pats[c]) THEN <<>> ELSE <<[rows[i] EXCEPT !.pats = RemoveAt(@, c)]>>])

\* Faulty: only the first row's alias is bound.
AliasOfFirst(rows, c) == {i \in DOMAIN rows : i = 1 /\ rows[i].pats[c].p = "alias"}

\* The rows with an alias in a column that may match one of the tested keys.
AliasRows(rows, c) ==
    {i \in DOMAIN rows : /\ rows[i].pats[c].p = "alias"
                         /\ TestedKeys(rows, c) # {} => \E k \in TestedKeys(rows, c) : i \in Hits(rows, c, k)}

leaf(kind) == [n |-> kind]
ArmNode(a, binds) == [n |-> "arm", arm |-> a, binds |-> binds]

\* The node for rows whose first is all wildcards.  sub has the nodes of other matrices.
WildNode(sub, rows, occ) ==
    LET first == rows[1]
        columns == 1..Min({Len(first.pats), Len(occ)})
        binds == OfArm(first.arm, FlattenSeq([i \in columns |-> BoundBy[<<first.pats[i], occ[i]>>]]))
        fail == sub[<<OtherArms(rows, first.arm), occ>>]
    IN  IF \E i \in columns : ~Bindable[<<first.pats[i], occ[i]>>] THEN leaf("error")
        ELSE IF ~first.guard THEN ArmNode(first.arm, binds)
        ELSE IF fail.n = "error" THEN leaf("error")
        ELSE [n |-> "guard", arm |-> first.arm, binds |-> binds, fail |-> fail]

\* A key can be tested: some row may match it, and it is one of the type.
Testable(rows, c, key, place) ==
    /\ Hits(rows, c, key) # {}
    /\ key.p = "ctor" => Shape[place.type].kind = "ctor" /\ key.tag \in Tags(place.type)

\* The node for rows of which column c is tested, or taken apart if it is of a
\* tuple or struct.
TestNode(sub, rows, occ, c) ==
    LET place == occ[c]
        binds == FlattenSeq([i \in DOMAIN rows |->
                    IF i \in AliasRows(rows, c) THEN OfArm(rows[i].arm, BoundBy[<<rows[i].pats[c], place>>]) ELSE <<>>])
        default == IF DefaultRows(rows, c) = <<>> THEN leaf("fail")
                   ELSE sub[<<DefaultRows(rows, c), RemoveAt(occ, c)>>]
        tests == TestedKeys(rows, c) # {}
        keys == IF tests THEN TestedKeys(rows, c) ELSE {ChosenKey(rows, c)}
        under == [key \in keys |->
                    sub[<<SpecializedRows(rows, c, key), SpecializedPlaces(rows, occ, c, key)>>]]
    IN  IF \E i \in AliasRows(rows, c) : ~Bindable[<<rows[i].pats[c], place>>] THEN leaf("error")
        ELSE IF default.n = "error" \/ \E key \in keys : ~Testable(rows, c, key, place) THEN leaf("error")
        ELSE IF ~tests /\ SpecializedPlaces(rows, occ, c, ChosenKey(rows, c)) = <<>> THEN leaf("orphan")
        ELSE IF \E key \in keys : under[key].n = "error" THEN leaf("error")
        ELSE IF tests
        THEN [n |-> "switch", place |-> place, binds |-> binds, default |-> default, cases |-> under]
        ELSE [n |-> "goto", binds |-> binds, next |-> under[ChosenKey(rows, c)]]

MatrixNode(sub, rows, occ) ==
    LET c == BestColumn(rows, Len(occ))
    IN  IF rows = <<>> THEN leaf("unreachable")
        ELSE IF AllWild(rows[1].pats) THEN WildNode(sub, rows, occ)
        ELSE IF occ = <<>> THEN leaf("error")
        ELSE IF occ[c].type = NoType \/ \E i \in DOMAIN rows : Len(rows[i].pats) < c THEN leaf("error")
        ELSE TestNode(sub, rows, occ, c)

\* compile_matrix
Compile[m \in Matrices] == MatrixNode(Compile, Expanded(m[1]), m[2])

-----------------------------------------------------------------------------
VARIABLES
    mode,       \* "match" or "is"
    val,        \* the scrutinee's value
    node,       \* the node control is at, from the one compiled
    env,        \* the variables bound so far
    refused,    \* the arms whose guard was false
    out         \* "none", "arm", "true", "false" or how it ended otherwise

mvars == <<ty, arms, idx, matrix, verdict, mode, val, node, env, refused, out>>

\* The arms after the alternatives of their patterns were split: the stack
\* to_expand gives the right one first.
Split(arm) ==
    LET pats == Reverse(Options[arm.pat])
    IN  [k \in DOMAIN pats |-> Arm(pats[k], arm.guard)]
ExpandedArms == IF mode = "is" THEN arms ELSE FlattenSeq([i \in DOMAIN arms |-> Split(arms[i])])
\* The arms they were split from: a name stands for one variable in all the
\* alternatives of an arm, and for another in each arm.
Owners == IF mode = "is" THEN <<1>> ELSE FlattenSeq([i \in DOMAIN arms |-> [k \in DOMAIN Split(arms[i]) |-> i]])
-----------------------------------------------------------------------------
MInit ==
    /\ \/ mode = "match" /\ UInit
       \/ /\ mode = "is"
          /\ \E m \in IsPatterns : ty = m[1] /\ arms = <<Arm(m[2], FALSE)>>
          /\ idx = 2 /\ matrix = <<>> /\ verdict = "is"
    /\ val = Junk
    /\ node = leaf("none")
    /\ env = <<>>
    /\ refused = {}
    /\ out = <<"none">>

Check ==
    /\ mode = "match" /\ UNext
    /\ UNCHANGED <<mode, val, node, env, refused, out>>

Rows == [i \in DOMAIN ExpandedArms |-> [pats |-> <<ExpandedArms[i].pat>>, arm |-> i, guard |-> ExpandedArms[i].guard]]
Root == [path |-> <<>>, type |-> ty]

\* The tree of an accepted match, then any value for it.
Lower ==
    /\ verdict \in {"ok", "is"} /\ node.n = "none"
    /\ LET tree == Compile[<<Rows, <<Root>>>>] IN
       IF tree.n = "error"
       THEN /\ node' = tree /\ out' = <<"error">>
            /\ UNCHANGED <<ty, arms, idx, matrix, verdict, mode, val, env, refused>>
       ELSE /\ node' = tree
            /\ val' \in Values
            /\ UNCHANGED <<ty, arms, idx, matrix, verdict, mode, env, refused, out>>

RunningAt(kind) == out = <<"none">> /\ node.n = kind
\* The variables get the values at their places, of several the last.
Bind(binds) ==
    LET Key(k) == <<Owners[binds[k][1]], binds[k][2]>>
        bound == {Key(k) : k \in DOMAIN binds}
        Place(x) == binds[Max({k \in DOMAIN binds : Key(k) = x})][3]
    IN  env' = [x \in bound \cup DOMAIN env |-> IF x \in bound THEN ValueAt(Place(x), val) ELSE env[x]]
Static == UNCHANGED <<ty, arms, idx, matrix, verdict, mode, val>>

\* Faulty: the variables of the pattern are not bound.
AtArmNoBind ==
    /\ RunningAt("arm")
    /\ out' = IF mode = "is" THEN <<"true">> ELSE <<"arm", node.arm>>
    /\ UNCHANGED <<node, env, refused>> /\ Static

AtArm ==
    /\ RunningAt("arm")
    /\ Bind(node.binds)
    /\ out' = IF mode = "is" THEN <<"true">> ELSE <<"arm", node.arm>>
    /\ UNCHANGED <<node, refused>> /\ Static

\* A guard may be true or false.
GuardTrue ==
    /\ RunningAt("guard")
    /\ Bind(node.binds)
    /\ out' = <<"arm", node.arm>>
    /\ UNCHANGED <<node, refused>> /\ Static

GuardFalse ==
    /\ RunningAt("guard")
    /\ Bind(node.binds)
    /\ refused' = refused \cup {node.arm}
    /\ node' = node.fail
    /\ UNCHANGED out /\ Static

\* What a switch on junk does is anything.
Switch ==
    /\ RunningAt("switch")
    /\ Bind(node.binds)
    /\ LET v == ValueAt(node.place, val)
           hits == {key \in DOMAIN node.cases : key.tag = v.tag \/ v = Junk}
       IN \/ \E key \in hits : node' = node.cases[key]
          \/ (hits = {} \/ v = Junk) /\ node' = node.default
    /\ UNCHANGED <<refused, out>> /\ Static

GoOn ==
    /\ RunningAt("goto")
    /\ Bind(node.binds)
    /\ node' = node.next
    /\ UNCHANGED <<refused, out>> /\ Static

\* A block whose terminator was never set has Unreachable.
AtLeaf ==
    /\ out = <<"none">> /\ node.n \in {"fail", "unreachable", "orphan"}
    /\ out' = <<IF node.n = "fail" /\ mode = "is" THEN "false" ELSE "unreachable">>
    /\ UNCHANGED <<node, env, refused>> /\ Static

MNext == Check \/ Lower \/ AtArm \/ GuardTrue \/ GuardFalse \/ Switch \/ GoOn \/ AtLeaf

MSpec == MInit /\ [][MNext]_mvars

-----------------------------------------------------------------------------
Reached == IF out[1] = "arm" THEN out[2] ELSE 0

(* The matches for which the rows and the places of Compile stay in step.  *)

IsRecord(pat) == pat.p \in {"tuple", "struct"}
StepTo(pat, i) == IF pat.p = "ctor" THEN [ctor |-> pat.tag, part |-> i] ELSE Field(PartOf(pat, i))

\* The patterns in a pattern, with the way to the place where they stand.
Standing[pat \in Pats] ==
    {<<<<>>, pat>>} \cup
    IF HasParts(pat)
    THEN UNION {{<<<<StepTo(pat, i)>> \o o[1], o[2]>> : o \in Standing[pat.args[i]]} : i \in DOMAIN pat.args}
    ELSE UNION {Standing[q] : q \in Children(pat)}

\* The elements of a tuple or struct have no parts and no alternatives: a
\* wildcard above a test of any of them gives as many patterns as places.
IsPlain(pat) == IsWild(pat) \/ pat.p = "lit"
ElementsPlain(pat) == \A q \in Within[pat] : IsRecord(q) => q.args # <<>> /\ \A i \in DOMAIN q.args : IsPlain(q.args[i])
ElementsArePlain == \A i \in DOMAIN arms : ElementsPlain(arms[i].pat)

\* What has an alias has no alternatives, which nobody would split, and no
\* tuple or struct in a constructor, for whose elements there would be no place.
AliasesSimple(pat) ==
    \A q \in Within[pat] : q.p = "alias" =>
        \A r \in Within[q.q] : r.p # "or" /\ (r.p = "ctor" => \A s \in Within[r] : ~IsRecord(s))
AliasesAreSimple == \A i \in DOMAIN arms : AliasesSimple(arms[i].pat)

\* Where a tuple or struct stands, no wildcard takes the whole, and others
\* list the same fields.
ApartAlike(p, q) ==
    \A o \in Standing[p], r \in Standing[q] :
        /\ IsRecord(r[2]) /\ IsPrefix(o[1], r[1]) => ~IsWild(o[2])
        /\ IsRecord(o[2]) /\ IsRecord(r[2]) /\ o[1] = r[1] =>
            [i \in DOMAIN o[2].args |-> PartOf(o[2], i)] = [i \in DOMAIN r[2].args |-> PartOf(r[2], i)]
RecordsApart == \A i, j \in DOMAIN arms : ApartAlike(arms[i].pat, arms[j].pat)

\* Where an arm with a guard has a wildcard, neither it nor a later arm has a
\* constructor with a payload, unless it is the first arm and has no alternatives.
Passes(p, q) ==
    \A o \in Standing[p], r \in Standing[q] :
        IsWild(o[2]) /\ o[1] = r[1] => ~(r[2].p = "ctor" /\ r[2].args # <<>>)
NoOr(pat) == \A q \in Within[pat] : q.p # "or"
GuardsTest ==
    \A i, j \in DOMAIN arms :
        arms[i].guard /\ i <= j /\ ~(i = 1 /\ NoOr(arms[1].pat)) => Passes(arms[i].pat, arms[j].pat)

InStep == ElementsArePlain /\ AliasesAreSimple /\ RecordsApart /\ GuardsTest

\* The arm whose body runs matches, and every arm before it that matches was
\* refused by its guard.
ArmIsFirst ==
    Reached # 0 /\ InStep =>
        /\ Matches(ExpandedArms[Reached].pat, val)
        /\ \A j \in 1..(Reached - 1) : Matches(ExpandedArms[j].pat, val) => j \in refused

\* A match the type checker accepted can be lowered, and running it ends in
\* an arm: the lowering meets no place that does not exist, and what the C
\* code is told is `__builtin_unreachable` (leaf_c_codegen lib.rs 1063) is.
AcceptedMatchRuns ==
    /\ out = <<"error">> => ~InStep
    /\ out = <<"unreachable">> => ~(InStep /\ Exact)

\* `is` gives true for the values its pattern matches and for no others.
IsDecides ==
    out[1] \in {"true", "false"} /\ InStep =>
        (out[1] = "true" <=> Matches(arms[1].pat, val))

\* The variables of a pattern with the values they get.
Bindings[m \in Pats \X AllValues] ==
    LET pat == m[1]
        v == m[2]
    IN  IF pat.p = "bind" THEN {<<pat.x, v>>}
        ELSE IF pat.p = "alias" THEN Bindings[<<pat.q, v>>] \cup {<<pat.x, v>>}
        ELSE IF pat.p = "or" THEN Bindings[<<IF Matches(pat.l, v) THEN pat.l ELSE pat.r, v>>]
        ELSE IF HasParts(pat)
        THEN UNION {Bindings[<<pat.args[i], v.parts[PartOf(pat, i)]>>] :
                      i \in {k \in DOMAIN pat.args : PartOf(pat, k) \in DOMAIN v.parts}}
        ELSE {}

\* A name of an arm stands at one place: an alias is bound before the tests
\* decide between the alternatives that have it.
Names(pat) == pat.p \in {"bind", "alias"}
OnePlace ==
    \A i \in DOMAIN arms : \A o, r \in Standing[arms[i].pat] :
        Names(o[2]) /\ Names(r[2]) /\ o[2].x = r[2].x => o[1] = r[1]

\* The body finds each variable bound to the part it names, unless a pattern
\* of its arm or of one before tests its place.
Tested(i, place) ==
    \E j \in 1..i : \E r \in Standing[arms[j].pat] : r[1] = place /\ (HasParts(r[2]) \/ r[2].p = "lit")
VariablesAreBound ==
    Reached # 0 /\ mode = "match" /\ InStep /\ OnePlace =>
        LET i == Owners[Reached]
        IN  \A b \in Bindings[<<ExpandedArms[Reached].pat, val>>] :
                \/ <<i, b[1]>> \in DOMAIN env /\ env[<<i, b[1]>>] = b[2]
                \/ \E o \in Standing[arms[i].pat] : o[2].p = "bind" /\ o[2].x = b[1] /\ Tested(i, o[1])

\* Without a condition: an accepted match never gets to the blocks that C
\* code is told are `__builtin_unreachable` (leaf_c_codegen lib.rs 1063).
EveryEndIsReachable == out # <<"unreachable">>
=============================================================================

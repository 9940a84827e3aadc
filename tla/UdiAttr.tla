------------------------------ MODULE UdiAttr ------------------------------
(* Instance attributes of the UDI environment (udi/common/udi_inst_attr.c): named
   values on a device node, read and written by its driver, its parent's and its
   child's and by the environment.  A node's count says how many read; a write
   that finds readers makes the count negative, so that no one joins them, and
   comes back a second later.  The kernel's own storage keeps nothing
   (udi/ripple/udi_osdep_inst_attr.c).  A value stands for type, bytes and length.*)
EXTENDS Integers, Sequences, FiniteSets

CONSTANTS Request,      \* requests under way at once
          Name,         \* [prefix, base, upper]: upper if spelt in capitals
          Value,
          MaxCalls      \* bound

Node == {"parent", "me", "child"}
Nothing == "nothing"            \* UDI_ATTR_NONE, of length 0
Fold(n) == [n EXCEPT !.upper = FALSE]
Locator == [prefix |-> "", base |-> "physical_locator", upper |-> FALSE]
\* What the proofs need: finitely many requests, a name for the locator, and no value
\* that a driver sets looking like one that was freed.
ConstantsMakeSense == IsFiniteSet(Request) /\ Locator \in Name /\ "freed" \notin Value
InFile(n) == n.base = "file:"

VARIABLES attrs,        \* [Node -> the attribute list]
          count,        \* [Node -> read_in_progress]
          locator,      \* [Node -> attr_physical_locator]
          req,          \* [Request -> the control block's part and how far it is]
          truth,        \* [Node -> [folded names -> what was last set]]
          mixed,        \* a locator was set in a way its copy does not follow
          lost,         \* a node was released while requests waited for it
          calls
vars == <<attrs, count, locator, req, truth, mixed, lost, calls>>

Idle == [phase |-> "idle", op |-> "get", node |-> "me", name |-> Locator,
         value |-> Nothing, copy |-> FALSE]
Pending(op, n) == {q \in Request : req[q].phase # "idle" /\ req[q].op = op /\ req[q].node = n}
At(phases, n) == {q \in Request : req[q].phase \in phases /\ req[q].node = n}

Init == /\ attrs = [n \in Node |-> <<>>]
        /\ count = [n \in Node |-> 0]
        /\ locator = [n \in Node |-> Nothing]
        /\ req = [q \in Request |-> Idle]
        /\ truth = [n \in Node |-> [m \in {Fold(m) : m \in Name} |-> Nothing]]
        /\ mixed = FALSE /\ lost = FALSE /\ calls = 0

\* _udi_node_attr_find_name: whatever the case of the letters.
_udi_node_attr_find_name(n, m) == {i \in DOMAIN attrs[n] : Fold(attrs[n][i].name) = Fold(m)}
Held(n, m) == LET S == _udi_node_attr_find_name(n, m)
              IN  IF S = {} THEN Nothing ELSE attrs[n][CHOOSE i \in S : TRUE].value

GetsFrom(p) == IF p = "^" THEN "parent" ELSE IF p = "@" THEN "child" ELSE "me"
SetsAt(p) == IF p = "^" THEN "parent" ELSE IF p = "" THEN "child" ELSE "me"

Ask(q, r) == /\ req[q].phase = "idle" /\ calls < MaxCalls
             /\ req' = [req EXCEPT ![q] = r]
             /\ calls' = calls + 1
             /\ UNCHANGED <<attrs, count, locator, truth, lost>>
Getting(n, m) == [Idle EXCEPT !.phase = "asked", !.node = n, !.name = m]
Setting(n, m, v, copy) == [Getting(n, m) EXCEPT !.op = "set", !.value = v, !.copy = copy]

udi_instance_attr_get(q, m) == Ask(q, Getting(GetsFrom(m.prefix), m)) /\ UNCHANGED mixed
\* The environment names the node itself, and waits for the answer.
_udi_instance_attr_get(q, n, m) == Ask(q, Getting(n, m)) /\ UNCHANGED mixed

IsLocator(m) == Fold(m) = Locator
udi_instance_attr_set(q, m, v) ==
    /\ Ask(q, Setting(SetsAt(m.prefix), m, v, FALSE))
    /\ mixed' = (mixed \/ IsLocator(m))
_udi_instance_attr_set(q, n, m, v) ==
    /\ v # Nothing
    /\ Ask(q, Setting(n, m, v, m = Locator))
    /\ mixed' = \/ mixed
                 \/ /\ IsLocator(m)
                    /\ m # Locator \/ \E p \in Pending("set", n) : IsLocator(req[p].name)

\* Once the set has been tried, whether or not it went through.
CopyLocator(q) ==
    /\ req[q].copy /\ req[q].phase # "asked"
    /\ locator' = [locator EXCEPT ![req[q].node] = req[q].value]
    /\ req' = [req EXCEPT ![q].copy = FALSE]
    /\ UNCHANGED <<attrs, count, truth, mixed, lost, calls>>

To(q, phase) == req' = [req EXCEPT ![q].phase = phase]
Counted(n, k) == count' = [count EXCEPT ![n] = k]

\* _udi_instance_attr_async_get, from its lock to its lock and on to the answer.
GetFile(q) == /\ req[q].phase = "asked" /\ req[q].op = "get" /\ InFile(req[q].name)
              /\ req' = [req EXCEPT ![q] = Idle]
              /\ UNCHANGED <<attrs, count, locator, truth, mixed, lost, calls>>
Join(q) == LET n == req[q].node IN
    /\ req[q].phase = "asked" /\ req[q].op = "get" /\ ~InFile(req[q].name)
    /\ count[n] >= 0                            \* else again in a second
    /\ Counted(n, count[n] + 1) /\ To(q, "reading")
    /\ UNCHANGED <<attrs, locator, truth, mixed, lost, calls>>
Read(q) == /\ req[q].phase = "reading"
           /\ req' = [req EXCEPT ![q].phase = "read",
                                 ![q].value = Held(req[q].node, req[q].name)]
           /\ UNCHANGED <<attrs, count, locator, truth, mixed, lost, calls>>
LeaveNot(q) == LET n == req[q].node IN          \* slip: a pending write is not looked for
    /\ req[q].phase = "read"
    /\ Counted(n, count[n] - 1)
    /\ req' = [req EXCEPT ![q] = Idle]
    /\ UNCHANGED <<attrs, locator, truth, mixed, lost, calls>>
Leave(q) == LET n == req[q].node IN
    /\ req[q].phase = "read"
    /\ Counted(n, IF count[n] < 0 THEN count[n] + 1 ELSE count[n] - 1)
    /\ req' = [req EXCEPT ![q] = Idle]
    /\ UNCHANGED <<attrs, locator, truth, mixed, lost, calls>>

\* _udi_instance_attr_async_set; "tried" waits for its timer.
Trying(q) == req[q].phase \in {"asked", "tried"} /\ req[q].op = "set"
Enter(q) == LET n == req[q].node IN
    /\ Trying(q)
    /\ CASE count[n] = 0 -> Counted(n, -1) /\ To(q, "writing")
         [] count[n] > 0 -> Counted(n, -count[n]) /\ To(q, "tried")
         [] OTHER -> count' = count /\ To(q, "tried")
    /\ UNCHANGED <<attrs, locator, truth, mixed, lost, calls>>

\* _udi_inst_attr_set: of what is found the value is freed and then replaced;
\* what is not found is added, be it nothing.
_udi_inst_attr_set(q) == LET r == req[q]
                             S == _udi_node_attr_find_name(r.node, r.name)
                             i == CHOOSE i \in S : TRUE
                             l == attrs[r.node]
                         IN
    /\ r.phase = "writing"
    /\ IF S = {}
       THEN /\ attrs' = [attrs EXCEPT ![r.node] = Append(l, [name |-> r.name, value |-> r.value])]
            /\ To(q, "written")
       ELSE IF r.value = Nothing
       THEN /\ attrs' = [attrs EXCEPT ![r.node] = SubSeq(l, 1, i - 1) \o SubSeq(l, i + 1, Len(l))]
            /\ To(q, "written")
       ELSE /\ attrs' = [attrs EXCEPT ![r.node][i].value = "freed"]
            /\ To(q, "freed")
    /\ UNCHANGED <<count, locator, truth, mixed, lost, calls>>
Refill(q) == LET r == req[q] IN
    /\ r.phase = "freed"
    /\ attrs' = [attrs EXCEPT ![r.node] = [i \in DOMAIN @ |->
           IF @[i].value = "freed" THEN [@[i] EXCEPT !.value = r.value] ELSE @[i]]]
    /\ To(q, "written")
    /\ UNCHANGED <<count, locator, truth, mixed, lost, calls>>
Done(q) == LET r == req[q] IN
    /\ r.phase = "written"
    /\ truth' = [truth EXCEPT ![r.node][Fold(r.name)] = r.value]
    /\ Counted(r.node, 0)
    /\ req' = [req EXCEPT ![q] = IF r.copy THEN [r EXCEPT !.phase = "answered"] ELSE Idle]
    /\ UNCHANGED <<attrs, locator, mixed, lost, calls>>
\* Of a request that waits for its own copy of the locator.
Resume(q) == /\ req[q].phase = "answered" /\ ~req[q].copy
             /\ req' = [req EXCEPT ![q] = Idle]
             /\ UNCHANGED <<attrs, count, locator, truth, mixed, lost, calls>>

_udi_instance_attr_release(n) ==
    /\ attrs[n] # <<>> /\ calls < MaxCalls
    /\ attrs' = [attrs EXCEPT ![n] = <<>>]
    /\ truth' = [truth EXCEPT ![n] = [m \in DOMAIN @ |-> Nothing]]
    /\ lost' = (lost \/ Pending("get", n) \cup Pending("set", n) # {})
    /\ mixed' = TRUE
    /\ UNCHANGED <<count, locator, req, calls>>

Step(q) == \/ CopyLocator(q) \/ GetFile(q) \/ Join(q) \/ Read(q) \/ Leave(q) \/ Enter(q)
           \/ _udi_inst_attr_set(q) \/ Refill(q) \/ Done(q) \/ Resume(q)
Next == \E q \in Request :
          \/ Step(q)
          \/ \E m \in Name : \/ udi_instance_attr_get(q, m)
                             \/ \E v \in Value : udi_instance_attr_set(q, m, v)
          \/ _udi_instance_attr_get(q, "child", Locator)
          \/ \E m \in Name, v \in Value : IsLocator(m) /\ _udi_instance_attr_set(q, "child", m, v)
          \/ \E n \in Node : _udi_instance_attr_release(n)
Fairness == \A q \in Request : WF_vars(Step(q))
Spec == Init /\ [][Next]_vars /\ Fairness

(* Properties.  None is asked for once a node was released under a request.    *)
Reading == {"reading", "read"}
Writing == {"writing", "freed", "written"}

\* A write works alone on its node, with the count at -1; else the count is that
\* of the readers, below zero while a write is pending.
CountIsExact == \A n \in Node :
    LET readers == Cardinality(At(Reading, n)) IN
    \/ Cardinality(At(Writing, n)) = 1 /\ readers = 0 /\ count[n] = -1
    \/ At(Writing, n) = {} /\ count[n] \in {readers, -readers}

\* What a reader has got is what was last set, and still is: no value that was
\* freed for a longer one, and none that another request replaces meanwhile.
AnswersAreTrue == \A q \in Request : req[q].phase = "read" =>
    req[q].value = truth[req[q].node][Fold(req[q].name)]

\* A name is on a node's list once, however it is spelt.
ListedOnce == \A n \in Node : \A i, j \in DOMAIN attrs[n] :
    Fold(attrs[n][i].name) = Fold(attrs[n][j].name) => i = j

\* The copy that tracing shows is the attribute, when only the environment sets it,
\* spelt as the copy's test spells it and once at a time.
LocatorIsCopied == \A n \in Node :
    ~mixed /\ (\A q \in Pending("set", n) : ~IsLocator(req[q].name)) =>
        Held(n, Locator) = locator[n]

\* Reads and writes of a node's attributes, from any side and in any order, are
\* answered as if one came after the other (udi_inst_attr.c).
AttributesAreSound == ~lost =>
    CountIsExact /\ AnswersAreTrue /\ ListedOnce /\ LocatorIsCopied

\* When drivers stop asking (MaxCalls), every request has been answered: the retries
\* of writes that wait for readers, and of readers that wait for a write, end.
RequestsAreAnswered == []<>(\A q \in Request : req[q].phase = "idle")
=============================================================================

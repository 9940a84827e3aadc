-------------------------------- MODULE UdiMA --------------------------------
(* The management agent of the UDI environment (udi/common/udi_MA.c, udi_MA_util.c):
   it binds drivers to the nodes of the device tree, asks them for children, and
   unbinds and removes what is unplugged or unloaded, each by operations that a
   driver answers later; the contexts in between are the state here.  One thread,
   the loader, installs and destroys drivers and waits for events; it shares the
   agent's lists with the agent's region, and no lock covers them.  A synchronous
   run of handlers is taken in several steps ("down", "up") that no other handler
   comes between.  "wild" collects uses of what has been freed; what follows then
   is not modelled.  "polite" is an environment in which loading, unloading and
   hot plugging take turns, the drivers of roots bind, names of metalanguages
   outlive their drivers, and no child is removed twice.                       *)
EXTENDS Naturals, SequencesExt, FiniteSetsExt

CONSTANTS Driver, Orphans,      \* drivers, those without a parent
          Node, None,
          Id,                   \* child ids
          Weight,               \* [Driver \X Driver \X Id -> match of the device lines, 0: none]
          Secondary,            \* [Driver -> internal binds]
          MaxCalls              \* bound, like the number of nodes

Loader == "loader"

VARIABLES node,         \* [st, parent, id, drv, present, lost]
          kids,         \* child_list
          insts,        \* node_list of each driver
          drivers,      \* driver_list
          unbound,      \* _udi_MA_unbound_node_list: <<node, which of its elements>>
          bind,         \* the bind context of a node: [drv, step, cb, owner, level]
          enum,         \* the enumeration context of a node: [st, level, cb, owner]
          unbinds,      \* unbind contexts: [path, step, cb]
          releases,     \* nodes whose parent is to release them
          status,       \* MA_status of drivers, status2 of nodes
          told,         \* what a node's driver has announced
          loader, woken,
          metas, stale, \* are the metalanguages loaded?  drivers with freed names
          polite, wild, calls
vars == <<node, kids, insts, drivers, unbound, bind, enum, unbinds, releases, status,
          told, loader, woken, metas, stale, polite, wild, calls>>

NoBind == [drv |-> None, step |-> 0, cb |-> None, owner |-> None, level |-> "start"]
NoEnum == [st |-> "none", level |-> "start", cb |-> None, owner |-> None]
Idle == [pc |-> "idle", drv |-> None, next |-> None, keep |-> None, ok |-> TRUE]

Live(n) == node[n].st = "live"
Without(s, x) == SelectSeq(s, LAMBDA y : y # x)
WithoutNode(s, n) == SelectSeq(s, LAMBDA y : y[1] # n)
Listed(n) == \E k \in DOMAIN unbound : unbound[k][1] = n
Busy == \E u \in unbinds : u.step \in {"down", "up"}
Calm == /\ loader.pc = "idle" /\ unbinds = {} /\ releases = {}
        /\ \A n \in Node : bind[n] = NoBind /\ enum[n].st # "waits"
                           /\ (enum[n].st = "asked" => enum[n].level = "new")
Handler == ~Busy /\ wild = {}
Call == calls < MaxCalls /\ calls' = calls + 1
Blame(causes) == wild' = wild \cup causes
If(c, x) == IF c THEN {x} ELSE {}
-----------------------------------------------------------------------------
\* _udi_MA_add_unbound_node, _udi_MA_remove_unbound_node(s).
AddUnbound(s, n) ==
    Append(s, <<n, 1 + Max({0} \cup {unbound[k][2] : k \in DOMAIN unbound})>>)
\* A slip: the first node on the list is left on it.
RemoveUnboundLater(s, n) == IF s # <<>> THEN <<Head(s)>> \o WithoutNode(Tail(s), n) ELSE s
RemoveUnbound(s, n) == WithoutNode(s, n)

\* _udi_MA_match_children: the driver whose device lines match best, the first of
\* equals; never the parent's own.
_udi_MA_match_children(by, i) ==
    LET w(k) == IF by = None \/ drivers[k] = by THEN 0 ELSE Weight[drivers[k], by, i]
        fit == {k \in DOMAIN drivers : w(k) > 0 /\ \A j \in DOMAIN drivers : w(j) <= w(k)}
    IN  IF fit = {} THEN None ELSE drivers[Min(fit)]

\* (*callback)(arg): on with an enumeration, or the loader's event; "e" are the
\* enumeration contexts by then.
CallBack(c, e) ==
    /\ enum' = IF c \in Node THEN [e EXCEPT ![c].st = "asked"] ELSE e
    /\ woken' = (woken \/ c = Loader)
Lost(c, e) == If(c \in Node /\ (e[c].st # "waits" \/ node[c].drv = None), "enumeration")

\* _udi_MA_bind, with the primary region of _udi_MA_new_regions.
Bound(nodes, n, d) == [nodes EXCEPT ![n].drv = d]
BindOf(d, c, o, l) == [drv |-> d, step |-> 0, cb |-> c, owner |-> o, level |-> l]
Misbound(n, d) == If(d \in stale \/ (node[n].st = "live" /\ node[n].drv # None), "bind")
-----------------------------------------------------------------------------
(* Binding: the answers to usage_ind and to the channel_bound events of internal
   and parent binds (_udi_MA_usage_res, udi_channel_event_complete), then
   _udi_bind2.  The status is looked at when all are through.                  *)
LastStep(n) == Secondary[bind[n].drv] + (IF node[n].parent = None THEN 0 ELSE 1)

BindAck(n) == \E ok \in BOOLEAN :
    /\ Handler /\ bind[n] # NoBind
    /\ bind[n].step = 0 => ok
    /\ polite /\ node[n].parent = None => ok
    /\ IF ok THEN UNCHANGED calls ELSE Call
    /\ LET b == bind[n]
           s == IF b.step = 0 THEN status
                ELSE [status EXCEPT ![b.owner] = ok]
       IN  /\ status' = s
           /\ IF b.step < LastStep(n)
              THEN /\ bind' = [bind EXCEPT ![n].step = @ + 1]
                   /\ UNCHANGED <<insts, enum, unbinds, unbound, wild>>
              ELSE /\ bind' = [bind EXCEPT ![n] = NoBind]
                   /\ IF s[b.owner]
                      THEN /\ insts' = [insts EXCEPT ![b.drv] = Append(@, n)]
                           /\ enum' = [enum EXCEPT ![n] = [st |-> "asked", level |-> b.level,
                                                           cb |-> b.cb, owner |-> b.owner]]
                           /\ Blame(If(~Live(n), "bind"))
                           /\ UNCHANGED <<unbinds, unbound>>
                      ELSE /\ unbinds' = unbinds \cup {[path |-> <<n>>, step |-> "down",
                                                        cb |-> [what |-> "bind3", to |-> b.cb]]}
                           /\ unbound' = AddUnbound(RemoveUnbound(unbound, n), n)
                           /\ Blame(If(~Live(n), "bind"))
                           /\ UNCHANGED <<insts, enum>>
    /\ UNCHANGED <<node, kids, drivers, releases, told, loader, woken, metas, stale, polite>>
-----------------------------------------------------------------------------
(* Enumeration: _udi_MA_enumerate_ack, by what the driver answers.             *)
Asked(p) == Handler /\ enum[p].st = "asked"
            /\ ((polite /\ enum[p].level = "new") => Calm)
Freed(p) == Blame(If(~Live(p), "enumeration"))

EnumerateOk(p) == \E i \in Id \ told[p] :
    /\ Asked(p) /\ Call
    /\ polite => \A m \in releases : node[m].parent # p \/ node[m].id # i
    /\ told' = [told EXCEPT ![p] = @ \cup {i}]
    /\ LET known == {m \in Range(kids[p]) : node[m].id = i}
           fresh == {m \in Node : node[m].st = "none"}
           next == [enum EXCEPT ![p].level = "next"]
           m == CHOOSE x \in fresh : TRUE
           made == [node EXCEPT ![m] = [st |-> "live", parent |-> p, id |-> i, drv |-> None,
                                        present |-> TRUE, lost |-> FALSE]]
           d == _udi_MA_match_children(node[p].drv, i)
       IN  \/ /\ known # {}
              /\ node' = [x \in Node |-> IF x \in known THEN [node[x] EXCEPT !.present = TRUE] ELSE node[x]]
              /\ enum' = next
              /\ Freed(p)
              /\ UNCHANGED <<kids, bind, unbound, status>>
           \/ /\ known = {} /\ fresh # {}
              /\ kids' = [kids EXCEPT ![p] = Append(@, m)]
              /\ IF d = None
                 THEN /\ node' = made /\ enum' = next
                      /\ unbound' = AddUnbound(unbound, m)
                      /\ Freed(p)
                      /\ UNCHANGED <<bind, status>>
                 ELSE /\ node' = Bound(made, m, d)
                      /\ bind' = [bind EXCEPT ![m] = BindOf(d, p, enum[p].owner, "next")]
                      /\ status' = [status EXCEPT ![enum[p].owner] = TRUE]
                      /\ enum' = [next EXCEPT ![p].st = "waits"]
                      /\ Blame(If(~Live(p), "enumeration") \cup If(d \in stale, "bind"))
                      /\ UNCHANGED unbound
    /\ UNCHANGED <<insts, drivers, unbinds, releases, loader, woken, metas, stale, polite>>

EnumerateLeaf(p) ==
    /\ Asked(p) /\ kids[p] = <<>> /\ enum[p].level # "new"
    /\ CallBack(enum[p].cb, [enum EXCEPT ![p] = NoEnum])
    /\ Blame(Lost(enum[p].cb, enum))
    /\ UNCHANGED <<node, kids, insts, drivers, unbound, bind, unbinds, releases, status,
                   told, loader, metas, stale, polite, calls>>

\* Children no longer present are unbound and removed (_udi_MA_clean_node_branch),
\* and the request stays with the driver for news.
EnumerateDone(p) ==
    /\ Asked(p) /\ enum[p].level # "new"
    /\ CallBack(enum[p].cb, [enum EXCEPT ![p].level = "new", ![p].cb = None, ![p].owner = p])
    /\ LET absent == {m \in Range(kids[p]) : ~node[m].present} IN
       /\ unbinds' = unbinds \cup {[path |-> <<m>>, step |-> "down",
                                    cb |-> [what |-> "remove", to |-> None]] : m \in absent}
       /\ unbound' = SelectSeq(unbound, LAMBDA x : x[1] \notin absent)
    /\ Blame(If(~Live(p), "enumeration") \cup Lost(enum[p].cb, enum))
    /\ UNCHANGED <<node, kids, insts, drivers, bind, releases, status, told, loader,
                   metas, stale, polite, calls>>

EnumerateRescan(p) ==
    /\ Asked(p) /\ Call /\ enum[p].level \in {"next", "new"}
    /\ polite => loader.pc = "idle"
    /\ unbound' = SelectSeq(unbound, LAMBDA x : node[x[1]].parent # p)
    /\ node' = [m \in Node |-> IF m \in Range(kids[p])
                               THEN [node[m] EXCEPT !.present = FALSE, !.lost = @ \/ Listed(m)]
                               ELSE node[m]]
    /\ enum' = [enum EXCEPT ![p].level = "start"]
    /\ told' = [told EXCEPT ![p] = {}]
    /\ Freed(p)
    /\ UNCHANGED <<kids, insts, drivers, bind, unbinds, releases, status, loader, woken,
                   metas, stale, polite>>

EnumerateRemoved(p) == \E i \in (IF polite THEN told[p] ELSE Id) :
    /\ Asked(p) /\ Call /\ enum[p].level = "new"
    /\ told' = [told EXCEPT ![p] = @ \ {i}]
    /\ LET gone == {m \in Range(kids[p]) : node[m].id = i} IN
       /\ unbinds' = unbinds \cup {[path |-> <<m>>, step |-> "down",
                                    cb |-> [what |-> "remove", to |-> None]] : m \in gone}
       /\ unbound' = SelectSeq(unbound, LAMBDA x : x[1] \notin gone)
       /\ Blame(If(~Live(p), "enumeration")
                \cup If(\E u \in unbinds, m \in gone : Last(u.path) = m, "removed twice"))
    /\ UNCHANGED <<node, kids, insts, drivers, bind, enum, releases, status, loader, woken,
                   metas, stale, polite>>

EnumerateRemovedSelf(p) ==
    /\ Asked(p) /\ Call /\ enum[p].level = "new"
    /\ polite => node[p].parent # None
    /\ enum' = [enum EXCEPT ![p] = NoEnum]
    /\ unbinds' = unbinds \cup {[path |-> <<p>>, step |-> "down",
                                 cb |-> [what |-> "remove", to |-> None]]}
    /\ unbound' = RemoveUnbound(unbound, p)
    /\ told' = [x \in Node |-> IF x = node[p].parent THEN told[x] \ {node[p].id} ELSE told[x]]
    /\ Freed(p)
    /\ UNCHANGED <<node, kids, insts, drivers, bind, releases, status, loader, woken,
                   metas, stale, polite>>

\* The driver gives the standing request back: whenever it likes, but before it is unbound.
EnumerateFailed(p) ==
    /\ Handler /\ enum[p].st = "asked" /\ enum[p].level = "new"
    /\ enum' = [enum EXCEPT ![p] = NoEnum]
    /\ UNCHANGED <<node, kids, insts, drivers, unbound, bind, unbinds, releases, status,
                   told, loader, woken, metas, stale, polite, wild, calls>>
-----------------------------------------------------------------------------
(* Unbinding: children first, each asked to unbind and to clean up.  A context's
   path leads from the node that is being unbound to the one at work.          *)
End(u) == Last(u.path)
Becomes(u, s) == unbinds' = (unbinds \ {u}) \cup s
\* _udi_unbind2.
Next2(n) == IF node[n].drv # None THEN "asked" ELSE "up"

\* _udi_unbind1.
_udi_unbind1 == \E u \in unbinds :
    /\ u.step = "down" /\ wild = {}
    /\ LET n == End(u) IN
       IF kids[n] = <<>>
       THEN /\ Becomes(u, {[u EXCEPT !.step = Next2(n)]})
            /\ UNCHANGED unbound
       ELSE /\ Becomes(u, {[u EXCEPT !.path = Append(@, Head(kids[n]))]})
            /\ unbound' = RemoveUnbound(unbound, Head(kids[n]))
    /\ Blame(If(~Live(End(u)), "unbind"))
    /\ UNCHANGED <<node, kids, insts, drivers, bind, enum, releases, status, told, loader,
                   woken, metas, stale, polite, calls>>

\* _udi_devmgmt_ack and _udi_unbind3, _udi_MA_final_cleanup_ack with _udi_unbind4
\* and 5: the driver has answered all that was asked of it by then.
DriverUnbound == \E u \in unbinds :
    /\ Handler /\ u.step \in {"asked", "cleanup"}
    /\ LET n == End(u) IN
       /\ u.step = "cleanup" => /\ enum[n].st # "asked" /\ bind[n] = NoBind
                                /\ \A m \in releases : node[m].parent # n
       /\ Becomes(u, {[u EXCEPT !.step = IF @ = "asked" THEN "cleanup" ELSE "up"]})
       /\ Blame(If(~Live(n) \/ node[n].drv = None, "unbind"))
    /\ UNCHANGED <<node, kids, insts, drivers, unbound, bind, enum, releases, status, told,
                   loader, woken, metas, stale, polite, calls>>

\* _udi_MA_remove_node of a child: off its parent's list, and released by its driver.
Unlinked(n) == [kids EXCEPT ![n] = <<>>, ![node[n].parent] = Without(@, n)]
Unlinkable(n) == n \in Range(kids[node[n].parent]) /\ node[node[n].parent].drv # None

\* _udi_unbind6.
_udi_unbind6 == \E u \in unbinds :
    /\ u.step = "up" /\ wild = {}
    /\ LET n == End(u)
           p == node[n].parent
           reset == [node EXCEPT ![n].drv = None]
           up == Front(u.path)
       IN
       /\ insts' = [d \in Driver |-> Without(insts[d], n)]
       /\ IF ~Live(n) \/ kids[n] # <<>>
          THEN            /\ Blame({"unbind"})
                           /\ UNCHANGED <<node, kids, releases, enum, woken, unbinds, unbound>>
          ELSE
          \/ /\ up # <<>>                           \* on with the next child, or the parent
             /\ node' = reset
             /\ kids' = Unlinked(n)
             /\ releases' = releases \cup {n}
             /\ LET rest == Unlinked(n)[p] IN
                IF rest = <<>>
                THEN /\ Becomes(u, {[u EXCEPT !.path = up, !.step = Next2(p)]})
                     /\ UNCHANGED unbound
                ELSE /\ Becomes(u, {[u EXCEPT !.path = Append(up, Head(rest)), !.step = "down"]})
                     /\ unbound' = RemoveUnbound(unbound, Head(rest))
             /\ Blame(If(~Unlinkable(n), "unbind"))
             /\ UNCHANGED <<enum, woken>>
          \/ /\ up = <<>>
             /\ Becomes(u, {})
             /\ UNCHANGED unbound
             /\ IF u.cb.what = "remove"
                THEN /\ IF p = None THEN /\ node' = [reset EXCEPT ![n].st = "freed"]
                                         /\ Blame({"unbind"})
                                         /\ UNCHANGED <<kids, releases>>
                        ELSE /\ node' = reset
                             /\ kids' = Unlinked(n)
                             /\ releases' = releases \cup {n}
                             /\ Blame(If(~Unlinkable(n), "unbind"))
                     /\ UNCHANGED <<enum, woken>>
                ELSE /\ node' = IF p = None THEN [reset EXCEPT ![n].st = "freed"] ELSE reset
                     /\ kids' = [kids EXCEPT ![n] = <<>>]
                     /\ CallBack(u.cb.to, enum)
                     /\ Blame(Lost(u.cb.to, enum)
                              \cup If(p = None /\ u.cb.what = "bind3", "event"))
                     /\ UNCHANGED releases
    /\ UNCHANGED <<drivers, bind, status, told, loader, metas, stale, polite, calls>>

EnumerateReleased(n) ==
    /\ Handler /\ n \in releases
    /\ releases' = releases \ {n}
    /\ node' = [node EXCEPT ![n].st = "freed"]
    /\ UNCHANGED <<kids, insts, drivers, unbound, bind, enum, unbinds, status, told, loader,
                   woken, metas, stale, polite, wild, calls>>
-----------------------------------------------------------------------------
(* The loader.  A loop over a list holds the next element while it waits.      *)
At(s, k) == IF k \in DOMAIN s THEN s[k] ELSE None
Following(s, x) == At(s, 1 + Max({0} \cup {k \in DOMAIN s : s[k] = x}))
Goes(changes) == loader' = changes @@ loader

\* _udi_MA_driver_load and _udi_MA_install_driver.
_udi_MA_install_driver == \E d \in Driver \ Range(drivers) :
    /\ loader.pc = "idle" /\ wild = {} /\ Call /\ metas
    /\ polite => Calm
    /\ drivers' = Append(drivers, d)
    /\ stale' = stale \ {d}
    /\ IF d \in Orphans
       THEN LET n == CHOOSE m \in Node : node[m].st = "none" IN
            /\ \E m \in Node : node[m].st = "none"
            /\ node' = [node EXCEPT ![n] = [st |-> "live", parent |-> None, id |-> 0, drv |-> d,
                                            present |-> TRUE, lost |-> FALSE]]
            /\ bind' = [bind EXCEPT ![n] = BindOf(d, Loader, d, "start")]
            /\ status' = [status EXCEPT ![d] = TRUE]
            /\ Goes([pc |-> "root", drv |-> d, ok |-> TRUE])
       ELSE /\ Goes([pc |-> "match", drv |-> d, next |-> At(unbound, 1), ok |-> TRUE])
            /\ UNCHANGED <<node, bind, status>>
    /\ UNCHANGED <<kids, insts, unbound, enum, unbinds, releases, told, woken, metas, polite, wild>>

\* _udi_MA_match_drivers.
_udi_MA_match_drivers ==
    /\ loader.pc = "match" /\ wild = {}
    /\ LET x == loader.next
           n == x[1]
           d == loader.drv
       IN  CASE x = None ->
                  /\ IF loader.ok THEN loader' = Idle
                     ELSE Goes([pc |-> "destroy", next |-> At(insts[d], 1)])
                  /\ UNCHANGED <<unbound, node, bind, status, wild>>
             [] x # None /\ (x \notin Range(unbound) \/ ~Live(n) \/ node[n].parent = None
                             \/ node[node[n].parent].drv = None) ->
                  /\ Blame({"cursor"})
                  /\ UNCHANGED <<unbound, node, bind, status, loader>>
             [] OTHER ->
                  IF _udi_MA_match_children(node[node[n].parent].drv, node[n].id) # d
                  THEN /\ Goes([next |-> Following(unbound, x)])
                       /\ UNCHANGED <<unbound, node, bind, status, wild>>
                  ELSE /\ unbound' = Without(unbound, x)
                       /\ node' = Bound(node, n, d)
                       /\ bind' = [bind EXCEPT ![n] = BindOf(d, Loader, d, "start")]
                       /\ status' = [status EXCEPT ![d] = TRUE]
                       /\ Goes([pc |-> "matching", next |-> Following(unbound, x)])
                       /\ Blame(Misbound(n, d))
    /\ UNCHANGED <<kids, insts, drivers, enum, unbinds, releases, told, woken, metas, stale,
                   polite, calls>>

\* _OSDEP_EVENT_WAIT has returned.
Woken ==
    /\ loader.pc \in {"root", "matching", "destroying"} /\ woken /\ wild = {}
    /\ woken' = FALSE
    /\ LET d == loader.drv IN
       CASE loader.pc = "root" ->
              /\ IF status[d] THEN loader' = Idle
                 ELSE Goes([pc |-> "destroy", next |-> At(insts[d], 1)])
              /\ UNCHANGED unbound
         [] loader.pc = "matching" ->
              /\ Goes([pc |-> "match", ok |-> loader.ok /\ status[d]])
              /\ UNCHANGED unbound
         [] loader.pc = "destroying" ->
              /\ Goes([pc |-> "destroy"])
              /\ unbound' = IF loader.keep = None THEN unbound ELSE AddUnbound(unbound, loader.keep)
    /\ UNCHANGED <<node, kids, insts, drivers, bind, enum, unbinds, releases, status, told,
                   metas, stale, polite, wild, calls>>

\* _udi_MA_destroy_driver_by_name: the start, and one turn of its loop.
Unload == \E d \in Range(drivers) :
    /\ loader.pc = "idle" /\ wild = {} /\ Call
    /\ polite => Calm
    /\ Goes([pc |-> "destroy", drv |-> d, next |-> At(insts[d], 1)])
    /\ UNCHANGED <<node, kids, insts, drivers, unbound, bind, enum, unbinds, releases, status,
                   told, woken, metas, stale, polite, wild>>

_udi_MA_destroy_driver_by_name ==
    /\ loader.pc = "destroy" /\ wild = {}
    /\ LET d == loader.drv
           n == loader.next
       IN  CASE n = None ->
                  /\ drivers' = Without(drivers, d)
                  /\ loader' = Idle
                  /\ Blame(If(\E m \in Node : Live(m) /\ node[m].drv = d, "driver"))
                  /\ UNCHANGED <<unbinds, unbound>>
             [] n # None /\ (n \notin Range(insts[d]) \/ ~Live(n)) ->
                  /\ Blame({"cursor"})
                  /\ UNCHANGED <<drivers, loader, unbinds, unbound>>
             [] OTHER ->
                  /\ unbinds' = unbinds \cup {[path |-> <<n>>, step |-> "down",
                                               cb |-> [what |-> "wake", to |-> Loader]]}
                  /\ unbound' = RemoveUnbound(unbound, n)
                  /\ Goes([pc |-> "destroying", next |-> Following(insts[d], n),
                           keep |-> IF node[n].parent = None THEN None ELSE n])
                  /\ UNCHANGED <<drivers, wild>>
    /\ UNCHANGED <<node, kids, insts, bind, enum, releases, status, told, woken, metas, stale,
                   polite, calls>>

\* _udi_MA_meta_load, _udi_MA_meta_unload: the drivers keep a pointer to the name.
_udi_MA_meta_load == /\ ~metas /\ wild = {} /\ metas' = TRUE
                     /\ UNCHANGED <<node, kids, insts, drivers, unbound, bind, enum, unbinds, releases,
                                    status, told, loader, woken, stale, polite, wild, calls>>
_udi_MA_meta_unload ==
    /\ metas /\ wild = {} /\ Call
    /\ polite => drivers = <<>>
    /\ metas' = FALSE
    /\ stale' = stale \cup Range(drivers)
    /\ UNCHANGED <<node, kids, insts, drivers, unbound, bind, enum, unbinds, releases, status,
                   told, loader, woken, polite, wild>>
-----------------------------------------------------------------------------
Init == /\ node = [n \in Node |-> [st |-> "none", parent |-> None, id |-> 0, drv |-> None,
                                   present |-> FALSE, lost |-> FALSE]]
        /\ kids = [n \in Node |-> <<>>]
        /\ insts = [d \in Driver |-> <<>>]
        /\ drivers = <<>> /\ unbound = <<>>
        /\ bind = [n \in Node |-> NoBind]
        /\ enum = [n \in Node |-> NoEnum]
        /\ unbinds = {} /\ releases = {}
        /\ status = [x \in Driver \cup Node |-> TRUE]
        /\ told = [n \in Node |-> {}]
        /\ loader = Idle /\ woken = FALSE
        /\ metas = TRUE /\ stale = {}
        /\ polite \in BOOLEAN
        /\ wild = {} /\ calls = 0

Next == \/ \E n \in Node : \/ BindAck(n) \/ EnumerateOk(n) \/ EnumerateLeaf(n)
                           \/ EnumerateDone(n) \/ EnumerateRescan(n)
                           \/ EnumerateRemoved(n) \/ EnumerateRemovedSelf(n)
                           \/ EnumerateFailed(n) \/ EnumerateReleased(n)
        \/ _udi_unbind1 \/ DriverUnbound \/ _udi_unbind6
        \/ _udi_MA_install_driver \/ _udi_MA_match_drivers \/ Woken
        \/ Unload \/ _udi_MA_destroy_driver_by_name
        \/ _udi_MA_meta_load \/ _udi_MA_meta_unload

Spec == Init /\ [][Next]_vars
-----------------------------------------------------------------------------
\* Loading, unloading and plugging in turn use nothing that has been freed.
NothingFreedIsUsed == polite => wild = {}

\* A node is on its parent's list exactly once until it is to be released.
TreeIsWhole == wild = {} =>
    \A n \in Node : Live(n) /\ node[n].parent # None =>
       LET p == node[n].parent
           at == {k \in DOMAIN kids[p] : kids[p][k] = n}
       IN  Cardinality(at) = IF n \in releases THEN 0 ELSE 1

Failing(n) == \E u \in unbinds : u.path = <<n>> /\ u.cb.what = "bind3"
\* A driver's list has the nodes it is bound to (a node that is plugged out while the
\* loader gives it a driver is on the list of one without being bound).
InstancesAreBound == polite /\ wild = {} =>
    \A d \in Driver, n \in Node :
       /\ Cardinality({k \in DOMAIN insts[d] : insts[d][k] = n}) <= 1
       /\ n \in Range(insts[d]) <=> /\ Live(n) /\ node[n].drv = d
                                    /\ bind[n] = NoBind /\ ~Failing(n)

\* A node without a driver waits for one on the list, once, unless something is
\* under way for it, or a rescan has taken it off: that one is found again, and
\* not put back.
Away(n) == \/ n \in releases \/ \E u \in unbinds : n \in Range(u.path)
           \/ (loader.pc = "destroying" /\ loader.keep = n)
NoNodeForgotten == polite /\ wild = {} =>
    \A n \in Node :
       /\ Cardinality({k \in DOMAIN unbound : unbound[k][1] = n}) <= 1
       /\ Listed(n) => Live(n) /\ (node[n].drv = None \/ Failing(n))
       /\ Live(n) /\ node[n].parent # None /\ node[n].drv = None /\ ~Away(n) =>
             (Listed(n) \/ node[n].lost)

\* An enumeration waits for the one bind that will go on with it.
ContextsAgree == polite /\ wild = {} =>
    \A p \in Node :
       enum[p].st = "waits" <=>
         1 = Cardinality({m \in Node : \/ (bind[m] # NoBind /\ bind[m].cb = p)
                                       \/ (enum[m].st # "none" /\ enum[m].cb = p)
                                       \/ \E u \in unbinds : u.path = <<m>> /\ u.cb.to = p})

AgentIsSound == /\ NothingFreedIsUsed /\ TreeIsWhole /\ InstancesAreBound
                /\ NoNodeForgotten /\ ContextsAgree
=============================================================================

---------------------------- MODULE ObjectTable -----------------------------
(***************************************************************************)
(* AccessByNameID: objects by id, in the vector of id_generator, and some  *)
(* of them by name too.  The table stores plain pointers; what it owns is  *)
(* counted in the objects.                                                 *)
(***************************************************************************)
EXTENDS FreeList

\* access_byid(maxID = 3) and an empty map.
NewTable == [ids |-> NewList(3), names |-> [n \in {} |-> 0]]

HasName(t, name) == name \in DOMAIN t.names

WithName(t, name, x) ==
    [n \in DOMAIN t.names \cup {name} |-> IF n = name THEN x ELSE t.names[n]]

\* add_ptr, without and with a name that is new.
AddPtr(t, x) == [t EXCEPT !.ids = AddVal(@, x)]
AddNamed(t, x, name) == [AddPtr(t, x) EXCEPT !.names = WithName(t, name, x)]

\* get_ptr_imp: what the slot of a valid id holds, a pointer or a free id.
Ptr(t, id) == t.ids.at[id]

\* remove(id): the id becomes free, a name stays.
RemoveId(t, id) == [t EXCEPT !.ids = FreeId(@, id)]

\* The ids in use, and the pointers under them.
InUse(t) == GetUsedId(t.ids)
Pointers(t) == {t.ids.at[id] : id \in InUse(t)}

\* What destroy asserts of the names: they add nothing to the pointers by id.
Accounted(t) == \A n \in DOMAIN t.names : t.names[n] \in Pointers(t)
=============================================================================

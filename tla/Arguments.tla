----------------------------- MODULE Arguments ------------------------------
(***************************************************************************)
(* Which arguments of a remote call travel, and in which order: the way a  *)
(* parameter is declared makes it rpc_in, rpc_out, rpc_inout or a remote   *)
(* object, and each end of the connection has a stream that says for each  *)
(* of the four whether it is saved or loaded.                              *)
(***************************************************************************)
EXTENDS Integers, Sequences

Forms == {"T", "const T", "T&", "const T&", "T*", "const T*",
          "rpc_in", "rpc_out", "rpc_inout", "remote"}

\* ArgVal_Aux and ArgVal: xref_t.
Direction(form) ==
    CASE form \in {"T", "const T", "const T&", "const T*", "rpc_in"} -> "in"
      [] form \in {"T&", "rpc_inout"} -> "inout"
      [] form \in {"T*", "rpc_out"} -> "out"
      [] form = "remote" -> "remote"

\* Slips, for the mutation runs: the server sends what it only received; the
\* arguments are loaded from right to left.
ServerSavesAll == {"in", "inout", "out"}
LoadBackwards(vals, order, parts) ==
    LET after[k \in 0..Len(order)] ==
            IF k = 0 THEN vals
                     ELSE [after[k-1] EXCEPT ![order[Len(order) + 1 - k]] = parts[k].v]
    IN  after[Len(order)]

\* The operators << and >> that do something, at each end.  Of a remote object
\* the client writes the id, by which the server finds the object; its state
\* stays there, and nothing comes back.
ClientSaves == {"in", "inout", "remote"}
ServerLoads == {"in", "inout", "remote"}
ServerSaves == {"out", "inout"}
ClientLoads == {"out", "inout"}

\* arglist_ref::save and load go through the arguments from left to right.
Travelling(params, directions) ==
    LET upTo[i \in 0..Len(params)] ==
            IF i = 0 THEN <<>>
            ELSE IF Direction(params[i]) \in directions THEN Append(upTo[i-1], i)
            ELSE upTo[i-1]
    IN  upTo[Len(params)]

Save(vals, order) == [k \in DOMAIN order |-> [is |-> "arg", v |-> vals[order[k]]]]

\* What vals is after its places `order` have been loaded from `parts`, one by one.
Load(vals, order, parts) ==
    LET after[k \in 0..Len(order)] ==
            IF k = 0 THEN vals ELSE [after[k-1] EXCEPT ![order[k]] = parts[k].v]
    IN  after[Len(order)]
=============================================================================

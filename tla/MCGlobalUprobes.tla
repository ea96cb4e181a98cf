-------------------------- MODULE MCGlobalUprobes ---------------------------
(* Two processes of one runtime, with a TLS library each; the second has another library to try *)
(* for its runtime. *)
EXTENDS GlobalUprobes

CONSTANTS p1, p2, runtime, libssl, other

MCSlots  == {<<p, k>> : p \in {p1, p2}, k \in {runtime, libssl}} \union {<<p2, other>>}
MCProcOf == [s \in MCSlots |-> s[1]]
MCOwn    == {s \in MCSlots : s[2] # libssl}
MCBefore == [s \in MCSlots |-> IF s[2] = other THEN {<<p2, runtime>>} ELSE {}]

\* The library of p1 is the same file as the runtime, as in a statically linked program.
MCKeyOf  == [s \in MCSlots |-> IF s[1] = p1 THEN runtime ELSE IF s[2] = other THEN libssl ELSE s[2]]
=============================================================================

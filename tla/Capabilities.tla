---------------------------- MODULE Capabilities ----------------------------
(***************************************************************************)
(* capability.c and the checks of ffi.c: a capability mask is the set of   *)
(* its bits.                                                               *)
(***************************************************************************)

\* The bits of capability.h.  "other" stands for CAP_MEM_EXPAND and the
\* unused bits, which only CAP_SYS_ALL contains and no operation asks for.
Capability == {"stdio.write", "stdio.read", "file.read", "file.write",
               "net.socket", "process.spawn", "other"}

\* cap_parse_name: a name stands for one bit, for a group, for everything,
\* or - when it is unknown - for CAP_NONE.
CapParseName(name) ==
    CASE name \in Capability \ {"other"} -> {name}
      [] name = "stdio" -> {"stdio.write", "stdio.read"}
      [] name = "file" -> {"file.read", "file.write"}
      [] name = "net" -> {"net.socket"}
      [] name \in {"all", "sys"} -> Capability
      [] OTHER -> {}

\* Mutant: any bit of the required ones is enough.
CapHasAnyPermission(current, required) == required \cap current # {}

\* cap_has_permission: (current & required) == required.
CapHasPermission(current, required) == required \subseteq current

\* The capability each operation of ffi_invoke checks before it touches the
\* host.  "unknown" stands for every other operation id: it prints an error
\* and returns nil.
FfiOperation == {"print", "file_read", "file_write"}
OperationId == FfiOperation \cup {"unknown"}

FfiRequires(op) ==
    CASE op = "print"      -> "stdio.write"
      [] op = "file_read"  -> "file.read"
      [] op = "file_write" -> "file.write"

\* The host effects an ffi_invoke by a fiber holding `held` may have: none
\* when the check fails, and possibly none (a bad argument, a host error)
\* when it succeeds.  "none" stands for no effect.
FfiInvoke(held, op) ==
    IF op \in FfiOperation /\ CapHasPermission(held, {FfiRequires(op)})
    THEN {"none", FfiRequires(op)}
    ELSE {"none"}
=============================================================================

----------------------------- MODULE HandleTable ----------------------------
(***************************************************************************)
(* What gen_ref.h promises: handles to objects that detect dangling        *)
(* pointers.  A handle names its object from the insert that issued it to  *)
(* the free that retires it, and nothing ever after.                       *)
(***************************************************************************)
CONSTANTS
    Refs,       \* handles
    Objects,    \* what handles are for
    Tags,       \* the objects' type tags
    ANY,        \* a caller's tag for an object of any type
    NULL

VARIABLES
    live,       \* what each handle in use names
    retired,    \* the handles that were freed
    out         \* what the last call returned

vars == <<live, retired, out>>

Init ==
    /\ live = [r \in {} |-> NULL]
    /\ retired = {}
    /\ out = <<"nothing", NULL>>

\* A new handle is one that was never issued before.
Insert(ptr, tag) ==
    \E r \in Refs \ (DOMAIN live \cup retired) :
        /\ live' = [s \in DOMAIN live \cup {r} |->
                      IF s = r THEN [ptr |-> ptr, tag |-> tag] ELSE live[s]]
        /\ out' = <<"ref", r>>
        /\ UNCHANGED retired

\* A handle in use gives its object to a caller that expects its type, or
\* any type; every other handle gives NULL.
Lookup(r, expected) ==
    IF r \in DOMAIN live /\ expected \in {ANY, live[r].tag}
    THEN live[r].ptr ELSE NULL

Get(r, expected) ==
    /\ out' = <<"object", Lookup(r, expected)>>
    /\ UNCHANGED <<live, retired>>

\* Only a handle in use can be freed.
Free(r) ==
    IF r \in DOMAIN live
    THEN /\ live' = [s \in DOMAIN live \ {r} |-> live[s]]
         /\ retired' = retired \cup {r}
         /\ out' = <<"freed", TRUE>>
    ELSE /\ out' = <<"freed", FALSE>>
         /\ UNCHANGED <<live, retired>>

Next ==
    \/ \E ptr \in Objects, tag \in Tags : Insert(ptr, tag)
    \/ \E r \in Refs, expected \in Tags \cup {ANY} : Get(r, expected)
    \/ \E r \in Refs : Free(r)

Spec == Init /\ [][Next]_vars
=============================================================================

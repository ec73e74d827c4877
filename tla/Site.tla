---------------------------------- MODULE Site ----------------------------------
(***************************************************************************)
(* What the flash file store of firmware-rs/src/flash_fs.rs, the downloads *)
(* of ota.rs and http_task (http.rs) together promise a browser: a site is *)
(* replaced as a whole, by way of the built-in one, a restart leaves it or *)
(* brings the built-in one back, and a file that is sent is a file of the  *)
(* site it was asked of, page by page, unless a download takes the site    *)
(* away meanwhile.                                                         *)
(***************************************************************************)
EXTENDS Naturals, Sequences

CONSTANTS
    BuiltIn,   \* the site in the firmware image
    Releases,  \* those that can be downloaded
    Served,    \* names of files
    Broken     \* a download whose assets were not of the announced lengths

VARIABLES
    site,      \* what is served
    replies    \* the reply in progress, if it is owed its file: one or none

vars == <<site, replies>>

\* A download erases the site, and with it what is still to be sent of a reply, or a
\* boot does not take it up (a release without its main file).
Withdraw == site' = BuiltIn /\ replies' = {}

\* A download is complete, or a boot finds the site that could not be erased.
Publish ==
    /\ site = BuiltIn /\ replies = {}
    /\ site' \in Releases \cup {Broken}
    /\ UNCHANGED replies

Ask(f) ==
    /\ site \in Releases /\ replies = {}
    /\ replies' = {[file |-> f, sent |-> <<>>]}
    /\ UNCHANGED site

Send ==
    /\ \E x \in replies :
        replies' = {[x EXCEPT !.sent = Append(@, <<site, x.file, Len(@) + 1>>)]}
    /\ UNCHANGED site

\* All is sent, the client is gone, or the device restarts.
End == replies' = {} /\ UNCHANGED site

Init == site = BuiltIn /\ replies = {}

Next == Withdraw \/ Publish \/ (\E f \in Served : Ask(f)) \/ Send \/ End

Spec == Init /\ [][Next]_vars
================================================================================

----------------------------- MODULE MCAccounts -----------------------------
(* Small instances of Accounts for TLC. *)
EXTENDS Accounts

CONSTANTS ann, bob, mail, nick

Call(kind, clerk, claims) == [kind |-> kind, clerk |-> clerk, names |-> claims]

\* Requests and events of ann, each possibly more than once.
MCOfAnn ==
    {Call("created", ann, {mail, nick}), Call("updated", ann, {mail}),
     Call("deleted", ann, {}), Call("request", ann, {})}

\* bob has taken over a username of ann, and may be deleted.
MCSharedName ==
    MCOfAnn \cup {Call("created", bob, {nick}), Call("deleted", bob, {})}
=============================================================================

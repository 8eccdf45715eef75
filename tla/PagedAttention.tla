--------------------------- MODULE PagedAttention ---------------------------
(***************************************************************************)
(* PagedAttention of src/pystreamai/llm_optimization.py: a fixed number of *)
(* pages handed out to requests.  A request may ask for pages it does not  *)
(* get, for pages although it has some, and give back what it has not got. *)
(***************************************************************************)
EXTENDS Naturals, FiniteSets

CONSTANTS Requests,  \* request ids
          NumPages,  \* num_pages
          PageSize,  \* page_size_tokens
          MaxTokens  \* bound: tokens of a request

PagesAssumption ==
    /\ NumPages \in Nat
    /\ PageSize \in Nat \ {0}
    /\ MaxTokens \in Nat

VARIABLES
    used,   \* the pages with used = True
    pages,  \* self.requests: request id to its pages
    lost    \* history: pages of a request that has allocated again since

vars == <<used, pages, lost>>

Pages == 0..NumPages - 1

\* The keys of self.requests.
Holding == DOMAIN pages

Init ==
    /\ used = {}
    /\ pages = [r \in {} |-> {}]
    /\ lost = {}

\* The pages that tokens take, rounded up.
PagesFor(tokens) == (tokens + PageSize - 1) \div PageSize

\* A plausible bug: pages are taken from the start, used or not.
FirstPages(n) == {p \in Pages : p < n}

\* The loop over all pages: the first n that are free, or all if fewer are.
FirstFree(n) == {p \in Pages \ used : Cardinality({q \in Pages \ used : q < p}) < n}

\* The request's entry is replaced without giving back the pages in it.
Allocate(r, tokens) ==
    LET got == FirstFree(PagesFor(tokens))
    IN /\ used' = used \cup got
       /\ pages' = [q \in Holding \cup {r} |-> IF q = r THEN got ELSE pages[q]]
       /\ lost' = IF r \in Holding THEN lost \cup pages[r] ELSE lost

\* A plausible bug: the entry is not deleted, and its pages given back twice.
DeallocateKeepsEntry(r) ==
    /\ r \in Holding
    /\ used' = used \ pages[r]
    /\ UNCHANGED <<pages, lost>>

\* Nothing happens for a request without pages.
Deallocate(r) ==
    /\ r \in Holding
    /\ used' = used \ pages[r]
    /\ pages' = [q \in Holding \ {r} |-> pages[q]]
    /\ UNCHANGED lost

Next == \E r \in Requests :
            \/ \E tokens \in 0..MaxTokens : Allocate(r, tokens)
            \/ Deallocate(r)

Spec == Init /\ [][Next]_vars

------------------------------------------------------------------------------
(* Properties.                                                             *)

\* Every page in use belongs to one request, or to none any more because its
\* request allocated again, and then it never comes back: no page is ever
\* given to two requests, whatever is allocated and given back in what order.
PagesOwnedOnce ==
    /\ used = lost \cup UNION {pages[r] : r \in Holding}
    /\ \A r \in Holding : pages[r] \cap lost = {}
    /\ \A r, s \in Holding : r # s => pages[r] \cap pages[s] = {}
=============================================================================

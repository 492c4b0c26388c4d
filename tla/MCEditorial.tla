----------------------------- MODULE MCEditorial -----------------------------
EXTENDS Editorial

CONSTANTS r1, h1, h2

Serving(H, K, S) == [handlers |-> H, kinds |-> K, reminding |-> S]

\* Two requests of any kind at once; one at a time, while a stage is watched.
MCCrews ==
  {Serving({h1, h2}, Kinds, {}),
   Serving({h1}, {"submit", "approve", "reject", "save", "chip"}, {"pending_review"}),
   Serving({h1}, {"submit", "approve", "request_changes"}, {"pending_client"})}

\* No two requests at once.
OneAuthor == {Serving({h1}, {"submit", "approve", "save", "schedule", "queue"}, {})}
=============================================================================

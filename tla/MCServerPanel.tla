---------------------------- MODULE MCServerPanel ----------------------------
(***************************************************************************)
(* Bounds for ServerPanel: two servers at first, one with a key behind no  *)
(* jump host and one with a password or a remote desktop.                  *)
(***************************************************************************)
EXTENDS ServerPanel

MCTables == {<<[protocol |-> "ssh", auth |-> "key", key |-> Old, password |-> None, jump |-> NoId],
               second>> : second \in
      {[protocol |-> "ssh", auth |-> "password", key |-> None, password |-> Old, jump |-> 1],
       [protocol |-> "rdp", auth |-> "password", key |-> None, password |-> None, jump |-> NoId]}}

\* One form with all that can be filled in; one with what refers to another
\* server, which may be deleted; several forms and requests.
AllFields == {"protocol", "auth", "source", "reuse", "key", "password", "jump", "file"}
MCBounds == {[forms |-> 1, requests |-> 1, fields |-> AllFields],
             [forms |-> 1, requests |-> 2, fields |-> {"source", "reuse"}],
             [forms |-> 1, requests |-> 2, fields |-> {"jump"}],
             [forms |-> 2, requests |-> 2, fields |-> {"key"}],
             [forms |-> 1, requests |-> 3, fields |-> {"protocol"}]}
=============================================================================

---------------------------- MODULE MCServerStore ----------------------------
(***************************************************************************)
(* Instances of ServerStore for TLC: bodies of each kind.                  *)
(***************************************************************************)
EXTENDS ServerStore

Ssh(auth, key, password, copy, jump) ==
    [protocol |-> "ssh", auth |-> auth, key |-> key, password |-> password,
     copy |-> copy, jump |-> jump]

MCRdp == [protocol |-> "rdp", auth |-> "password", key |-> Blank,
          password |-> Blank, copy |-> NoJump, jump |-> NoJump]

(* Give a key; keep it; copy one; give a password; keep it; jump; RDP. *)
MCForms == {Ssh("key", "s1", Blank, NoJump, NoJump),
            Ssh("key", Blank, Blank, NoJump, NoJump),
            Ssh("key", Blank, Blank, 1, NoJump),
            Ssh("password", Blank, "s1", NoJump, 1),
            Ssh("password", Blank, Blank, NoJump, 2),
            MCRdp}
=============================================================================

------------------------------ MODULE MCTerminal ------------------------------
(***************************************************************************)
(* The instance of Terminal for TLC.                                       *)
(***************************************************************************)
EXTENDS Terminal

(* One size of message and one that ends the terminal are enough: a resize
   takes the path of a key stroke. *)
MCMsgs == {"keys", "junk"}
MCJunk == {"junk"}
MCStreams == {"stdout", "stderr"}

Each(n) == [s \in MCStreams |-> n]

(* What comes in and what goes out meet only in the context, the socket and
   its lock, so a behaviour is about one of three things:
   - an overflow: a message being typed, one queued, one too many;
   - a message that ends the terminal;
   - output: a chunk on each stream. *)
MCBounds == {[msgs |-> {"keys"}, input |-> 3, output |-> Each(0)],
             [msgs |-> {"junk"}, input |-> 1, output |-> Each(0)],
             [msgs |-> {},       input |-> 0, output |-> Each(1)]}
=============================================================================

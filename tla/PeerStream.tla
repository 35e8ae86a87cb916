----------------------------- MODULE PeerStream -----------------------------
(***************************************************************************)
(* What lies between the socket and the bytes of a peer: the encrypted     *)
(* handshake (Mse) and the replies of a SOCKS proxy (Socks).               *)
(***************************************************************************)
EXTENDS Mse, Socks

(* Whatever lies between the socket and the peer's bytes, an encrypted     *)
(* handshake read too far or the replies of a proxy, what is passed on is  *)
(* the peer's stream: every byte once, in order, decrypted in its place.   *)
PeerStreamIntact == PayloadIntact /\ ProxyTransparent

=============================================================================

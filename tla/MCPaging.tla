------------------------------ MODULE MCPaging ------------------------------
(* Instances of Paging for TLC.                                             *)
EXTENDS Paging

Ways(face, from, orders, served) ==
  {a \in [face : {face}, served : served, size : 1 .. 3, from : from, order : orders] :
     face = "blockfrost" => a.size <= MaxCount}

(* Both faces over the backends that are asked for pages.                   *)
MCAsks ==
  Ways("blockfrost", {1, 2}, {"asc", "desc", "other"}, {"count", "limit", "slice"})
  \cup Ways("koios", {0, 1, 2}, {"asc", "height.desc"}, {"count", "limit", "slice"})

(* Blockfrost's lists of an account.                                        *)
NativeAsks == Ways("blockfrost", {1}, {"asc"}, {"native"})

(* Koios's mints of an asset.                                               *)
NestedAsks == Ways("blockfrost", {1}, {"asc"}, {"nested"})

(* Koios's holders of an asset.                                             *)
OwnOrderAsks == Ways("blockfrost", {1}, {"asc", "desc"}, {"ownorder"})

UnpagedAsks == NativeAsks \cup NestedAsks \cup OwnOrderAsks
=============================================================================

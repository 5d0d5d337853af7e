--------------------------- MODULE MCUrltestPool ----------------------------
(* UrltestPool on small lists: a server of every kind the function tells    *)
(* apart, more servers than the pool holds.                                 *)
EXTENDS UrltestPool

Plain(b) == [bucket |-> b, ru |-> FALSE, wl |-> FALSE, best |-> FALSE]

MCPreferred == <<"amneziawg", "vless", "trojan">>
MCWeak == <<"shadowsocks">>
MCBucket == {"amneziawg", "vless", "trojan", "shadowsocks", "tuic", "ssh", "untyped"}

\* hiddify-core: amneziawg does not run on it.
MCServer ==
  {Plain(b) : b \in MCBucket}
    \cup {[Plain("vless") EXCEPT !.ru = TRUE, !.best = TRUE],
          [Plain("vless") EXCEPT !.wl = TRUE, !.best = TRUE],
          [Plain("trojan") EXCEPT !.best = TRUE]}
=============================================================================

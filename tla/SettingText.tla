---------------------------- MODULE SettingText ----------------------------
(***************************************************************************)
(* The texts that the settings table holds and how SettingDataManager      *)
(* reads numbers from them.  A text is the spelling that std::to_string    *)
(* gives to a number (strict), another text that starts with a number      *)
(* (lax), some other text, or there is no such row.                        *)
(***************************************************************************)
EXTENDS Integers

Absent == [form |-> "absent", n |-> 0]
Garbage == [form |-> "garbage", n |-> 0]
Strict(n) == [form |-> "strict", n |-> n]
Lax(n) == [form |-> "lax", n |-> n]
Text == [form : {"strict", "lax"}, n : Int] \cup {Garbage, Absent}

\* GetInt32Value's std::from_chars stops at the first character that is no
\* digit; the other texts give ERR_INVALID_VALUE or ERR_NAME_NOT_FOUND.
Readable(text) == text.form \in {"strict", "lax"}

\* GetInt32ValueStrictly leaves the caller's default where the text is not the
\* number's own spelling.
GetInt32ValueStrictly(text, default) == IF text.form = "strict" THEN text.n ELSE default
=============================================================================

----------------------------- MODULE MCTraining -----------------------------
(* Training for TLC: a small alphabet, short stories and a loss that goes up
   and down. *)
EXTENDS Training

(* "e" stands for a character of two bytes. *)
SmallUtf8 == "a" :> <<0>> @@ " " :> <<1>> @@ "<" :> <<2>> @@ ">" :> <<3>> @@ "e" :> <<4, 5>>
             @@ "_" :> <<6>>

S1 == <<"a", "a", "a", "a">>
S2 == <<"e", "a">>
S3 == <<"e", "a", "a">>
S4 == <<"a", " ", "e">>
S5 == <<"a", " ", "_", "e", "a">>

Sep == <<"<", ">">>
Join(x, y) == x \o Sep \o y

(* Some stories, one of which two texts repeat; with a blank document, with spaces
   around the separators, and without either; with underscores among letters and
   alone. *)
SmallTexts == {Join(S1, Join(S2, Join(S2, Join(S3, x)))) : x \in {S1, S4}}
              \cup {Join(x, Join(S4, S1)) : x \in {S1, S2}}
              \cup {Join(S5, Join(<<"_">>, Join(S3, S1)))}
              \cup {Join(S1 \o <<" ">>, Join(<<" ">>, Join(S4, Join(S3, <<>>))))}

UpAndDown == 0 :> 9 @@ 1 :> 8 @@ 2 :> 7 @@ 3 :> 6 @@ 4 :> 6 @@ 5 :> 4
             @@ 6 :> 5 @@ 7 :> 4
=============================================================================

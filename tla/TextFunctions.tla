------------------------------- MODULE TextFunctions -------------------------------
(* The four modules about text and bytes. They share no state and do not call each     *)
(* other, so they stand side by side and are not interleaved: part says which of them  *)
(* takes the steps, the other three stay in their initial states.                      *)
EXTENDS Json, StringToUint32, Base64, Wire

VARIABLE part

vars == <<part, jvars, cvars, bvars, wvars>>

Init ==
    /\ part \in {"json", "number", "base64", "wire"}
    /\ JsonInit /\ ConvInit /\ Base64Init /\ WireInit
    /\ part # "json" => buffer_size = CHOOSE size \in BufferSize : TRUE

Next ==
    /\ \/ part = "json"   /\ JsonNext   /\ UNCHANGED <<cvars, bvars, wvars>>
       \/ part = "number" /\ ConvNext   /\ UNCHANGED <<jvars, bvars, wvars>>
       \/ part = "base64" /\ Base64Next /\ UNCHANGED <<jvars, cvars, wvars>>
       \/ part = "wire"   /\ WireNext   /\ UNCHANGED <<jvars, cvars, bvars>>
    /\ UNCHANGED part

Spec == Init /\ [][Next]_vars

(* TypeOK: the variables of each part keep to its memory and its words.               *)
TypeOK == JsonTypeOK /\ ConvTypeOK /\ Base64TypeOK /\ WireTypeOK

=====================================================================================

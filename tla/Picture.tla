------------------------------- MODULE Picture -------------------------------
(***************************************************************************)
(* From the window to the encoder's input texture: WindowCapture's buffers *)
(* and crop, the size NvencEncoder is made for, and TextureScaler with the *)
(* views it keeps.  What is done with the input texture afterwards (the    *)
(* IDR request, the packet) is StreamPipeline's.                           *)
(*                                                                         *)
(* A texture is an address and the pool it was made for; an address is     *)
(* used again once nothing holds its texture.  A view holds its texture, a *)
(* raw pointer (cachedSource) does not.                                    *)
(***************************************************************************)
EXTENDS Integers, Sequences

CONSTANTS Addresses,  \* where the pool's buffers can be
          Windows,    \* the geometries the captured window takes
          Request,    \* the client's upper bound, per axis
          MaxSide,    \* bound of the sides FitFits tries
          MaxPools,   \* bound: pools made
          None        \* no texture, no view, no encoder

Axes == {"x", "y"}

\* surface: the visible bounds, which are the capture's content.  origin: of the
\* client area in them.  border: how far GetWindowRect reaches beyond them.
Geometry == [surface : [Axes -> Nat], origin : [Axes -> Int],
             client : [Axes -> Nat], border : Nat]

Textures == [at : Addresses, made : Nat, size : [Axes -> Nat]]

ASSUME PictureAssumption ==
    /\ Windows \subseteq Geometry
    /\ Windows # {}
    /\ Request \in [Axes -> Nat]
    /\ MaxSide \in Nat
    /\ MaxPools \in Nat
    /\ None \notin Addresses \cup Textures

VARIABLES
    window,       \* where the window is now
    pools,        \* how many pools were made
    pool,         \* framePool_: the addresses of its buffers
    surfaceSize,  \* surfaceSize_, the size the pool was made for
    queue,        \* frames captured and not yet handled
    encoder,      \* encoder_: the size it was made for, or None
    cachedSource, \* TextureScaler's cachedSource: an address, or None
    sourceView,   \* its sourceView: the texture it is a view of, or None
    target,       \* whether it has a view of the encoder's input texture
    picture,      \* what the input texture holds, or None (hasFrame_ false)
    asked,        \* history: what EncodeFrame last accepted
    viewLost      \* history: the last source view asked for was not made

poolVars == <<pools, pool, surfaceSize, queue>>
scalerVars == <<cachedSource, sourceView, target, viewLost>>
pictureVars == <<picture, asked>>
vars == <<window, poolVars, encoder, scalerVars, pictureVars>>

Areas == [lo : [Axes -> Int], hi : [Axes -> Int]]
Frames == [texture : Textures, window : Windows]

Clamp(v, lo, hi) == IF v < lo THEN lo ELSE IF v > hi THEN hi ELSE v
Even(v) == v - (v % 2)

-----------------------------------------------------------------------------
\* FitPreservingAspect.  A scale is a fraction; a limit of 0 binds nothing, and
\* nothing is above 1.
LimitOn(a, source, max) == IF max[a] > 0 THEN <<max[a], source[a]>> ELSE <<1, 1>>

\* Mutant of Tighter: the looser of two limits decides.
Looser(s, t) == IF s[1] * t[2] <= t[1] * s[2] THEN t ELSE s

Tighter(s, t) == IF s[1] * t[2] <= t[1] * s[2] THEN s ELSE t

Scale(source, max) ==
    IF (\A a \in Axes : source[a] > 0) /\ (\E a \in Axes : max[a] > 0)
      THEN Tighter(<<1, 1>>, Tighter(LimitOn("x", source, max), LimitOn("y", source, max)))
      ELSE <<1, 1>>

\* static_cast<int>(side * scale): a product of doubles may fall just short of a
\* whole number, unless the scale is 1.
Truncated(side, scale) ==
    LET exact == (side * scale[1]) \div scale[2]
    IN IF scale[1] # scale[2] /\ (side * scale[1]) % scale[2] = 0
         THEN {exact, exact - 1} ELSE {exact}

AtLeastTwo(v) == IF Even(v) < 2 THEN 2 ELSE Even(v)

FitPreservingAspect(source, max) ==
    {[a \in Axes |-> AtLeastTwo(IF a = "x" THEN w ELSE h)] :
        w \in Truncated(source["x"], Scale(source, max)),
        h \in Truncated(source["y"], Scale(source, max))}

-----------------------------------------------------------------------------
\* WindowCapture::ComputeCrop, in a buffer of `size'.  `told' is what Windows
\* answers: the visible bounds; the outer ones, if only DWM fails; or nothing.
Answers == {"visible", "outer", "nothing"}

Whole(size) == [lo |-> [a \in Axes |-> 0], hi |-> size]

\* Mutant of Origin: GetWindowRect, with the invisible border.
OuterOrigin(w, told, a) == w.origin[a] + w.border

Origin(w, told, a) == w.origin[a] + (IF told = "outer" THEN w.border ELSE 0)

ComputeCrop(w, size, told) ==
    LET lo == [a \in Axes |-> Clamp(Origin(w, told, a), 0, size[a])]
        hi == [a \in Axes |-> Clamp(Origin(w, told, a) + w.client[a], lo[a], size[a])]
    IN IF \/ told = "nothing"
          \/ \E a \in Axes : w.client[a] = 0 \/ hi[a] <= lo[a]
          \/ w.client = size
         THEN Whole(size) ELSE [lo |-> lo, hi |-> hi]

SizeOf(area) == [a \in Axes |-> area.hi[a] - area.lo[a]]
Empty(area) == \E a \in Axes : SizeOf(area)[a] <= 0

-----------------------------------------------------------------------------
\* A pool of two buffers of `size', at addresses nothing holds: neither a view
\* nor the frame in hand.
MakePool(size, held) ==
    /\ pools < MaxPools
    /\ pools' = pools + 1
    /\ \E a, b \in Addresses \ held : a # b /\ pool' = {a, b}
    /\ surfaceSize' = size
    /\ queue' = <<>>

Init ==
    /\ window \in Windows
    /\ pools = 0
    /\ pool = {}
    /\ surfaceSize = [a \in Axes |-> 0]
    /\ queue = <<>>
    /\ encoder = None
    /\ cachedSource = None
    /\ sourceView = None
    /\ target = FALSE
    /\ picture = None
    /\ asked = None
    /\ viewLost = FALSE

\* The window is resized, moved across screens, minimised.
WindowChanges ==
    /\ window' \in Windows \ {window}
    /\ UNCHANGED <<poolVars, encoder, scalerVars, pictureVars>>

\* WindowCapture's constructor, in StartSession.
MakeCapture ==
    /\ encoder = None
    /\ pool = {}
    /\ MakePool(window.surface, {})
    /\ UNCHANGED <<window, encoder, scalerVars, pictureVars>>

\* TextureScaler::Create: no view is made before it is asked for.
NewScaler ==
    /\ cachedSource' = None
    /\ sourceView' = None
    /\ target' = FALSE
    /\ viewLost' = FALSE

\* NvencEncoder::Create, when the driver and the GPU agree to all of it: a session,
\* an input texture and a scaler, for good of this size.
NvencCreate(size) ==
    /\ \A a \in Axes : size[a] > 0
    /\ encoder' = size
    /\ NewScaler

\* StartSession from GetClientRect on: the encoder is made for the fitted client
\* area.
CreateEncoder ==
    /\ encoder = None
    /\ pool # {}
    /\ \A a \in Axes : window.client[a] > 0
    /\ \E size \in FitPreservingAspect(window.client, Request) : NvencCreate(size)
    /\ UNCHANGED <<window, poolVars, pictureVars>>

\* The capture and the encoder are let go: no usable client area, NVENC refused
\* (~Impl closes whatever Create had opened), or StopStreaming.
StopStreaming ==
    /\ pool # {}
    /\ pool' = {}
    /\ queue' = <<>>
    /\ encoder' = None
    /\ NewScaler
    /\ picture' = None
    /\ asked' = None
    /\ UNCHANGED <<window, pools, surfaceSize>>

\* Windows fills a buffer of the pool that holds no frame waiting to be handled.
Captured ==
    /\ encoder # None
    /\ \E a \in pool :
          /\ \A i \in DOMAIN queue : queue[i].texture.at # a
          /\ queue' = Append(queue,
                [texture |-> [at |-> a, made |-> pools, size |-> surfaceSize],
                 window |-> window])
    /\ UNCHANGED <<window, pools, pool, surfaceSize, encoder, scalerVars, pictureVars>>

-----------------------------------------------------------------------------
\* Mutant of SourceIsCached: any view is good enough.
AnyViewWillDo(texture) == sourceView # None \/ cachedSource = texture.at

\* TextureScaler::Draw.  The view is kept for as long as the pointer is the same.
SourceIsCached(texture) == cachedSource = texture.at

RebuildSourceView(texture) ==
    \/ /\ SourceIsCached(texture)
       /\ UNCHANGED <<cachedSource, sourceView, viewLost>>
    \/ /\ ~SourceIsCached(texture)
       /\ sourceView' = texture
       /\ cachedSource' = texture.at
       /\ viewLost' = FALSE

\* CreateShaderResourceView fails: the old view is gone, the pointer it was
\* cached under stays.
SourceViewFails(texture) ==
    /\ ~SourceIsCached(texture)
    /\ sourceView' = None
    /\ viewLost' = TRUE
    /\ UNCHANGED <<cachedSource, target, pictureVars>>

\* The draw does not come to its end once the source's view is there: the target's
\* view cannot be made, or the constants cannot be mapped.
DrawBreaksOff(texture) ==
    /\ RebuildSourceView(texture)
    /\ target' \in {target, TRUE}
    /\ UNCHANGED pictureVars

\* What a null view draws is black.
Drawn(texture, crop, wanted) ==
    /\ RebuildSourceView(texture)
    /\ target' = TRUE
    /\ picture' = [of |-> sourceView', crop |-> crop]
    /\ asked' = [of |-> texture, wanted |-> wanted, blind |-> viewLost']

\* A surface that cannot be sampled is refused before anything is touched.
Draw(texture, crop, wanted) ==
    \/ UNCHANGED <<scalerVars, pictureVars>>
    \/ SourceViewFails(texture)
    \/ DrawBreaksOff(texture)
    \/ Drawn(texture, crop, wanted)

\* EncodeFrame: an exact copy when the crop has the encoder's size, a draw
\* otherwise.  (It also refuses an empty crop; ComputeCrop gives none.)
Copy(texture, crop, wanted) ==
    /\ picture' = [of |-> texture, crop |-> crop]
    /\ asked' = [of |-> texture, wanted |-> wanted, blind |-> FALSE]
    /\ UNCHANGED scalerVars

EncodeFrame(texture, crop, wanted) ==
    \/ SizeOf(crop) = encoder /\ Copy(texture, crop, wanted)
    \/ SizeOf(crop) # encoder /\ Draw(texture, crop, wanted)

-----------------------------------------------------------------------------
\* The area a viewer of this frame is owed, for WholeWindow: the client area, if
\* Windows says where it is, it has not moved since the frame was captured, and
\* the buffer had the window's size.
ClientArea(w) == [lo |-> w.origin, hi |-> [a \in Axes |-> w.origin[a] + w.client[a]]]

Inside(area, size) == \A a \in Axes : 0 <= area.lo[a] /\ area.hi[a] <= size[a]

Owed(frame, told) ==
    IF /\ told = "visible"
       /\ frame.window = window
       /\ frame.texture.size = window.surface
       /\ ~Empty(ClientArea(window))
       /\ Inside(ClientArea(window), window.surface)
      THEN ClientArea(window) ELSE None

\* The addresses in use while `frame' is in hand and the pool is made anew.
Held(frame) ==
    {frame.texture.at} \cup (IF sourceView' = None THEN {} ELSE {sourceView'.at})

\* WindowCapture::OnFrameArrived and Session::OnCapturedFrame.  The pool is made
\* anew for the content of a frame that is not of the pool's size.
OnFrameArrived ==
    /\ encoder # None
    /\ queue # <<>>
    /\ LET frame == Head(queue)
       IN /\ \E told \in Answers :
                EncodeFrame(frame.texture,
                            ComputeCrop(window, frame.texture.size, told),
                            Owed(frame, told))
          /\ IF frame.window.surface = surfaceSize
               THEN /\ queue' = Tail(queue)
                    /\ UNCHANGED <<pools, pool, surfaceSize>>
               ELSE MakePool(frame.window.surface, Held(frame))
    /\ UNCHANGED <<window, encoder>>

Next ==
    \/ WindowChanges
    \/ MakeCapture
    \/ CreateEncoder
    \/ StopStreaming
    \/ Captured
    \/ OnFrameArrived

Spec == Init /\ [][Next]_vars

-----------------------------------------------------------------------------
\* The values the variables take.
TypeOK ==
    /\ window \in Windows
    /\ pools \in Nat
    /\ pool \subseteq Addresses
    /\ surfaceSize \in [Axes -> Nat]
    /\ queue \in Seq(Frames)
    /\ encoder \in [Axes -> Nat] \cup {None}
    /\ cachedSource \in Addresses \cup {None}
    /\ sourceView \in Textures \cup {None}
    /\ target \in BOOLEAN
    /\ picture \in [of : Textures \cup {None}, crop : Areas] \cup {None}
    /\ asked \in [of : Textures, wanted : Areas \cup {None}, blind : BOOLEAN] \cup {None}
    /\ viewLost \in BOOLEAN

\* EncodeFrame accepts a frame only when that frame, and never an earlier one whose
\* view or address is still cached, is what the encoder will see.  The one
\* exception is black, after a view could not be made (SourceViewFails).
DrawnIsAsked ==
    asked # None => \/ picture.of = asked.of
                    \/ picture.of = None /\ asked.blind

\* What is encoded of a settled window is its client area: no title bar, no
\* invisible border and no missing corner (ComputeCrop).
WholeWindow ==
    asked # None => asked.wanted \in {None, picture.crop}

Bound(side, max) == IF max \in 1 .. side THEN max ELSE side

Fits(side, source, max) == side % 2 = 0 /\ side \in 2 .. Bound(source, max)

\* The rounding of a side takes less than 3 pixels, or adds less than 2.
InProportion(fitted, source) ==
    LET skew == fitted["x"] * source["y"] - fitted["y"] * source["x"]
    IN /\ skew < 3 * source["x"] + 2 * source["y"]
       /\ -skew < 2 * source["x"] + 3 * source["y"]

\* Whatever the window and the request the next encoder is made for, the size
\* FitPreservingAspect gives it is even, inside the limits, never larger than the
\* source, in its proportions, and within three pixels of the limit that binds.
\* (Below 2 pixels the encoder's least size wins over all of these.)
FitFits ==
    encoder = None =>
        \A source, max \in [Axes -> 0 .. MaxSide] :
            (\A a \in Axes : source[a] > 1 /\ max[a] # 1) =>
                \A fitted \in FitPreservingAspect(source, max) :
                    /\ \A a \in Axes : Fits(fitted[a], source[a], max[a])
                    /\ \E a \in Axes : fitted[a] + 3 >= Bound(source[a], max[a])
                    /\ InProportion(fitted, source)
=============================================================================

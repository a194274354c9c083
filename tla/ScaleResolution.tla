----------------------------- MODULE ScaleResolution -----------------------------
(***************************************************************************)
(* resolve_scale: what a --scale request comes to for a picture, once its  *)
(* crop is known.  A request names a box; contain fits the displayed       *)
(* picture into it, cover reaches beyond it, exact takes its dimensions.   *)
(* The dimensions lie on the codec's granularity grid.  The aspect is a    *)
(* fraction: no rounding happens before the width is derived.              *)
(***************************************************************************)
EXTENDS Integers

CONSTANTS
    Infeasible,   \* a request that admits no result
    None          \* no request, an unbounded height

Off == [mode |-> "off", width |-> 0, height |-> 0]

\* The requests there can be: a box of one or two dimensions, or two of them.
Boxes == [mode : {"contain"}, width : Nat \ {0}, height : (Nat \ {0}) \cup {None}]
         \cup [mode : {"cover", "exact"}, width : Nat \ {0}, height : Nat \ {0}]

\* Resolution.__sub__: a crop takes its margins off the picture.
Cropped(picture, crop) ==
    [width |-> picture.width - crop.across, height |-> picture.height - crop.down]

\* The displayed width over the height is the storage aspect times the sample's.
Aspect(picture, crop) ==
    [num |-> Cropped(picture, crop).width * picture.sar[1],
     den |-> Cropped(picture, crop).height * picture.sar[2]]

AtLeast(v, w) == IF v < w THEN w ELSE v
AtMost(v, w)  == IF v > w THEN w ELSE v
CeilDiv(a, b) == -((-a) \div b)

Nearest(v, g) == AtLeast(((v + g \div 2) \div g) * g, g)
Floored(v, g) == AtLeast((v \div g) * g, g)
Ceiled(v, g)  == AtLeast(CeilDiv(v, g) * g, g)

\* round(aspect * h): half to even.
WidthAt(aspect, h) ==
    LET n == aspect.num * h
        q == n \div aspect.den
        r == 2 * (n % aspect.den)
    IN IF r < aspect.den \/ (r = aspect.den /\ q % 2 = 0) THEN q ELSE q + 1

Bounded(request) == request.height # None

\* The height a picture has in the box, or just covers it with.
HeightCap(request, aspect) == (request.width * aspect.den) \div aspect.num
Contained(request, aspect) ==
    LET cap == HeightCap(request, aspect) IN
    IF Bounded(request) THEN AtMost(cap, request.height) ELSE cap
Covering(request, aspect) ==
    AtLeast(request.height, CeilDiv(request.width * aspect.den, aspect.num))

\* Whether the picture already is what is asked for, in a mode.
Fulfilled(picture, crop, request) ==
    LET size   == Cropped(picture, crop)
        aspect == Aspect(picture, crop)
    IN CASE request.mode = "contain" ->
              /\ aspect.num * size.height <= request.width * aspect.den
              /\ Bounded(request) => size.height <= request.height
         [] request.mode = "cover" -> size.height <= Covering(request, aspect)
         [] request.mode = "exact" -> /\ size = [width |-> request.width, height |-> request.height]
                                      /\ picture.sar[1] = picture.sar[2]

Upscaled(picture, crop, height) == height > Cropped(picture, crop).height

Resolve(picture, crop, request, g) ==
    LET aspect   == Aspect(picture, crop)
        contain  == request.mode = "contain"
        Grid(v)  == IF contain THEN Floored(v, g) ELSE Ceiled(v, g)
        target   == IF contain THEN Contained(request, aspect) ELSE Covering(request, aspect)
        height   == Grid(target)
    IN IF request = None THEN Off
       ELSE IF request.width < g \/ (Bounded(request) /\ request.height < g) THEN Infeasible
       ELSE IF Fulfilled(picture, crop, request) THEN Off
       ELSE IF request.mode = "exact"
       THEN [mode |-> "exact", width |-> Nearest(request.width, g), height |-> Nearest(request.height, g)]
       ELSE IF (contain /\ target < g) \/ Upscaled(picture, crop, height) THEN Infeasible
       ELSE [mode |-> request.mode, height |-> height, width |-> Grid(WidthAt(aspect, height))]
--------------------------------------------------------------------------------
\* What a result promises: it lies on the grid; contained it is inside the box and
\* covering it reaches it on both axes; it is never higher than the picture unless
\* the dimensions were asked for exactly.
Keeps(picture, crop, request, g, result) ==
    result \notin {Off, Infeasible} =>
        /\ result.mode = request.mode
        /\ result.width % g = 0 /\ result.height % g = 0
        /\ result.mode = "contain" =>
              /\ result.width <= request.width
              /\ Bounded(request) => result.height <= request.height
              /\ WidthAt(Aspect(picture, crop), result.height) <= request.width
        /\ result.mode = "cover" => result.width >= request.width /\ result.height >= request.height
        /\ result.mode # "exact" => result.height <= Cropped(picture, crop).height
================================================================================

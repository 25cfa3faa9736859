---------------------------- MODULE DemoProto ----------------------------
\* The messages and services of frontend/protos/demo.ts, one definition per
\* generated block: what the block's encode, decode, fromJSON, toJSON and
\* fromPartial do follows from the list of its fields (module Wire).
EXTENDS Sequences, TLC

\* A field: its number, its name, the kind of its values (a scalar type or the
\* name of a message) and whether it is repeated.
One(no, name, kind) == [no |-> no, name |-> name, kind |-> kind, many |-> FALSE]
Many(no, name, kind) == [no |-> no, name |-> name, kind |-> kind, many |-> TRUE]

CartItem == <<One(1, "productId", "string"), One(2, "quantity", "int32")>>
AddItemRequest == <<One(1, "userId", "string"), One(2, "item", "CartItem")>>
EmptyCartRequest == <<One(1, "userId", "string")>>
GetCartRequest == <<One(1, "userId", "string")>>
Cart == <<One(1, "userId", "string"), Many(2, "items", "CartItem")>>
Empty == <<>>
ListRecommendationsRequest ==
  <<One(1, "userId", "string"), Many(2, "productIds", "string")>>
ListRecommendationsResponse == <<Many(1, "productIds", "string")>>
Product ==
  <<One(1, "id", "string"), One(2, "name", "string"), One(3, "description", "string"),
    One(4, "picture", "string"), One(5, "priceUsd", "Money"),
    Many(6, "categories", "string")>>
ListProductsResponse == <<Many(1, "products", "Product")>>
GetProductRequest == <<One(1, "id", "string")>>
SearchProductsRequest == <<One(1, "query", "string")>>
SearchProductsResponse == <<Many(1, "results", "Product")>>
ProductReview ==
  <<One(1, "username", "string"), One(2, "description", "string"),
    One(3, "score", "string")>>
GetProductReviewsRequest == <<One(1, "productId", "string")>>
GetProductReviewsResponse == <<Many(1, "productReviews", "ProductReview")>>
GetAverageProductReviewScoreRequest == <<One(1, "productId", "string")>>
GetAverageProductReviewScoreResponse == <<One(1, "averageScore", "string")>>
AskProductAIAssistantRequest ==
  <<One(1, "productId", "string"), One(2, "question", "string")>>
AskProductAIAssistantResponse == <<One(1, "response", "string")>>
GetQuoteRequest == <<One(1, "address", "Address"), Many(2, "items", "CartItem")>>
GetQuoteResponse == <<One(1, "costUsd", "Money")>>
ShipOrderRequest == <<One(1, "address", "Address"), Many(2, "items", "CartItem")>>
ShipOrderResponse == <<One(1, "trackingId", "string")>>
Address ==
  <<One(1, "streetAddress", "string"), One(2, "city", "string"),
    One(3, "state", "string"), One(4, "country", "string"),
    One(5, "zipCode", "string")>>
Money ==
  <<One(1, "currencyCode", "string"), One(2, "units", "int64"),
    One(3, "nanos", "int32")>>
GetSupportedCurrenciesResponse == <<Many(1, "currencyCodes", "string")>>
CurrencyConversionRequest == <<One(1, "from", "Money"), One(2, "toCode", "string")>>
CreditCardInfo ==
  <<One(1, "creditCardNumber", "string"), One(2, "creditCardCvv", "int32"),
    One(3, "creditCardExpirationYear", "int32"),
    One(4, "creditCardExpirationMonth", "int32")>>
ChargeRequest == <<One(1, "amount", "Money"), One(2, "creditCard", "CreditCardInfo")>>
ChargeResponse == <<One(1, "transactionId", "string")>>
OrderItem == <<One(1, "item", "CartItem"), One(2, "cost", "Money")>>
OrderResult ==
  <<One(1, "orderId", "string"), One(2, "shippingTrackingId", "string"),
    One(3, "shippingCost", "Money"), One(4, "shippingAddress", "Address"),
    Many(5, "items", "OrderItem")>>
SendOrderConfirmationRequest ==
  <<One(1, "email", "string"), One(2, "order", "OrderResult")>>
PlaceOrderRequest ==
  <<One(1, "userId", "string"), One(2, "userCurrency", "string"),
    One(3, "address", "Address"), One(5, "email", "string"),
    One(6, "creditCard", "CreditCardInfo")>>
PlaceOrderResponse == <<One(1, "order", "OrderResult")>>
AdRequest == <<Many(1, "contextKeys", "string")>>
AdResponse == <<Many(1, "ads", "Ad")>>
Ad == <<One(1, "redirectUrl", "string"), One(2, "text", "string")>>
Flag ==
  <<One(1, "name", "string"), One(2, "description", "string"),
    One(3, "enabled", "bool")>>
GetFlagRequest == <<One(1, "name", "string")>>
GetFlagResponse == <<One(1, "flag", "Flag")>>
CreateFlagRequest ==
  <<One(1, "name", "string"), One(2, "description", "string"),
    One(3, "enabled", "bool")>>
CreateFlagResponse == <<One(1, "flag", "Flag")>>
UpdateFlagRequest == <<One(1, "name", "string"), One(2, "enabled", "bool")>>
UpdateFlagResponse == <<>>
ListFlagsRequest == <<>>
ListFlagsResponse == <<Many(1, "flag", "Flag")>>
DeleteFlagRequest == <<One(1, "name", "string")>>
DeleteFlagResponse == <<>>

\* The exported message types, by name.
ShopMessages ==
  [CartItem |-> CartItem, AddItemRequest |-> AddItemRequest,
   EmptyCartRequest |-> EmptyCartRequest, GetCartRequest |-> GetCartRequest,
   Cart |-> Cart, Empty |-> Empty,
   ListRecommendationsRequest |-> ListRecommendationsRequest,
   ListRecommendationsResponse |-> ListRecommendationsResponse, Product |-> Product,
   ListProductsResponse |-> ListProductsResponse,
   GetProductRequest |-> GetProductRequest,
   SearchProductsRequest |-> SearchProductsRequest,
   SearchProductsResponse |-> SearchProductsResponse, ProductReview |-> ProductReview,
   GetProductReviewsRequest |-> GetProductReviewsRequest,
   GetProductReviewsResponse |-> GetProductReviewsResponse,
   GetAverageProductReviewScoreRequest |-> GetAverageProductReviewScoreRequest,
   GetAverageProductReviewScoreResponse |-> GetAverageProductReviewScoreResponse,
   AskProductAIAssistantRequest |-> AskProductAIAssistantRequest,
   AskProductAIAssistantResponse |-> AskProductAIAssistantResponse]
OrderMessages ==
  [GetQuoteRequest |-> GetQuoteRequest, GetQuoteResponse |-> GetQuoteResponse,
   ShipOrderRequest |-> ShipOrderRequest, ShipOrderResponse |-> ShipOrderResponse,
   Address |-> Address, Money |-> Money,
   GetSupportedCurrenciesResponse |-> GetSupportedCurrenciesResponse,
   CurrencyConversionRequest |-> CurrencyConversionRequest,
   CreditCardInfo |-> CreditCardInfo, ChargeRequest |-> ChargeRequest,
   ChargeResponse |-> ChargeResponse, OrderItem |-> OrderItem,
   OrderResult |-> OrderResult,
   SendOrderConfirmationRequest |-> SendOrderConfirmationRequest,
   PlaceOrderRequest |-> PlaceOrderRequest, PlaceOrderResponse |-> PlaceOrderResponse,
   AdRequest |-> AdRequest, AdResponse |-> AdResponse, Ad |-> Ad, Flag |-> Flag,
   GetFlagRequest |-> GetFlagRequest, GetFlagResponse |-> GetFlagResponse,
   CreateFlagRequest |-> CreateFlagRequest, CreateFlagResponse |-> CreateFlagResponse,
   UpdateFlagRequest |-> UpdateFlagRequest, UpdateFlagResponse |-> UpdateFlagResponse,
   ListFlagsRequest |-> ListFlagsRequest, ListFlagsResponse |-> ListFlagsResponse,
   DeleteFlagRequest |-> DeleteFlagRequest, DeleteFlagResponse |-> DeleteFlagResponse]
Messages == ShopMessages @@ OrderMessages

\* A method: the message its requests are written and read as, and the message
\* of its answers. All are unary: one request, one answer or an error.
Unary(request, response) == [request |-> request, response |-> response]

CartService ==
  [addItem |-> Unary("AddItemRequest", "Empty"),
   getCart |-> Unary("GetCartRequest", "Cart"),
   emptyCart |-> Unary("EmptyCartRequest", "Empty")]
RecommendationService ==
  [listRecommendations |-> Unary("ListRecommendationsRequest", "ListRecommendationsResponse")]
ProductCatalogService ==
  [listProducts |-> Unary("Empty", "ListProductsResponse"),
   getProduct |-> Unary("GetProductRequest", "Product"),
   searchProducts |-> Unary("SearchProductsRequest", "SearchProductsResponse")]
ProductReviewService ==
  [getProductReviews |-> Unary("GetProductReviewsRequest", "GetProductReviewsResponse"),
   getAverageProductReviewScore |-> Unary("GetAverageProductReviewScoreRequest", "GetAverageProductReviewScoreResponse"),
   askProductAiAssistant |-> Unary("AskProductAIAssistantRequest", "AskProductAIAssistantResponse")]
ShippingService ==
  [getQuote |-> Unary("GetQuoteRequest", "GetQuoteResponse"),
   shipOrder |-> Unary("ShipOrderRequest", "ShipOrderResponse")]
CurrencyService ==
  [getSupportedCurrencies |-> Unary("Empty", "GetSupportedCurrenciesResponse"),
   convert |-> Unary("CurrencyConversionRequest", "Money")]
PaymentService == [charge |-> Unary("ChargeRequest", "ChargeResponse")]
EmailService == [sendOrderConfirmation |-> Unary("SendOrderConfirmationRequest", "Empty")]
CheckoutService == [placeOrder |-> Unary("PlaceOrderRequest", "PlaceOrderResponse")]
AdService == [getAds |-> Unary("AdRequest", "AdResponse")]
FeatureFlagService ==
  [getFlag |-> Unary("GetFlagRequest", "GetFlagResponse"),
   createFlag |-> Unary("CreateFlagRequest", "CreateFlagResponse"),
   updateFlag |-> Unary("UpdateFlagRequest", "UpdateFlagResponse"),
   listFlags |-> Unary("ListFlagsRequest", "ListFlagsResponse"),
   deleteFlag |-> Unary("DeleteFlagRequest", "DeleteFlagResponse")]

Methods ==
  CartService @@ RecommendationService @@ ProductCatalogService @@ ProductReviewService
    @@ ShippingService @@ CurrencyService @@ PaymentService @@ EmailService
    @@ CheckoutService @@ AdService @@ FeatureFlagService
==========================================================================
